-------------------------- MODULE RoomControlProofs --------------------------
(***************************************************************************)
(* Proofs about RoomControl, for every number of threads, timers, scenes   *)
(* and alarms: type correctness, that a sleeping room has a snapshot to be *)
(* given back from, that RoomControl implements the abstract SleepSession, *)
(* and, from the order of the operations on the stacks, the lock order,    *)
(* that a delayed mode change is never lost, that sleep leaves nothing     *)
(* behind, that the evening sleep comes once a day, what an active alarm   *)
(* is beside, and where alarm mode and the active alarm can part.          *)
(*                                                                         *)
(* The first argument.  Only the locked segment of set_mode makes the mode *)
(* "sleep", and only cancelFinish drops the snapshot without looking at    *)
(* the mode.  So a cancelFinish that is still pending must mean that the   *)
(* room is awake (FinishAwake).  It stays awake because set_mode needs     *)
(* _command_lock, which has one holder (OneHolder) and is held by whoever  *)
(* has a command segment pending (Guarded), and because the thread of the  *)
(* pending cancelFinish itself calls no set_mode before it (Undisturbed).  *)
(*                                                                         *)
(* The second argument.  A stack is always in order: what stands above an  *)
(* operation is of the few kinds Over allows, and what an operation relies *)
(* on stands below it (Complete).  This is inductive because an operation  *)
(* calls only what may stand where it stood (Calls, MayCall; StepCalls has *)
(* one case per step), and because handlers begin with stacks in order     *)
(* (Opened).  From the order follows, property by property:                *)
(*   - nothing above an operation that releases _state_lock enters a call  *)
(*     that takes _command_lock (LockOrder);                               *)
(*   - a pending mode change has an armed timer, or one that is made and   *)
(*     about to be started, or an operation that will clear or renew it:   *)
(*     a start() that raises unwinds none of these (NothingBelowStart);    *)
(*   - above a mode change that finds an alarm its acknowledgement still   *)
(*     stands, or there is none (Prepared); so no mode change but the      *)
(*     alarm's own is applied while an alarm is active, and an alarm finds *)
(*     no sleep (AlarmClean); nor does a cancel_sleep that runs beside it  *)
(*     find a lit mode to give back (FinishUnlit);                         *)
(*   - one evening sleep at most is on its way, and it was called for      *)
(*     while it was not done yet (EveningUndone).                          *)
(***************************************************************************)
EXTENDS RoomControl, SequenceTheorems, TLAPS

\* The segments inside `with self._command_lock`.
CommandOps == {"applyMode", "cancelApply", "cancelFinish"}

\* Every command segment on the stack s still has its "unlock" to come.
Guarded(s) ==
    \A i \in DOMAIN s : s[i].op \in CommandOps =>
        \E j \in DOMAIN s : j > i /\ s[j].op = "unlock"

\* What cancel_sleep does between its two segments.
Harmless(o) ==
    \/ o.op \in {"write", "setFlags"}
    \/ o.op = "emit" /\ o.type \in {"cancelled_work", "cancelled_evening"}

Undisturbed(s) ==
    \A i \in DOMAIN s : s[i].op = "cancelFinish" =>
        \A j \in 1..(i - 1) : Harmless(s[j])

OneHolder ==
    \A t, u \in Threads : HoldsCommand(t) /\ HoldsCommand(u) => t = u

FinishAwake ==
    \A t \in Threads : Pending(t, {"cancelFinish"}) => mode # "sleep"

StacksOK == \A t \in Threads : Guarded(todo[t]) /\ Undisturbed(todo[t])

IInv == TypeOK /\ OneHolder /\ StacksOK /\ FinishAwake /\ SleepHasRestore

-----------------------------------------------------------------------------
(* Stacks of pending operations *)

\* Operations that neither are a command segment nor give back the lock.
OrdinaryOps == {o \in Ops : o.op \notin CommandOps \cup {"unlock"}}

\* What remains of the stack s when its first operation calls ops: ops first,
\* then the rest of s.
LEMMA CalledFirst ==
    ASSUME NEW s \in Seq(Ops), s # <<>>, NEW ops \in Seq(Ops)
    PROVE  LET r == ops \o Tail(s)
           IN /\ r \in Seq(Ops)
              /\ Len(s) \in Nat \ {0} /\ Len(ops) \in Nat
              /\ Len(r) = Len(ops) + Len(s) - 1
              /\ DOMAIN r = 1..Len(r) /\ DOMAIN s = 1..Len(s)
              /\ Head(s) = s[1]
              /\ \A i \in 1..Len(ops) : r[i] = ops[i]
              /\ \A i \in 2..Len(s) : r[Len(ops) + i - 1] = s[i]
              /\ \A i \in (Len(ops) + 1)..Len(r) :
                    i - Len(ops) + 1 \in 2..Len(s) /\ r[i] = s[i - Len(ops) + 1]
<1> DEFINE r == ops \o Tail(s)
<1>1. Tail(s) \in Seq(Ops) /\ Len(Tail(s)) = Len(s) - 1 /\ Len(s) \in Nat \ {0}
      /\ \A i \in 1..Len(Tail(s)) : Tail(s)[i] = s[i + 1]
  BY HeadTailProperties, EmptySeq
<1>2. /\ r \in Seq(Ops) /\ Len(ops) \in Nat
      /\ Len(r) = Len(ops) + Len(Tail(s))
      /\ \A i \in 1..(Len(ops) + Len(Tail(s))) :
            r[i] = IF i <= Len(ops) THEN ops[i] ELSE Tail(s)[i - Len(ops)]
  BY <1>1, ConcatProperties, LenProperties
<1>3. DOMAIN r = 1..Len(r) /\ DOMAIN s = 1..Len(s) /\ Head(s) = s[1]
  BY <1>2, LenProperties
<1>4. ASSUME NEW i \in 2..Len(s) PROVE r[Len(ops) + i - 1] = s[i]
  <2>1. Len(ops) + i - 1 \in 1..(Len(ops) + Len(Tail(s))) /\ ~(Len(ops) + i - 1 <= Len(ops))
        /\ (Len(ops) + i - 1) - Len(ops) = i - 1 /\ i - 1 \in 1..Len(Tail(s))
        /\ (i - 1) + 1 = i
    BY <1>1, <1>2
  <2> QED BY <2>1, <1>1, <1>2
<1>5. ASSUME NEW i \in (Len(ops) + 1)..Len(r)
      PROVE  i - Len(ops) + 1 \in 2..Len(s) /\ r[i] = s[i - Len(ops) + 1]
  <2>1. i \in 1..(Len(ops) + Len(Tail(s))) /\ ~(i <= Len(ops))
        /\ i - Len(ops) \in 1..Len(Tail(s)) /\ i - Len(ops) + 1 \in 2..Len(s)
    BY <1>1, <1>2
  <2> QED BY <2>1, <1>1, <1>2
<1>6. \A i \in 1..Len(ops) : r[i] = ops[i]
  BY <1>1, <1>2
<1> QED BY <1>1, <1>2, <1>3, <1>4, <1>5, <1>6

\* The step of a thread that calls ops keeps the stacks in order when ops
\* guards its own command segments (or runs inside one), disturbs no pending
\* cancelFinish, and takes the lock only while it is free.
LEMMA StackStep ==
    ASSUME todo \in [Threads -> Seq(Ops)], OneHolder, StacksOK,
           NEW t \in Threads, todo[t] # <<>>, NEW ops \in Seq(Ops), Continue(t, ops),
           \A i \in 1..Len(ops) : ops[i].op \in CommandOps =>
                \/ \E j \in (i + 1)..Len(ops) : ops[j].op = "unlock"
                \/ Top(t).op \in CommandOps,
           \A i \in 1..Len(ops) : ops[i].op = "cancelFinish" =>
                \A j \in 1..(i - 1) : Harmless(ops[j]),
           Harmless(Top(t)) => \A i \in 1..Len(ops) : Harmless(ops[i]),
           (\E i \in 1..Len(ops) : ops[i].op = "unlock") => CommandFree(t)
    PROVE  /\ todo' \in [Threads -> Seq(Ops)]
           /\ OneHolder' /\ StacksOK'
           /\ \A u \in Threads : Pending(u, {"cancelFinish"})' =>
                \/ Pending(u, {"cancelFinish"})
                \/ \E i \in 1..Len(ops) : ops[i].op = "cancelFinish"
<1> DEFINE s == todo[t]
           r == ops \o Tail(s)
           k == Len(ops)
<1>0. s \in Seq(Ops) /\ s # <<>> /\ Top(t) = Head(s)
  BY DEF Top
<1>1. /\ r \in Seq(Ops) /\ Len(s) \in Nat \ {0} /\ k \in Nat
      /\ Len(r) = k + Len(s) - 1
      /\ DOMAIN r = 1..Len(r) /\ DOMAIN s = 1..Len(s) /\ Head(s) = s[1]
      /\ \A i \in 1..k : r[i] = ops[i]
      /\ \A i \in 2..Len(s) : r[k + i - 1] = s[i]
      /\ \A i \in (k + 1)..Len(r) : i - k + 1 \in 2..Len(s) /\ r[i] = s[i - k + 1]
  BY <1>0, CalledFirst
<1>2. todo' = [todo EXCEPT ![t] = r] /\ todo'[t] = r
      /\ \A u \in Threads \ {t} : todo'[u] = todo[u]
  BY DEF Continue
<1>3. todo' \in [Threads -> Seq(Ops)]
  BY <1>1, <1>2
<1>4. \A i \in 1..Len(r) : i \in 1..k \/ i \in (k + 1)..Len(r)
  BY <1>1
<1>5. Guarded(s) /\ Undisturbed(s)
  BY DEF StacksOK
<1> HIDE DEF s, r, k
<1>6. Guarded(r)
  <2> SUFFICES ASSUME NEW i \in 1..Len(r), r[i].op \in CommandOps
               PROVE  \E j \in 1..Len(r) : j > i /\ r[j].op = "unlock"
    BY <1>1 DEF Guarded
  <2>1. CASE i \in (k + 1)..Len(r)
    <3>0. i - k + 1 \in DOMAIN s /\ s[i - k + 1].op \in CommandOps
      BY <2>1, <1>1
    <3>1. PICK j \in DOMAIN s : j > i - k + 1 /\ s[j].op = "unlock"
      <4>1. \A h \in DOMAIN s : s[h].op \in CommandOps =>
                \E j \in DOMAIN s : j > h /\ s[j].op = "unlock"
        BY <1>5 DEF Guarded
      <4> QED BY <3>0, <4>1
    <3>2. k + j - 1 \in 1..Len(r) /\ k + j - 1 > i /\ j \in 2..Len(s)
      BY <2>1, <3>1, <1>1
    <3> QED BY <3>1, <3>2, <1>1
  <2>2. CASE i \in 1..k /\ \E j \in (i + 1)..k : ops[j].op = "unlock"
    <3>1. PICK j \in (i + 1)..k : ops[j].op = "unlock"
      BY <2>2
    <3>2. j \in 1..k /\ j \in 1..Len(r) /\ j > i
      BY <2>2, <1>1
    <3> QED BY <3>1, <3>2, <1>1
  <2>3. CASE i \in 1..k /\ Top(t).op \in CommandOps
    <3>0. 1 \in DOMAIN s /\ s[1].op \in CommandOps
      BY <2>3, <1>0, <1>1
    <3>1. PICK j \in DOMAIN s : j > 1 /\ s[j].op = "unlock"
      <4>1. \A h \in DOMAIN s : s[h].op \in CommandOps =>
                \E j \in DOMAIN s : j > h /\ s[j].op = "unlock"
        BY <1>5 DEF Guarded
      <4> QED BY <3>0, <4>1
    <3>2. k + j - 1 \in 1..Len(r) /\ k + j - 1 > k /\ j \in 2..Len(s)
      BY <3>1, <1>1
    <3>3. k + j - 1 > i
      BY <2>3, <3>1, <3>2, <1>1
    <3> QED BY <3>1, <3>2, <3>3, <1>1
  <2>4. CASE i \in 1..k
    BY <2>2, <2>3, <2>4, <1>1 DEF k
  <2> QED BY <2>1, <2>4, <1>4
<1>7. Undisturbed(r)
  <2> SUFFICES ASSUME NEW i \in 1..Len(r), r[i].op = "cancelFinish",
                      NEW j \in 1..(i - 1)
               PROVE  Harmless(r[j])
    BY <1>1 DEF Undisturbed
  <2>1. CASE i \in 1..k
    <3>1. j \in 1..k
      BY <2>1, <1>1
    <3> QED BY <2>1, <3>1, <1>1 DEF k
  <2>2. CASE i \in (k + 1)..Len(r)
    <3>1. i - k + 1 \in 2..Len(s) /\ s[i - k + 1].op = "cancelFinish"
      BY <2>2, <1>1
    <3>2. \A h \in 1..(i - k) : Harmless(s[h])
      BY <3>1, <1>1, <1>5, (i - k + 1) - 1 = i - k DEF Undisturbed
    <3>3. Harmless(Top(t))
      BY <3>1, <3>2, <1>0, <1>1, 1 \in 1..(i - k)
    <3>4. CASE j \in 1..k
      BY <3>3, <3>4, <1>1 DEF k
    <3>5. CASE j \in (k + 1)..Len(r)
      <4>1. j - k + 1 \in 1..(i - k)
        BY <3>5, <2>2, <1>1
      <4> QED BY <4>1, <3>2, <3>5, <1>1
    <3> QED BY <3>4, <3>5, <2>2, <1>1
  <2> QED BY <2>1, <2>2, <1>4
<1>8. StacksOK'
  BY <1>2, <1>6, <1>7 DEF StacksOK, Guarded, Undisturbed
<1>9. ASSUME NEW i \in 1..Len(r)
      PROVE  \/ \E h \in 1..k : r[i] = ops[h]
             \/ \E h \in DOMAIN s : r[i] = s[h]
  <2>1. CASE i \in 1..k
    BY <2>1, <1>1
  <2>2. CASE i \in (k + 1)..Len(r)
    <3>1. i - k + 1 \in DOMAIN s /\ r[i] = s[i - k + 1]
      BY <2>2, <1>1
    <3> QED BY <3>1
  <2> QED BY <2>1, <2>2, <1>4
<1>10. ASSUME NEW u \in Threads, NEW name, Pending(u, {name})'
       PROVE  \/ Pending(u, {name})
              \/ u = t /\ (\E i \in 1..k : ops[i].op = name)
  <2>1. CASE u # t
    BY <1>10, <2>1, <1>2 DEF Pending
  <2>2. CASE u = t
    <3>1. PICK i \in DOMAIN r : r[i].op = name
      BY <1>10, <2>2, <1>2 DEF Pending
    <3> QED BY <3>1, <2>2, <1>1, <1>9 DEF Pending, s
  <2> QED BY <2>1, <2>2
<1>11. OneHolder'
  <2> SUFFICES ASSUME NEW u \in Threads, NEW v \in Threads,
                      HoldsCommand(u)', HoldsCommand(v)'
               PROVE  u = v
    BY DEF OneHolder
  <2>1. /\ HoldsCommand(u) \/ (u = t /\ CommandFree(t))
        /\ HoldsCommand(v) \/ (v = t /\ CommandFree(t))
    BY <1>10 DEF HoldsCommand, k
  <2> QED BY <2>1 DEF OneHolder, CommandFree
<1> QED BY <1>3, <1>8, <1>10, <1>11 DEF k

\* The same for a step that calls ordinary operations only.
LEMMA OrdinaryStep ==
    ASSUME todo \in [Threads -> Seq(Ops)], OneHolder, StacksOK,
           NEW t \in Threads, todo[t] # <<>>,
           NEW ops \in Seq(OrdinaryOps), Continue(t, ops),
           Harmless(Top(t)) => \A i \in 1..Len(ops) : Harmless(ops[i])
    PROVE  /\ todo' \in [Threads -> Seq(Ops)]
           /\ OneHolder' /\ StacksOK'
           /\ \A u \in Threads : Pending(u, {"cancelFinish"})' => Pending(u, {"cancelFinish"})
<1>1. ops \in Seq(Ops) /\ \A i \in 1..Len(ops) : ops[i] \in OrdinaryOps
  BY ElementOfSeq, SeqMonotonic, OrdinaryOps \subseteq Ops DEF OrdinaryOps
<1>2. \A i \in 1..Len(ops) : ops[i].op \notin CommandOps \cup {"unlock"}
  BY <1>1 DEF OrdinaryOps
<1> QED BY <1>1, <1>2, StackStep DEF CommandOps

\* The operations that the handlers call are operations.
LEMMA PlainOp ==
    ASSUME NEW name \in PlainOps
    PROVE  Plain(name) \in Ops /\ Plain(name).op = name
BY DEF Plain, Ops

LEMMA OrdinaryPlain ==
    \A name \in PlainOps \ {"cancelApply", "unlock"} : Plain(name) \in OrdinaryOps
BY PlainOp DEF OrdinaryOps, CommandOps, PlainOps

LEMMA OrdinaryCalls ==
    /\ \A m \in Modes, why \in Reasons, id \in AllAlarms \cup {"none"} :
            SetMode(m, why, id) \in OrdinaryOps
    /\ \A on \in {"on", "off", "keep"}, look \in Looks \cup {"keep"}, manual \in BOOLEAN :
            Write(on, look, manual) \in OrdinaryOps
    /\ \A type \in Events : Emit(type) \in OrdinaryOps
    /\ \A type \in Events, id \in AllAlarms : EmitAlarm(type, id) \in OrdinaryOps
    /\ \A which \in FlagSets : SetFlags(which) \in OrdinaryOps
    /\ \A tm \in ModeTimers : Start(tm) \in OrdinaryOps
    /\ \A v \in Overrides : Override(v) \in OrdinaryOps /\ OverrideEnd(v) \in OrdinaryOps
    /\ \A id \in AllAlarms, due \in {"flashing", "steady", "expired"} :
            ForceAlarm(id, due) \in OrdinaryOps
    /\ \A ids \in SUBSET AlarmIds : DueAlarms(ids) \in OrdinaryOps
<1> USE DEF OrdinaryOps, Ops, CommandOps
<1>1. \A m \in Modes, why \in Reasons, id \in AllAlarms \cup {"none"} :
            SetMode(m, why, id) \in OrdinaryOps
  BY DEF SetMode
<1>2. \A on \in {"on", "off", "keep"}, look \in Looks \cup {"keep"}, manual \in BOOLEAN :
            Write(on, look, manual) \in OrdinaryOps
  BY DEF Write
<1>3. \A type \in Events : Emit(type) \in OrdinaryOps
  BY DEF Emit
<1>4. \A type \in Events, id \in AllAlarms : EmitAlarm(type, id) \in OrdinaryOps
  BY DEF EmitAlarm
<1>5. \A which \in FlagSets : SetFlags(which) \in OrdinaryOps
  BY DEF SetFlags
<1>6. \A tm \in ModeTimers : Start(tm) \in OrdinaryOps
  BY DEF Start
<1>7. \A v \in Overrides : Override(v) \in OrdinaryOps /\ OverrideEnd(v) \in OrdinaryOps
  BY DEF Override, OverrideEnd
<1>8. \A id \in AllAlarms, due \in {"flashing", "steady", "expired"} :
            ForceAlarm(id, due) \in OrdinaryOps
  BY DEF ForceAlarm
<1>9. \A ids \in SUBSET AlarmIds : DueAlarms(ids) \in OrdinaryOps
  BY DEF DueAlarms
<1> QED BY <1>1, <1>2, <1>3, <1>4, <1>5, <1>6, <1>7, <1>8, <1>9

\* What the fields of an operation hold.
LEMMA Fields ==
    ASSUME NEW o \in Ops
    PROVE  /\ o.op \in {"setMode", "applyMode"} =>
                o.mode \in Modes /\ o.why \in Reasons /\ o.id \in AllAlarms \cup {"none"}
           /\ o.op = "write" =>
                /\ o.on \in {"on", "off", "keep"} /\ o.look \in Looks \cup {"keep"}
                /\ o.manual \in BOOLEAN
           /\ o.op = "emit" => o.type \in Events /\ o.id \in AllAlarms \cup {"none"}
           /\ o.op = "cancelFinish" => o.restore \in Restores /\ o.occupied \in BOOLEAN
           /\ o.op = "startTimer" => o.timer \in ModeTimers
           /\ o.op \in {"override", "overrideEnd"} => o.to \in Overrides
           /\ o.op = "forceAlarm" =>
                o.id \in AllAlarms /\ o.due \in {"flashing", "steady", "expired"}
           /\ o.op = "dueAlarms" => o.ids \in SUBSET AlarmIds
BY DEF Ops, PlainOps

\* The calls that cancel or schedule the pending mode, or set the light.
LEMMA OrdinarySequences ==
    /\ <<>> \in Seq(OrdinaryOps)
    /\ \A o \in OrdinaryOps : <<o>> \in Seq(OrdinaryOps)
    /\ \A o, p \in OrdinaryOps : <<o, p>> \in Seq(OrdinaryOps)
    /\ \A s, r \in Seq(OrdinaryOps) : s \o r \in Seq(OrdinaryOps)
    /\ CancelPending \in Seq(OrdinaryOps)
    /\ SchedulePending \in Seq(OrdinaryOps)
    /\ \A on \in {"on", "off", "keep"}, look \in Looks \cup {"keep"} :
            /\ SetLight(on, look) \in Seq(OrdinaryOps)
            /\ ManualLight(on, look) \in Seq(OrdinaryOps)
    /\ \A saved \in Lights : GiveBack(saved) \in Seq(OrdinaryOps)
<1>1. \A s, r \in Seq(OrdinaryOps) : s \o r \in Seq(OrdinaryOps)
  BY ConcatProperties
<1>2. <<>> \in Seq(OrdinaryOps) /\ (\A o \in OrdinaryOps : <<o>> \in Seq(OrdinaryOps))
      /\ \A o, p \in OrdinaryOps : <<o, p>> \in Seq(OrdinaryOps)
  OBVIOUS
<1>3. CancelPending \in Seq(OrdinaryOps) /\ SchedulePending \in Seq(OrdinaryOps)
  BY OrdinaryPlain DEF CancelPending, SchedulePending, PlainOps
<1>4. \A on \in {"on", "off", "keep"}, look \in Looks \cup {"keep"} :
            SetLight(on, look) \in Seq(OrdinaryOps) /\ ManualLight(on, look) \in Seq(OrdinaryOps)
  BY <1>1, <1>2, <1>3, OrdinaryCalls DEF SetLight, ManualLight
<1>5. \A saved \in Lights : GiveBack(saved) \in Seq(OrdinaryOps)
  BY <1>4 DEF GiveBack, Lights
<1> QED BY <1>1, <1>2, <1>3, <1>4, <1>5

-----------------------------------------------------------------------------
(* The actions, one lemma each *)

\* TypeOK without the stacks.
RoomTypeOK ==
    /\ mode \in Modes
    /\ workReturn \in BOOLEAN
    /\ override \in Overrides
    /\ light \in Lights
    /\ sleepRestore \in Restores
    /\ alarmRestore \in Restores
    /\ alarm \in ActiveAlarms
    /\ alarms \in [AlarmIds -> {"absent", "once", "daily", "disabled"}]
    /\ flags \in [workDone : BOOLEAN, workCancel : BOOLEAN,
                  eveningDone : BOOLEAN, eveningCancel : BOOLEAN]
    /\ occupied \in BOOLEAN
    /\ pending \in BOOLEAN
    /\ timerRef \in ModeTimers \cup {NoTimer}
    /\ timer \in [ModeTimers -> {"idle", "made", "armed", "cancelled"}]

\* What a thread is about to do: its first operation is one of Ops, and
\* nothing but write, setFlags and emit is harmless.
LEMMA TopOp ==
    ASSUME TypeOK, NEW t \in Threads, NEW name, At(t, name)
    PROVE  /\ todo[t] # <<>> /\ Top(t) \in Ops /\ Top(t).op = name
           /\ name \notin {"write", "setFlags", "emit"} => ~Harmless(Top(t))
<1>1. todo[t] \in Seq(Ops) /\ todo[t] # <<>> /\ Top(t).op = name
  BY DEF TypeOK, At, Top
<1>2. Top(t) \in Ops
  BY <1>1, HeadTailProperties DEF Top
<1> QED BY <1>1, <1>2 DEF Harmless

\* A step that calls ordinary operations and leaves the mode and the snapshot
\* alone preserves the invariant if it keeps the types.
LEMMA CallingStep ==
    ASSUME IInv, NEW t \in Threads, todo[t] # <<>>,
           NEW ops \in Seq(OrdinaryOps), Continue(t, ops),
           Harmless(Top(t)) => \A i \in 1..Len(ops) : Harmless(ops[i]),
           RoomTypeOK', mode' = mode, sleepRestore' = sleepRestore
    PROVE  IInv'
<1>1. /\ todo' \in [Threads -> Seq(Ops)] /\ OneHolder' /\ StacksOK'
      /\ \A u \in Threads : Pending(u, {"cancelFinish"})' => Pending(u, {"cancelFinish"})
  BY OrdinaryStep DEF IInv, TypeOK
<1>2. TypeOK'
  BY <1>1 DEF TypeOK, RoomTypeOK
<1>3. FinishAwake' /\ SleepHasRestore'
  BY <1>1 DEF IInv, FinishAwake, SleepHasRestore
<1> QED BY <1>1, <1>2, <1>3 DEF IInv

\* The harmless operations call nothing, or only harmless operations.
LEMMA ReturningStep ==
    ASSUME IInv, NEW t \in Threads, todo[t] # <<>>, Continue(t, <<>>),
           RoomTypeOK', mode' = mode, sleepRestore' = sleepRestore
    PROVE  IInv'
<1>1. <<>> \in Seq(OrdinaryOps) /\ \A i \in 1..Len(<<>>) : Harmless(<<>>[i])
  <2>1. 1..Len(<<>>) = {}
    BY EmptySeq
  <2> QED BY <2>1, OrdinarySequences
<1> QED BY <1>1, CallingStep

\* Starting from an empty stack, or unwinding it.
LEMMA ReplacingStep ==
    ASSUME IInv, NEW t \in Threads, NEW ops \in Seq(OrdinaryOps),
           todo' = [todo EXCEPT ![t] = ops],
           RoomTypeOK', mode' = mode, sleepRestore' = sleepRestore
    PROVE  IInv'
<1>1. ops \in Seq(Ops) /\ DOMAIN ops = 1..Len(ops)
      /\ \A i \in 1..Len(ops) : ops[i].op \notin CommandOps \cup {"unlock"}
  <2>1. ops \in Seq(Ops) /\ \A i \in 1..Len(ops) : ops[i] \in OrdinaryOps
    BY ElementOfSeq, SeqMonotonic, OrdinaryOps \subseteq Ops DEF OrdinaryOps
  <2> QED BY <2>1, LenProperties DEF OrdinaryOps
<1>2. TypeOK /\ todo'[t] = ops /\ (\A u \in Threads \ {t} : todo'[u] = todo[u])
      /\ todo' \in [Threads -> Seq(Ops)]
  BY <1>1 DEF IInv, TypeOK
<1>3. TypeOK'
  BY <1>2 DEF TypeOK, RoomTypeOK
<1>4. \A name \in CommandOps \cup {"unlock"}, u \in Threads :
            Pending(u, {name})' => u # t /\ Pending(u, {name})
  BY <1>1, <1>2 DEF Pending
<1>5. OneHolder'
  BY <1>4 DEF IInv, OneHolder, HoldsCommand
<1>6. StacksOK'
  <2>1. Guarded(ops) /\ Undisturbed(ops)
    BY <1>1 DEF Guarded, Undisturbed, CommandOps
  <2>2. \A u \in Threads \ {t} : Guarded(todo[u])' /\ Undisturbed(todo[u])'
    BY <1>2 DEF IInv, StacksOK, Guarded, Undisturbed
  <2>3. Guarded(todo[t])' /\ Undisturbed(todo[t])'
    BY <1>2, <2>1 DEF Guarded, Undisturbed
  <2> QED BY <2>2, <2>3 DEF StacksOK
<1>7. FinishAwake' /\ SleepHasRestore'
  BY <1>4 DEF IInv, FinishAwake, SleepHasRestore, CommandOps
<1> QED BY <1>3, <1>5, <1>6, <1>7 DEF IInv

LEMMA PendingModePreserves ==
    ASSUME IInv, NEW t \in Threads, PendingModeStep(t)
    PROVE  IInv'
<1> USE DEF RoomTypeOK, roomVars
<1>0. TypeOK /\ RoomTypeOK
  BY DEF IInv, TypeOK
<1>1. CASE CancelTimer(t)
  <2>1. todo[t] # <<>> /\ Continue(t, <<>>) /\ RoomTypeOK' /\ mode' = mode
        /\ sleepRestore' = sleepRestore
    BY <1>0, <1>1 DEF CancelTimer, At
  <2> QED BY <2>1, ReturningStep
<1>2. CASE DropRef(t)
  BY <1>0, <1>2, ReturningStep DEF DropRef, At
<1>3. CASE ClearPending(t)
  BY <1>0, <1>3, ReturningStep DEF ClearPending, At
<1>4. CASE SetPending(t)
  BY <1>0, <1>4, ReturningStep DEF SetPending, At
<1>5. CASE MakeTimer(t)
  <2>1. PICK tm \in ModeTimers : /\ timer' = [timer EXCEPT ![tm] = "made"]
                                 /\ timerRef' = tm /\ Continue(t, <<Start(tm)>>)
    BY <1>5 DEF MakeTimer
  <2>2. RoomTypeOK' /\ mode' = mode /\ sleepRestore' = sleepRestore
    BY <1>0, <1>5, <2>1 DEF MakeTimer
  <2>3. <<Start(tm)>> \in Seq(OrdinaryOps)
    BY OrdinaryCalls, OrdinarySequences
  <2>4. todo[t] # <<>> /\ ~Harmless(Top(t))
    BY <1>0, <1>5, TopOp DEF MakeTimer
  <2> QED BY <2>1, <2>2, <2>3, <2>4, CallingStep
<1>6. CASE StartTimer(t)
  <2>1. RoomTypeOK' /\ mode' = mode /\ sleepRestore' = sleepRestore /\ todo[t] # <<>>
    BY <1>0, <1>6 DEF StartTimer, At
  <2>2. CASE Continue(t, <<>>)
    BY <2>1, <2>2, ReturningStep
  <2>3. CASE todo' = [todo EXCEPT ![t] = <<>>]
    BY <2>1, <2>3, ReplacingStep, OrdinarySequences
  <2> QED BY <1>6, <2>2, <2>3 DEF StartTimer
<1> QED BY <1>1, <1>2, <1>3, <1>4, <1>5, <1>6 DEF PendingModeStep

\* The operations an event leads to, and what becomes of the alarm.
LEMMA AutomationCalls ==
    ASSUME TypeOK, NEW event \in Ops, event.op = "emit"
    PROVE  Automation(event) \in Seq(OrdinaryOps)
<1>1. event.type \in Events /\ event.id \in AllAlarms \cup {"none"}
  BY Fields
<1>2. <<Plain("turnOn")>> \in Seq(OrdinaryOps) /\ <<Plain("ack")>> \in Seq(OrdinaryOps)
  BY OrdinaryPlain, OrdinarySequences DEF PlainOps
<1>3. SetLight("off", "keep") \in Seq(OrdinaryOps) /\ SetLight("on", "bright") \in Seq(OrdinaryOps)
  BY OrdinarySequences DEF Looks
<1>4. <<SetMode("alarm", "schedule", event.id)>> \in Seq(OrdinaryOps)
      /\ <<SetMode("sleep", "evening", "none")>> \in Seq(OrdinaryOps)
  BY <1>1, OrdinaryCalls, OrdinarySequences DEF Modes, Reasons
<1>5. \A which \in FlagSets : <<SetFlags(which)>> \in Seq(OrdinaryOps)
  BY OrdinaryCalls, OrdinarySequences
<1>6. <<SetFlags("reset")>> \in Seq(OrdinaryOps) /\ <<SetFlags("workCancel")>> \in Seq(OrdinaryOps)
      /\ <<SetFlags("eveningCancel")>> \in Seq(OrdinaryOps)
  BY <1>5 DEF FlagSets
<1> QED BY <1>2, <1>3, <1>4, <1>6, OrdinarySequences DEF Automation

LEMMA EmitPreserves ==
    ASSUME IInv, NEW t \in Threads, EmitEvent(t)
    PROVE  IInv'
<1> DEFINE event == Top(t)
           ops == Automation(event)
<1>1. TypeOK /\ todo[t] # <<>> /\ event \in Ops /\ event.op = "emit"
  BY TopOp DEF IInv, EmitEvent
<1>2. ops \in Seq(OrdinaryOps) /\ Continue(t, ops)
  BY <1>1, AutomationCalls DEF EmitEvent
<1>3. RoomTypeOK' /\ mode' = mode /\ sleepRestore' = sleepRestore
  BY <1>1 DEF EmitEvent, TypeOK, RoomTypeOK, ActiveAlarms, NoAlarm
<1>4. ASSUME Harmless(event) PROVE \A i \in 1..Len(ops) : Harmless(ops[i])
  <2>1. event.type \in {"cancelled_work", "cancelled_evening"}
    BY <1>1, <1>4 DEF Harmless
  <2>2. ops = <<SetFlags("workCancel")>> \/ ops = <<SetFlags("eveningCancel")>>
    BY <2>1 DEF Automation
  <2>3. \A which : Harmless(SetFlags(which))
    BY DEF Harmless, SetFlags
  <2> QED BY <2>2, <2>3
<1> QED BY <1>1, <1>2, <1>3, <1>4, CallingStep

LEMMA WriteLightPreserves ==
    ASSUME IInv, NEW t \in Threads, WriteLight(t)
    PROVE  IInv'
<1> DEFINE c == Top(t)
<1>1. TypeOK /\ todo[t] # <<>> /\ c \in Ops /\ c.op = "write" /\ Continue(t, <<>>)
  BY TopOp DEF IInv, WriteLight
<1>2. c.on \in {"on", "off", "keep"} /\ c.look \in Looks \cup {"keep"} /\ c.manual \in BOOLEAN
  BY <1>1, Fields
<1>3. RestoredMode \in Modes /\ RestoredMode # "sleep"
  BY NamesAssumption DEF RestoredMode, Modes
<1>4. light' \in Lights
  <2>1. light.on \in BOOLEAN /\ light.look \in Looks
    BY <1>1 DEF TypeOK, Lights
  <2> QED BY <1>2, <2>1, NamesAssumption DEF WriteLight, Lights
<1>5. RoomTypeOK'
  BY <1>1, <1>3, <1>4 DEF WriteLight, TypeOK, RoomTypeOK, Restores
<1>6. (mode' = mode /\ sleepRestore' = sleepRestore) \/ mode' # "sleep"
  BY <1>3 DEF WriteLight
<1>7. \A i \in 1..Len(<<>>) : Harmless(<<>>[i])
  BY EmptySeq
<1>8. /\ todo' \in [Threads -> Seq(Ops)] /\ OneHolder' /\ StacksOK'
      /\ \A u \in Threads : Pending(u, {"cancelFinish"})' => Pending(u, {"cancelFinish"})
  BY <1>1, <1>7, OrdinaryStep, OrdinarySequences DEF IInv, TypeOK
<1>9. TypeOK' /\ FinishAwake' /\ SleepHasRestore'
  BY <1>5, <1>6, <1>8 DEF IInv, TypeOK, RoomTypeOK, FinishAwake, SleepHasRestore
<1> QED BY <1>8, <1>9 DEF IInv

\* Ordinary calls, and then the operations last.
LEMMA CallsThenLast ==
    ASSUME NEW before \in Seq(OrdinaryOps), NEW last \in Seq(Ops)
    PROVE  LET ops == before \o last
           IN /\ ops \in Seq(Ops) /\ Len(before) \in Nat
              /\ Len(ops) = Len(before) + Len(last)
              /\ \A i \in 1..Len(before) : ops[i] = before[i] /\ before[i] \in OrdinaryOps
              /\ \A i \in 1..Len(last) : ops[Len(before) + i] = last[i]
              /\ \A i \in 1..Len(ops) :
                    i \in 1..Len(before) \/ \E h \in 1..Len(last) : i = Len(before) + h
<1> DEFINE ops == before \o last
<1>1. before \in Seq(Ops) /\ Len(before) \in Nat /\ Len(last) \in Nat
      /\ \A i \in 1..Len(before) : before[i] \in OrdinaryOps
  BY ElementOfSeq, SeqMonotonic, LenProperties, OrdinaryOps \subseteq Ops DEF OrdinaryOps
<1>2. /\ ops \in Seq(Ops)
      /\ Len(ops) = Len(before) + Len(last)
      /\ \A i \in 1..(Len(before) + Len(last)) :
            ops[i] = IF i <= Len(before) THEN before[i] ELSE last[i - Len(before)]
  BY <1>1, ConcatProperties
<1>3. ASSUME NEW i \in 1..Len(last) PROVE ops[Len(before) + i] = last[i]
  <2>1. Len(before) + i \in 1..(Len(before) + Len(last)) /\ ~(Len(before) + i <= Len(before))
        /\ (Len(before) + i) - Len(before) = i
    BY <1>1
  <2> QED BY <2>1, <1>2
<1>4. ASSUME NEW i \in 1..Len(ops), i \notin 1..Len(before)
      PROVE  \E h \in 1..Len(last) : i = Len(before) + h
  <2>1. i - Len(before) \in 1..Len(last) /\ i = Len(before) + (i - Len(before))
    BY <1>1, <1>2, <1>4
  <2> QED BY <2>1
<1>5. \A i \in 1..Len(before) : ops[i] = before[i] /\ before[i] \in OrdinaryOps
  <2>1. ASSUME NEW i \in 1..Len(before)
        PROVE  i \in 1..(Len(before) + Len(last)) /\ i <= Len(before)
    BY <1>1
  <2> QED BY <2>1, <1>1, <1>2
<1>6. \A i \in 1..Len(last) : ops[Len(before) + i] = last[i]
  BY <1>3
<1>7. \A i \in 1..Len(ops) :
         i \in 1..Len(before) \/ \E h \in 1..Len(last) : i = Len(before) + h
  BY <1>4
<1> HIDE DEF ops
<1>8. /\ ops \in Seq(Ops) /\ Len(before) \in Nat
      /\ Len(ops) = Len(before) + Len(last)
      /\ \A i \in 1..Len(before) : ops[i] = before[i] /\ before[i] \in OrdinaryOps
      /\ \A i \in 1..Len(last) : ops[Len(before) + i] = last[i]
      /\ \A i \in 1..Len(ops) :
            i \in 1..Len(before) \/ \E h \in 1..Len(last) : i = Len(before) + h
  BY <1>1, <1>2, <1>5, <1>6, <1>7
<1> QED BY <1>8 DEF ops

\* Entering a command: ordinary calls, the command segment o, and "unlock".
LEMMA EnteringStep ==
    ASSUME IInv, NEW t \in Threads, todo[t] # <<>>, ~Harmless(Top(t)), CommandFree(t),
           NEW before \in Seq(OrdinaryOps), NEW o \in Ops, o.op # "cancelFinish",
           Continue(t, before \o <<o, Plain("unlock")>>),
           RoomTypeOK', mode' = mode, sleepRestore' = sleepRestore
    PROVE  IInv'
<1> DEFINE last == <<o, Plain("unlock")>>
           ops == before \o last
           n == Len(before)
<1>1. last \in Seq(Ops) /\ Len(last) = 2 /\ last[1] = o /\ last[2].op = "unlock"
  BY DEF Plain, Ops, PlainOps
<1> HIDE DEF last
<1>2. /\ ops \in Seq(Ops) /\ n \in Nat /\ Len(ops) = n + 2
      /\ \A i \in 1..n : ops[i] \in OrdinaryOps
      /\ ops[n + 1] = o /\ ops[n + 2].op = "unlock"
      /\ \A i \in 1..Len(ops) : i \in 1..n \/ i = n + 1 \/ i = n + 2
  <2>1. /\ ops \in Seq(Ops) /\ n \in Nat /\ Len(ops) = n + Len(last)
        /\ \A i \in 1..n : ops[i] = before[i] /\ before[i] \in OrdinaryOps
        /\ \A i \in 1..Len(last) : ops[n + i] = last[i]
        /\ \A i \in 1..Len(ops) : i \in 1..n \/ \E h \in 1..Len(last) : i = n + h
    BY <1>1, CallsThenLast
  <2>2. 1..Len(last) = {1, 2}
    BY <1>1
  <2> QED BY <2>1, <2>2, <1>1
<1>3. Continue(t, ops)
  BY DEF last
<1> HIDE DEF ops, n
<1>4. \A i \in 1..Len(ops) : ops[i].op # "cancelFinish"
  BY <1>2 DEF OrdinaryOps, CommandOps
<1>5. ASSUME NEW i \in 1..Len(ops), ops[i].op \in CommandOps
      PROVE  \E j \in (i + 1)..Len(ops) : ops[j].op = "unlock"
  <2>1. i = n + 1
    BY <1>2, <1>5 DEF OrdinaryOps, CommandOps
  <2>2. n + 2 \in (i + 1)..Len(ops)
    BY <1>2, <2>1
  <2> QED BY <1>2, <2>2
<1>6. /\ todo' \in [Threads -> Seq(Ops)] /\ OneHolder' /\ StacksOK'
      /\ \A u \in Threads : Pending(u, {"cancelFinish"})' => Pending(u, {"cancelFinish"})
  <2>1. todo \in [Threads -> Seq(Ops)] /\ OneHolder /\ StacksOK
    BY DEF IInv, TypeOK
  <2> QED BY <2>1, <1>2, <1>3, <1>4, <1>5, StackStep
<1>7. TypeOK' /\ FinishAwake' /\ SleepHasRestore'
  BY <1>6 DEF IInv, TypeOK, RoomTypeOK, FinishAwake, SleepHasRestore
<1> QED BY <1>6, <1>7 DEF IInv

LEMMA EnterSetModePreserves ==
    ASSUME IInv, NEW t \in Threads, EnterSetMode(t)
    PROVE  IInv'
<1> DEFINE o == Top(t)
           first == IF AcknowledgesFirst(o) THEN <<Plain("ack")>> ELSE <<>>
           then == IF o.mode # "sleep" \/ o.why # "work_return" THEN CancelPending ELSE <<>>
           last == <<Apply(o.mode, o.why, o.id), Plain("unlock")>>
<1>1. /\ TypeOK /\ todo[t] # <<>> /\ ~Harmless(o) /\ CommandFree(t)
      /\ o.mode \in Modes /\ o.why \in Reasons /\ o.id \in AllAlarms \cup {"none"}
  BY TopOp, Fields DEF IInv, EnterSetMode
<1>2. RoomTypeOK' /\ mode' = mode /\ sleepRestore' = sleepRestore
  BY <1>1 DEF EnterSetMode, TypeOK, RoomTypeOK, roomVars
<1>3. CASE Continue(t, <<>>)
  BY <1>1, <1>2, <1>3, ReturningStep
<1>4. CASE Continue(t, first \o then \o last)
  <2>1. first \in Seq(OrdinaryOps) /\ then \in Seq(OrdinaryOps)
    BY OrdinaryPlain, OrdinarySequences DEF PlainOps
  <2>2. PICK before \in Seq(OrdinaryOps) : first \o then \o last = before \o last
    BY <2>1, OrdinarySequences
  <2>3. Apply(o.mode, o.why, o.id) \in Ops /\ Apply(o.mode, o.why, o.id).op # "cancelFinish"
    BY <1>1 DEF Apply, Ops
  <2> QED BY <1>1, <1>2, <1>4, <2>2, <2>3, EnteringStep
<1> QED BY <1>3, <1>4 DEF EnterSetMode

LEMMA EnterCancelSleepPreserves ==
    ASSUME IInv, NEW t \in Threads, EnterCancelSleep(t)
    PROVE  IInv'
<1>1. TypeOK /\ todo[t] # <<>> /\ ~Harmless(Top(t)) /\ CommandFree(t)
  BY TopOp DEF IInv, EnterCancelSleep
<1>2. RoomTypeOK' /\ mode' = mode /\ sleepRestore' = sleepRestore
  BY <1>1 DEF EnterCancelSleep, TypeOK, RoomTypeOK, roomVars
<1>3. CancelPending \in Seq(OrdinaryOps) /\ Plain("cancelApply") \in Ops
      /\ Plain("cancelApply").op # "cancelFinish"
  BY OrdinarySequences, PlainOp DEF PlainOps
<1>4. Continue(t, CancelPending \o <<Plain("cancelApply"), Plain("unlock")>>)
  BY DEF EnterCancelSleep
<1> QED BY <1>1, <1>2, <1>3, <1>4, EnteringStep

LEMMA EnterRefreshPreserves ==
    ASSUME IInv, NEW t \in Threads, EnterRefresh(t)
    PROVE  IInv'
<1>1. TypeOK /\ todo[t] # <<>> /\ ~Harmless(Top(t)) /\ CommandFree(t)
  BY TopOp DEF IInv, EnterRefresh
<1>2. RoomTypeOK' /\ mode' = mode /\ sleepRestore' = sleepRestore
  BY <1>1 DEF EnterRefresh, TypeOK, RoomTypeOK, roomVars
<1>3. <<>> \in Seq(OrdinaryOps) /\ Plain("pollResult") \in Ops
      /\ Plain("pollResult").op # "cancelFinish"
  BY OrdinarySequences, PlainOp DEF PlainOps
<1>4. Continue(t, <<>> \o <<Plain("pollResult"), Plain("unlock")>>)
  <2>1. <<Plain("pollResult"), Plain("unlock")>> \in Seq(Ops)
    BY PlainOp DEF PlainOps
  <2>2. <<>> \o <<Plain("pollResult"), Plain("unlock")>> = <<Plain("pollResult"), Plain("unlock")>>
    BY <2>1, ConcatEmptySeq
  <2> QED BY <2>2 DEF EnterRefresh
<1> QED BY <1>1, <1>2, <1>3, <1>4, EnteringStep

\* Nobody is in the middle of cancelling a sleep while a mode is applied.
LEMMA NoneFinishing ==
    ASSUME IInv, NEW t \in Threads, ApplyMode(t), NEW u \in Threads
    PROVE  ~Pending(u, {"cancelFinish"})
<1> SUFFICES ASSUME NEW i \in DOMAIN todo[u], todo[u][i].op = "cancelFinish" PROVE FALSE
  BY DEF Pending
<1>0. TypeOK /\ todo[t] # <<>> /\ Top(t).op = "applyMode" /\ ~Harmless(Top(t))
  BY TopOp DEF IInv, ApplyMode
<1>1. /\ todo[t] \in Seq(Ops) /\ 1 \in DOMAIN todo[t] /\ todo[t][1] = Top(t)
      /\ todo[u] \in Seq(Ops) /\ DOMAIN todo[u] = 1..Len(todo[u]) /\ Len(todo[u]) \in Nat
  BY <1>0, LenProperties, EmptySeq, HeadTailProperties DEF TypeOK, Top
<1>2. HoldsCommand(t) /\ HoldsCommand(u)
  BY <1>0, <1>1 DEF IInv, StacksOK, Guarded, CommandOps, HoldsCommand, Pending
<1>3. u = t
  BY <1>2 DEF IInv, OneHolder
<1>4. i # 1
  BY <1>0, <1>1, <1>3
<1>5. 1 \in 1..(i - 1)
  BY <1>1, <1>4
<1> QED BY <1>0, <1>1, <1>3, <1>5 DEF IInv, StacksOK, Undisturbed

\* The segment of set_mode: the room may fall asleep here.  This thread holds
\* the command lock and has no cancelFinish pending, so nobody has.
LEMMA ApplyModePreserves ==
    ASSUME IInv, NEW t \in Threads, ApplyMode(t)
    PROVE  IInv'
<1> DEFINE o == Top(t)
           ops == ModeFollowUp(o.mode)
<1>1. /\ TypeOK /\ todo[t] # <<>> /\ ~Harmless(o) /\ o.op = "applyMode"
      /\ o.mode \in Modes /\ o.why \in Reasons /\ o.id \in AllAlarms \cup {"none"}
  BY TopOp, Fields DEF IInv, ApplyMode
<1>2. ops \in Seq(OrdinaryOps)
  <2>1. \A type \in Events : <<Emit(type)>> \in Seq(OrdinaryOps)
    BY OrdinaryCalls, OrdinarySequences
  <2>2. <<ModeEvent(o.mode)>> \in Seq(OrdinaryOps)
    BY <2>1 DEF ModeEvent, Events
  <2>3. SetLight("off", "keep") \in Seq(OrdinaryOps)
        /\ \A m \in Scenes : SetLight("on", m) \in Seq(OrdinaryOps)
    BY OrdinarySequences DEF Looks
  <2> QED BY <2>2, <2>3, OrdinarySequences DEF ModeFollowUp
<1>3. Continue(t, ops) /\ mode' = o.mode /\ sleepRestore' = SleepSnapshot(o.mode)
  BY DEF ApplyMode
<1>4. RoomTypeOK'
  <2>1. sleepRestore' \in Restores /\ alarmRestore' \in Restores
    BY <1>1, <1>3 DEF ApplyMode, SleepSnapshot, TypeOK, Restores, Modes
  <2>2. alarm' \in ActiveAlarms
    BY <1>1 DEF ApplyMode, TypeOK, ActiveAlarms, AllAlarms
  <2>3. flags' \in [workDone : BOOLEAN, workCancel : BOOLEAN,
                    eveningDone : BOOLEAN, eveningCancel : BOOLEAN]
    BY <1>1 DEF ApplyMode, TypeOK
  <2>4. workReturn' \in BOOLEAN
    BY DEF ApplyMode
  <2> QED BY <1>1, <2>1, <2>2, <2>3, <2>4 DEF ApplyMode, TypeOK, RoomTypeOK
<1>5. /\ todo' \in [Threads -> Seq(Ops)] /\ OneHolder' /\ StacksOK'
      /\ \A u \in Threads : Pending(u, {"cancelFinish"})' => Pending(u, {"cancelFinish"})
  BY <1>1, <1>2, <1>3, OrdinaryStep DEF IInv, TypeOK
<1>6. \A u \in Threads : ~Pending(u, {"cancelFinish"})
  BY NoneFinishing
<1>7. SleepHasRestore'
  <2>1. sleepRestore' = [mode |-> mode, light |-> light] /\ mode # "sleep"
            => sleepRestore' # NoRestore /\ sleepRestore'.mode # "sleep"
    <3>1. mode # "none"
      BY <1>1, NamesAssumption DEF TypeOK, Modes
    <3> QED BY <3>1 DEF NoRestore
  <2> QED BY <1>3, <2>1 DEF IInv, SleepHasRestore, SleepSnapshot
<1>8. TypeOK' /\ FinishAwake'
  BY <1>4, <1>5, <1>6 DEF TypeOK, RoomTypeOK, FinishAwake
<1> QED BY <1>5, <1>7, <1>8 DEF IInv

LEMMA UnlockPreserves ==
    ASSUME IInv, NEW t \in Threads, Unlock(t)
    PROVE  IInv'
<1>1. TypeOK /\ todo[t] # <<>> /\ Continue(t, <<>>)
  BY TopOp DEF IInv, Unlock
<1>2. RoomTypeOK' /\ mode' = mode /\ sleepRestore' = sleepRestore
  BY <1>1 DEF Unlock, TypeOK, RoomTypeOK, roomVars
<1> QED BY <1>1, <1>2, ReturningStep

\* The light in any snapshot can be given back.
LEMMA RestoredLight == \A saved \in Restores : saved.light \in Lights
<1>1. [on |-> FALSE, look |-> "none"] \in Lights
  BY DEF Lights, Looks
<1>2. NoRestore.light = [on |-> FALSE, look |-> "none"]
  BY DEF NoRestore
<1>3. \A saved \in [mode : Modes, light : Lights] : saved.light \in Lights
  OBVIOUS
<1> QED BY <1>1, <1>2, <1>3 DEF Restores

LEMMA AcknowledgePreserves ==
    ASSUME IInv, NEW t \in Threads, Acknowledge(t)
    PROVE  IInv'
<1>1. TypeOK /\ todo[t] # <<>> /\ ~Harmless(Top(t)) /\ CommandFree(t)
  BY TopOp DEF IInv, Acknowledge
<1>2. CASE alarm = NoAlarm
  <2>1. Continue(t, <<>>) /\ RoomTypeOK' /\ mode' = mode /\ sleepRestore' = sleepRestore
    BY <1>1, <1>2 DEF Acknowledge, TypeOK, RoomTypeOK
  <2> QED BY <1>1, <2>1, ReturningStep
<1>3. CASE alarm # NoAlarm
  <2> DEFINE restoring == IF alarmRestore.mode \in Scenes \cup {"sleep"}
                          THEN <<SetMode(alarmRestore.mode, "alarm_restore", "none")>>
                          ELSE IF alarmRestore.light.on THEN GiveBack(alarmRestore.light)
                          ELSE SetLight("off", "keep")
             last == <<Plain("unlock")>>
             ops == restoring \o last
             n == Len(restoring)
  <2>1. restoring \in Seq(OrdinaryOps)
    <3>1. CASE alarmRestore.mode \in Scenes \cup {"sleep"}
      BY <3>1, OrdinaryCalls, OrdinarySequences DEF Modes, Reasons
    <3>2. CASE alarmRestore.mode \notin Scenes \cup {"sleep"}
      <4>1. alarmRestore.light \in Lights
        BY <1>1, RestoredLight DEF TypeOK
      <4> QED BY <3>2, <4>1, OrdinarySequences
    <3> QED BY <3>1, <3>2
  <2>2. last \in Seq(Ops) /\ Len(last) = 1 /\ last[1].op = "unlock"
    BY PlainOp DEF PlainOps
  <2>3. Continue(t, ops) /\ mode' = "off"
    BY <1>3 DEF Acknowledge
  <2>4. RoomTypeOK'
    BY <1>1, <1>3 DEF Acknowledge, TypeOK, RoomTypeOK, ActiveAlarms, Restores, Modes
  <2> HIDE DEF restoring, last
  <2>5. /\ ops \in Seq(Ops) /\ \A i \in 1..Len(ops) : ops[i].op \notin CommandOps
    <3>1. /\ ops \in Seq(Ops) /\ n \in Nat
          /\ \A i \in 1..n : ops[i] = restoring[i] /\ restoring[i] \in OrdinaryOps
          /\ \A i \in 1..Len(last) : ops[n + i] = last[i]
          /\ \A i \in 1..Len(ops) : i \in 1..n \/ \E h \in 1..Len(last) : i = n + h
      BY <2>1, <2>2, CallsThenLast
    <3>2. 1..Len(last) = {1}
      BY <2>2
    <3>3. \A i \in 1..Len(ops) : i \in 1..n \/ ops[i].op = "unlock"
      BY <3>1, <3>2, <2>2
    <3> QED BY <3>1, <3>3 DEF OrdinaryOps, CommandOps
  <2> HIDE DEF ops
  <2>6. todo' \in [Threads -> Seq(Ops)] /\ OneHolder' /\ StacksOK'
    <3>1. todo \in [Threads -> Seq(Ops)] /\ OneHolder /\ StacksOK
      BY DEF IInv, TypeOK
    <3>2. \A i \in 1..Len(ops) : ops[i].op # "cancelFinish"
      BY <2>5 DEF CommandOps
    <3> QED BY <3>1, <3>2, <1>1, <2>3, <2>5, StackStep
  <2>7. TypeOK' /\ FinishAwake' /\ SleepHasRestore'
    BY <2>3, <2>4, <2>6 DEF TypeOK, RoomTypeOK, FinishAwake, SleepHasRestore
  <2> QED BY <2>6, <2>7 DEF IInv
<1> QED BY <1>2, <1>3

\* The first segment of cancel_sleep leaves a cancelFinish behind, with
\* nothing but harmless operations before it, and the room awake.
LEMMA CancelSleepApplyPreserves ==
    ASSUME IInv, NEW t \in Threads, CancelSleepApply(t)
    PROVE  IInv'
<1> DEFINE first == CASE flags.workDone -> <<Emit("cancelled_work")>>
                      [] ~flags.workDone /\ flags.eveningDone -> <<Emit("cancelled_evening")>>
                      [] OTHER -> <<>>
           then == CASE ~occupied -> SetLight("off", "keep")
                     [] occupied /\ sleepRestore = NoRestore -> SetLight("on", "keep")
                     [] OTHER -> GiveBack(sleepRestore.light)
           last == <<Finish(sleepRestore, occupied)>>
           before == first \o then
           ops == before \o last
           n == Len(before)
<1>1. TypeOK /\ todo[t] # <<>> /\ ~Harmless(Top(t)) /\ Top(t).op \in CommandOps
  BY TopOp DEF IInv, CancelSleepApply, CommandOps
<1>2. Continue(t, ops) /\ mode' = "off"
  BY DEF CancelSleepApply
<1>3. RoomTypeOK'
  BY <1>1 DEF CancelSleepApply, TypeOK, RoomTypeOK, Modes
<1>4. /\ first \in Seq(OrdinaryOps) /\ Len(first) \in {0, 1}
      /\ \A i \in 1..Len(first) : Harmless(first[i])
  <2>1. \A type \in {"cancelled_work", "cancelled_evening"} :
            <<Emit(type)>> \in Seq(OrdinaryOps) /\ Harmless(Emit(type))
    <3>1. \A type \in Events : <<Emit(type)>> \in Seq(OrdinaryOps)
      BY OrdinaryCalls, OrdinarySequences
    <3> QED BY <3>1 DEF Events, Harmless, Emit
  <2>2. CASE first = <<>>
    BY <2>2, OrdinarySequences, EmptySeq
  <2>3. CASE first = <<Emit("cancelled_work")>>
    BY <2>1, <2>3
  <2>4. CASE first = <<Emit("cancelled_evening")>>
    BY <2>1, <2>4
  <2> QED BY <2>2, <2>3, <2>4
<1>5. /\ then \in Seq(OrdinaryOps) /\ Len(then) = 1 /\ Harmless(then[1])
  <2>1. sleepRestore.light \in Lights
    BY <1>1, RestoredLight DEF TypeOK
  <2>2. PICK on \in {"on", "off", "keep"}, look \in Looks \cup {"keep"} : then = SetLight(on, look)
    BY <2>1 DEF GiveBack, Lights
  <2> HIDE DEF then
  <2> QED BY <2>2, OrdinarySequences DEF SetLight, Write, Harmless
<1> HIDE DEF first, then
<1>6. /\ before \in Seq(OrdinaryOps) /\ \A i \in 1..n : Harmless(before[i])
  <2>1. /\ before \in Seq(OrdinaryOps) /\ n = Len(first) + Len(then)
        /\ \A i \in 1..(Len(first) + Len(then)) :
                before[i] = IF i <= Len(first) THEN first[i] ELSE then[i - Len(first)]
    BY <1>4, <1>5, ConcatProperties
  <2> QED BY <2>1, <1>4, <1>5
<1>7. last \in Seq(Ops) /\ Len(last) = 1 /\ last[1].op = "cancelFinish"
  <2>1. Finish(sleepRestore, occupied) \in Ops
    BY <1>1 DEF Finish, Ops, TypeOK
  <2> QED BY <2>1 DEF Finish
<1> HIDE DEF before, last
<1>8. /\ ops \in Seq(Ops) /\ n \in Nat /\ Len(ops) = n + 1
      /\ \A i \in 1..n : Harmless(ops[i]) /\ ops[i] \in OrdinaryOps
      /\ ops[n + 1].op = "cancelFinish"
      /\ \A i \in 1..Len(ops) : i \in 1..n \/ i = n + 1
  <2>1. /\ ops \in Seq(Ops) /\ n \in Nat /\ Len(ops) = n + Len(last)
        /\ \A i \in 1..n : ops[i] = before[i] /\ before[i] \in OrdinaryOps
        /\ \A i \in 1..Len(last) : ops[n + i] = last[i]
        /\ \A i \in 1..Len(ops) : i \in 1..n \/ \E h \in 1..Len(last) : i = n + h
    BY <1>6, <1>7, CallsThenLast
  <2>2. 1..Len(last) = {1}
    BY <1>7
  <2> QED BY <2>1, <2>2, <1>6, <1>7
<1> HIDE DEF ops, n
<1>9. todo' \in [Threads -> Seq(Ops)] /\ OneHolder' /\ StacksOK'
  <2>1. todo \in [Threads -> Seq(Ops)] /\ OneHolder /\ StacksOK
    BY DEF IInv, TypeOK
  <2>2. \A i \in 1..Len(ops) : ops[i].op # "unlock"
    BY <1>8 DEF OrdinaryOps
  <2>3. \A i \in 1..Len(ops) : \A j \in 1..(i - 1) : Harmless(ops[j])
    BY <1>8
  <2> QED BY <1>1, <1>2, <1>8, <2>1, <2>2, <2>3, StackStep
<1>10. TypeOK' /\ FinishAwake' /\ SleepHasRestore'
  BY <1>2, <1>3, <1>9 DEF TypeOK, RoomTypeOK, FinishAwake, SleepHasRestore
<1> QED BY <1>9, <1>10 DEF IInv

\* The last segment of cancel_sleep drops the snapshot: the room is awake.
LEMMA CancelSleepFinishPreserves ==
    ASSUME IInv, NEW t \in Threads, CancelSleepFinish(t)
    PROVE  IInv' /\ mode # "sleep" /\ mode' # "sleep"
<1>1. /\ TypeOK /\ todo[t] # <<>> /\ Continue(t, <<>>) /\ Top(t).op = "cancelFinish"
      /\ Top(t).restore \in Restores /\ ~Harmless(Top(t))
  BY TopOp, Fields DEF IInv, CancelSleepFinish
<1>2. mode # "sleep"
  <2>1. todo[t] \in Seq(Ops)
    BY <1>1 DEF TypeOK
  <2>2. 1 \in DOMAIN todo[t] /\ todo[t][1] = Top(t)
    BY <1>1, <2>1, LenProperties, EmptySeq DEF Top
  <2> QED BY <1>1, <2>2 DEF IInv, FinishAwake, Pending
<1>3. mode' # "sleep" /\ mode' \in Modes
  BY <1>1, <1>2, NamesAssumption DEF CancelSleepFinish, GivenBackMode, TypeOK, Modes
<1>4. RoomTypeOK'
  BY <1>1, <1>3 DEF CancelSleepFinish, TypeOK, RoomTypeOK, Restores
<1>5. \A i \in 1..Len(<<>>) : Harmless(<<>>[i])
  BY EmptySeq
<1>6. todo' \in [Threads -> Seq(Ops)] /\ OneHolder' /\ StacksOK'
  BY <1>1, <1>5, OrdinaryStep, OrdinarySequences DEF IInv, TypeOK
<1>7. TypeOK' /\ FinishAwake' /\ SleepHasRestore'
  BY <1>3, <1>4, <1>6 DEF TypeOK, RoomTypeOK, FinishAwake, SleepHasRestore
<1> QED BY <1>2, <1>3, <1>6, <1>7 DEF IInv

LEMMA CommandPreserves ==
    ASSUME IInv, NEW t \in Threads, CommandStep(t)
    PROVE  IInv'
BY EnterSetModePreserves, ApplyModePreserves, UnlockPreserves, AcknowledgePreserves,
   EnterCancelSleepPreserves, CancelSleepApplyPreserves, CancelSleepFinishPreserves,
   EnterRefreshPreserves DEF CommandStep

LEMMA OtherPreserves ==
    ASSUME IInv, NEW t \in Threads, OtherStep(t)
    PROVE  IInv'
<1> USE DEF roomVars
<1>0. TypeOK /\ RoomTypeOK
  BY DEF IInv, TypeOK, RoomTypeOK
<1>1. CASE EmitEvent(t)
  BY <1>1, EmitPreserves
<1>2. CASE WriteLight(t)
  BY <1>2, WriteLightPreserves
<1>3. CASE TurnOn(t)
  <2> DEFINE ops == SetLight("on", IF mode \in Scenes THEN mode ELSE "keep")
  <2>1. ops \in Seq(OrdinaryOps)
    BY OrdinarySequences DEF Looks
  <2>2. todo[t] # <<>> /\ ~Harmless(Top(t))
    BY <1>0, <1>3, TopOp DEF TurnOn
  <2>3. Continue(t, ops) /\ RoomTypeOK' /\ mode' = mode /\ sleepRestore' = sleepRestore
    BY <1>0, <1>3 DEF TurnOn, RoomTypeOK
  <2> QED BY <2>1, <2>2, <2>3, CallingStep
<1>4. CASE ChangeFlags(t)
  <2>1. flags' \in [workDone : BOOLEAN, workCancel : BOOLEAN,
                    eveningDone : BOOLEAN, eveningCancel : BOOLEAN]
    BY <1>0, <1>4 DEF ChangeFlags, NoFlags, RoomTypeOK
  <2>2. /\ Continue(t, <<>>) /\ RoomTypeOK' /\ mode' = mode
        /\ sleepRestore' = sleepRestore /\ todo[t] # <<>>
    BY <1>0, <1>4, <2>1 DEF ChangeFlags, At, RoomTypeOK
  <2> QED BY <2>2, ReturningStep
<1>5. CASE BeginOverride(t)
  <2>1. /\ todo[t] # <<>> /\ ~Harmless(Top(t)) /\ Top(t).to \in Overrides
    BY <1>0, <1>5, TopOp, Fields DEF BeginOverride
  <2>2. <<OverrideEnd(Top(t).to)>> \in Seq(OrdinaryOps)
    BY <2>1, OrdinaryCalls, OrdinarySequences
  <2>3. (IF Top(t).to # "none" THEN CancelPending ELSE <<>>) \in Seq(OrdinaryOps)
    BY OrdinarySequences
  <2>4. PICK ops \in Seq(OrdinaryOps) : Continue(t, ops)
    BY <1>5, <2>2, <2>3, OrdinarySequences DEF BeginOverride
  <2>5. RoomTypeOK' /\ mode' = mode /\ sleepRestore' = sleepRestore
    BY <1>0, <1>5 DEF BeginOverride, RoomTypeOK
  <2> QED BY <2>1, <2>4, <2>5, CallingStep
<1>6. CASE EndOverride(t)
  <2>1. todo[t] # <<>> /\ Top(t).to \in Overrides
    BY <1>0, <1>6, TopOp, Fields DEF EndOverride
  <2>2. Continue(t, <<>>) /\ RoomTypeOK' /\ mode' = mode /\ sleepRestore' = sleepRestore
    BY <1>0, <1>6, <2>1 DEF EndOverride, RoomTypeOK
  <2> QED BY <2>1, <2>2, ReturningStep
<1>7. CASE BeginLeave(t)
  <2>1. todo[t] # <<>> /\ ~Harmless(Top(t))
    BY <1>0, <1>7, TopOp DEF BeginLeave
  <2>2. CancelPending \o <<Plain("leaveEnd")>> \in Seq(OrdinaryOps)
    BY OrdinaryPlain, OrdinarySequences DEF PlainOps
  <2>3. PICK ops \in Seq(OrdinaryOps) : Continue(t, ops)
    BY <1>7, <2>2, OrdinarySequences DEF BeginLeave
  <2>4. RoomTypeOK' /\ mode' = mode /\ sleepRestore' = sleepRestore
    BY <1>0, <1>7 DEF BeginLeave, RoomTypeOK
  <2> QED BY <2>1, <2>3, <2>4, CallingStep
<1>8. CASE EndLeave(t) \/ Arrive(t) \/ BleReport(t) \/ PollResult(t)
  <2>1. todo[t] # <<>> /\ ~Harmless(Top(t))
    <3>1. CASE EndLeave(t)
      BY <1>0, <3>1, TopOp DEF EndLeave
    <3>2. CASE Arrive(t)
      BY <1>0, <3>2, TopOp DEF Arrive
    <3>3. CASE BleReport(t)
      BY <1>0, <3>3, TopOp DEF BleReport
    <3>4. CASE PollResult(t)
      BY <1>0, <3>4, TopOp DEF PollResult
    <3> QED BY <1>8, <3>1, <3>2, <3>3, <3>4
  <2>2. /\ <<Emit("presence_cleared")>> \in Seq(OrdinaryOps)
        /\ <<Emit("presence_detected")>> \in Seq(OrdinaryOps)
        /\ <<Emit("arrive_home")>> \in Seq(OrdinaryOps)
        /\ \A now \in BOOLEAN : Announcements(now) \subseteq Seq(OrdinaryOps)
        /\ <<Emit("presence_detected"), Emit("arrive_home")>> \in Seq(OrdinaryOps)
    BY OrdinaryCalls, OrdinarySequences DEF Events, Announcements
  <2> DEFINE called == \E ops \in Seq(OrdinaryOps) : Continue(t, ops)
  <2>a. ASSUME EndLeave(t) PROVE called
    BY <2>a, <2>2 DEF EndLeave
  <2>b. ASSUME Arrive(t) PROVE called
    BY <2>b, <2>2, OrdinarySequences DEF Arrive
  <2>c. ASSUME BleReport(t) PROVE called
    BY <1>0, <2>c, <2>2 DEF BleReport, Sensed, RoomTypeOK
  <2>d. ASSUME PollResult(t) PROVE called
    BY <1>0, <2>d, <2>2 DEF PollResult, Sensed, RoomTypeOK
  <2>3. PICK ops \in Seq(OrdinaryOps) : Continue(t, ops)
    BY <1>8, <2>a, <2>b, <2>c, <2>d
  <2>4. light' \in Lights
    <3>1. \A on \in BOOLEAN : [light EXCEPT !.on = on] \in Lights
      BY <1>0 DEF RoomTypeOK, Lights
    <3> QED BY <1>0, <1>8, <3>1 DEF EndLeave, Arrive, BleReport, PollResult, RoomTypeOK
  <2>5. RoomTypeOK' /\ mode' = mode /\ sleepRestore' = sleepRestore
    BY <1>0, <1>8, <2>4 DEF EndLeave, Arrive, BleReport, PollResult, Sensed, RoomTypeOK
  <2> QED BY <2>1, <2>3, <2>5, CallingStep
<1>9. CASE FireDueAlarm(t)
  <2>1. todo[t] # <<>> /\ ~Harmless(Top(t)) /\ Top(t).ids \in SUBSET AlarmIds
    BY <1>0, <1>9, TopOp, Fields DEF FireDueAlarm
  <2>2. \A a \in Top(t).ids : EmitAlarm("schedule_alarm", a) \in OrdinaryOps
                              /\ DueAlarms(Top(t).ids \ {a}) \in OrdinaryOps
    BY <2>1, OrdinaryCalls DEF Events, AllAlarms
  <2>3. PICK ops \in Seq(OrdinaryOps) : Continue(t, ops)
    BY <1>9, <2>2, OrdinarySequences DEF FireDueAlarm
  <2>4. RoomTypeOK' /\ mode' = mode /\ sleepRestore' = sleepRestore
    BY <1>0, <1>9 DEF FireDueAlarm, RoomTypeOK
  <2> QED BY <2>1, <2>3, <2>4, CallingStep
<1>10. CASE ResumeAlarm(t)
  <2>1. todo[t] # <<>> /\ ~Harmless(Top(t))
    BY <1>0, <1>10, TopOp DEF ResumeAlarm
  <2>2. alarm # NoAlarm => alarm.id \in AllAlarms
    BY <1>0 DEF RoomTypeOK, ActiveAlarms
  <2>3. PICK ops \in Seq(OrdinaryOps) : Continue(t, ops)
    BY <1>10, <2>2, OrdinaryCalls, OrdinarySequences DEF ResumeAlarm
  <2>4. RoomTypeOK' /\ mode' = mode /\ sleepRestore' = sleepRestore
    BY <1>0, <1>10 DEF ResumeAlarm, RoomTypeOK
  <2> QED BY <2>1, <2>3, <2>4, CallingStep
<1>11. CASE ResumePending(t)
  <2>1. todo[t] # <<>> /\ ~Harmless(Top(t))
    BY <1>0, <1>11, TopOp DEF ResumePending
  <2>2. <<Plain("clearPending"), SetMode("sleep", "work_return", "none")>> \in Seq(OrdinaryOps)
    BY OrdinaryPlain, OrdinaryCalls, OrdinarySequences DEF PlainOps, Modes, Reasons
  <2>3. PICK ops \in Seq(OrdinaryOps) : Continue(t, ops)
    BY <1>11, <2>2, OrdinarySequences DEF ResumePending
  <2>4. RoomTypeOK' /\ mode' = mode /\ sleepRestore' = sleepRestore
    BY <1>0, <1>11 DEF ResumePending, RoomTypeOK
  <2> QED BY <2>1, <2>3, <2>4, CallingStep
<1>12. ASSUME NEW reached \in {"nothing", "flash_until", "expires_at"}, CheckActive(t, reached)
       PROVE  IInv'
  <2>1. todo[t] # <<>> /\ ~Harmless(Top(t))
    BY <1>0, <1>12, TopOp DEF CheckActive
  <2>2. /\ <<Emit("alarm_duration_expired")>> \in Seq(OrdinaryOps)
        /\ <<Emit("alarm_flash_finished")>> \in Seq(OrdinaryOps)
    BY OrdinaryCalls, OrdinarySequences DEF Events
  <2>3. PICK ops \in Seq(OrdinaryOps) : Continue(t, ops)
    BY <1>12, <2>2, OrdinarySequences DEF CheckActive
  <2>4. RoomTypeOK' /\ mode' = mode /\ sleepRestore' = sleepRestore
    BY <1>0, <1>12 DEF CheckActive, RoomTypeOK
  <2> QED BY <2>1, <2>3, <2>4, CallingStep
<1>13. CASE ForceAlarmMode(t)
  <2>1. todo[t] # <<>> /\ ~Harmless(Top(t))
    BY <1>0, <1>13, TopOp DEF ForceAlarmMode
  <2>2. <<Plain("ack")>> \in Seq(OrdinaryOps) /\ SetLight("on", "bright") \in Seq(OrdinaryOps)
    BY OrdinaryPlain, OrdinarySequences DEF PlainOps, Looks
  <2>3. PICK ops \in Seq(OrdinaryOps) : Continue(t, ops)
    BY <1>13, <2>2 DEF ForceAlarmMode
  <2>4. RoomTypeOK'
    BY <1>0, <1>13 DEF ForceAlarmMode, RoomTypeOK, ActiveAlarms, NoAlarm, Modes
  <2>5. todo' \in [Threads -> Seq(Ops)] /\ OneHolder' /\ StacksOK'
    BY <2>1, <2>3, OrdinaryStep DEF IInv, TypeOK
  <2>6. TypeOK' /\ FinishAwake' /\ SleepHasRestore'
    BY <1>13, <2>4, <2>5
    DEF ForceAlarmMode, TypeOK, RoomTypeOK, FinishAwake, SleepHasRestore
  <2> QED BY <2>5, <2>6 DEF IInv
<1> QED BY <1>1, <1>2, <1>3, <1>4, <1>5, <1>6, <1>7, <1>8, <1>9, <1>10, <1>11, <1>12, <1>13
        DEF OtherStep

\* A timer fires, or an external event starts a handler, on an idle thread.
LEMMA TimerPreserves ==
    ASSUME IInv, NEW tm \in ModeTimers, FireTimer(tm)
    PROVE  IInv'
<1>1. tm \in Threads
  BY DEF Threads
<1>2. <<Plain("dropRef"), Plain("clearPending"),
        SetMode("sleep", "work_return", "none")>> \in Seq(OrdinaryOps)
  BY OrdinaryPlain, OrdinaryCalls DEF PlainOps, Modes, Reasons
<1>3. RoomTypeOK' /\ mode' = mode /\ sleepRestore' = sleepRestore
  BY DEF FireTimer, IInv, TypeOK, RoomTypeOK, roomVars
<1> QED BY <1>1, <1>2, <1>3, ReplacingStep DEF FireTimer

LEMMA ExternalPreserves ==
    ASSUME IInv, External
    PROVE  IInv'
<1> USE DEF roomVars
<1>0. TypeOK /\ RoomTypeOK
  BY DEF IInv, TypeOK, RoomTypeOK
<1>1. ASSUME NEW t \in Threads, NEW kind, NEW ops \in Seq(OrdinaryOps),
             Begin(t, kind, ops), RoomTypeOK', mode' = mode, sleepRestore' = sleepRestore
      PROVE  IInv'
  BY <1>1, ReplacingStep DEF Begin
<1>2. ASSUME NEW t \in Rpc, RpcRequest(t) PROVE IInv'
  <2>1. t \in Threads /\ RoomTypeOK' /\ mode' = mode /\ sleepRestore' = sleepRestore
    BY <1>0, <1>2 DEF RpcRequest, RoomTypeOK, Threads
  <2>2. /\ \A m \in Modes : <<SetMode(m, "manual", "none")>> \in Seq(OrdinaryOps)
        /\ \A m \in Scenes \cup {"off", "sleep", "alarm"} : m \in Modes
        /\ \A v \in Overrides : <<Override(v)>> \in Seq(OrdinaryOps)
    BY OrdinaryCalls, OrdinarySequences DEF Modes, Reasons
  <2>3. \A on \in {"on", "off", "keep"}, look \in {"user", "keep"} :
            ManualLight(on, look) \in Seq(OrdinaryOps)
    BY OrdinarySequences DEF Looks
  <2>4. \A name \in {"cancelSleep", "ack", "refresh", "leave", "arrive"} :
            <<Plain(name)>> \in Seq(OrdinaryOps)
    BY OrdinaryPlain, OrdinarySequences DEF PlainOps
  <2>5. PICK kind \in Requests, ops \in Seq(OrdinaryOps) : Begin(t, kind, ops)
    BY <1>2, <2>2, <2>3, <2>4 DEF RpcRequest, Begin
  <2> QED BY <1>1, <2>1, <2>5
<1>3. ASSUME NEW t \in Rpc, NEW a \in AlarmIds, UpsertAlarm(t, a) PROVE IInv'
  <2>1. t \in Threads /\ RoomTypeOK' /\ mode' = mode /\ sleepRestore' = sleepRestore
    BY <1>0, <1>3 DEF UpsertAlarm, RoomTypeOK, Threads
  <2>2. Begin(t, "alarms", <<>>) /\ <<>> \in Seq(OrdinaryOps)
    BY <1>3, OrdinarySequences DEF UpsertAlarm
  <2> QED BY <1>1, <2>1, <2>2
<1>4. ASSUME NEW t \in Rpc, NEW a \in AlarmIds, DeleteAlarm(t, a) PROVE IInv'
  <2>1. t \in Threads /\ RoomTypeOK' /\ mode' = mode /\ sleepRestore' = sleepRestore
    BY <1>0, <1>4 DEF DeleteAlarm, RoomTypeOK, Threads
  <2>2. (IF alarm.id = a THEN <<Plain("ack")>> ELSE <<>>) \in Seq(OrdinaryOps)
    BY OrdinaryPlain, OrdinarySequences DEF PlainOps
  <2>3. Begin(t, "alarms", IF alarm.id = a THEN <<Plain("ack")>> ELSE <<>>)
    BY <1>4 DEF DeleteAlarm
  <2> QED BY <1>1, <2>1, <2>2, <2>3
<1>5. CASE MqttMessage
  <2>1. "mqtt" \in Threads /\ RoomTypeOK' /\ mode' = mode /\ sleepRestore' = sleepRestore
    BY <1>0, <1>5 DEF MqttMessage, RoomTypeOK, Threads
  <2>2. /\ \A on \in {"on", "off"} : SetLight(on, "keep") \in Seq(OrdinaryOps)
        /\ \A m \in Modes : <<SetMode(m, "command", "none")>> \in Seq(OrdinaryOps)
        /\ \A name \in {"presence", "arrive", "leave"} : <<Plain(name)>> \in Seq(OrdinaryOps)
    BY OrdinaryCalls, OrdinaryPlain, OrdinarySequences DEF Reasons, PlainOps
  <2>3. PICK kind \in Requests, ops \in Seq(OrdinaryOps) : Begin("mqtt", kind, ops)
    BY <1>5, <2>2 DEF MqttMessage, Begin
  <2> QED BY <1>1, <2>1, <2>3
<1>6. CASE Poll
  <2>1. "poll" \in Threads /\ RoomTypeOK' /\ mode' = mode /\ sleepRestore' = sleepRestore
    BY <1>0, <1>6 DEF Poll, RoomTypeOK, Threads
  <2>2. <<Plain("pollResult")>> \in Seq(OrdinaryOps)
    BY OrdinaryPlain, OrdinarySequences DEF PlainOps
  <2>3. Begin("poll", "poll", <<Plain("pollResult")>>)
    BY <1>6 DEF Poll
  <2> QED BY <1>1, <2>1, <2>2, <2>3
<1>7. CASE SchedulerPass
  <2>1. "scheduler" \in Threads /\ RoomTypeOK' /\ mode' = mode /\ sleepRestore' = sleepRestore
    BY <1>0, <1>7 DEF SchedulerPass, RoomTypeOK, Threads
  <2>2. PICK due \in SUBSET AlarmIds,
             daily \in {<<>>, <<Emit("schedule_evening_sleep")>>,
                        <<Emit("schedule_daily_reset")>>} :
                Begin("scheduler", "scheduler",
                      <<DueAlarms(due)>> \o daily \o <<Plain("checkActive")>>)
    BY <1>7 DEF SchedulerPass
  <2>3. /\ <<DueAlarms(due)>> \in Seq(OrdinaryOps) /\ daily \in Seq(OrdinaryOps)
        /\ <<Plain("checkActive")>> \in Seq(OrdinaryOps)
    BY OrdinaryCalls, OrdinaryPlain, OrdinarySequences DEF Events, PlainOps
  <2>4. <<DueAlarms(due)>> \o daily \o <<Plain("checkActive")>> \in Seq(OrdinaryOps)
    BY <2>3, OrdinarySequences
  <2> QED BY <1>1, <2>1, <2>2, <2>4
<1>8. CASE Restart
  <2> DEFINE boot == <<Plain("resumeAlarm"), Plain("resumePending")>>
  <2>1. boot \in Seq(OrdinaryOps) /\ <<>> \in Seq(OrdinaryOps)
    BY OrdinaryPlain, OrdinarySequences DEF PlainOps
  <2>2. /\ boot \in Seq(Ops) /\ <<>> \in Seq(Ops)
        /\ DOMAIN boot = {1, 2} /\ DOMAIN <<>> = {}
        /\ boot[1].op = "resumeAlarm" /\ boot[2].op = "resumePending"
    BY PlainOp DEF PlainOps
  <2> HIDE DEF boot
  <2>3. \A u \in Threads : todo'[u] = boot \/ todo'[u] = <<>>
    BY <1>8 DEF Restart, boot
  <2>4. todo' \in [Threads -> Seq(Ops)]
    BY <1>8, <2>2 DEF Restart, boot
  <2>5. \A u \in Threads : \A i \in DOMAIN todo'[u] :
            todo'[u][i].op \notin CommandOps \cup {"unlock"}
    BY <2>2, <2>3 DEF CommandOps
  <2>6. OneHolder' /\ StacksOK'
    BY <2>5 DEF OneHolder, StacksOK, Guarded, Undisturbed, HoldsCommand, Pending, CommandOps
  <2>7. mode' \in Modes /\ mode' # "sleep"
    BY <1>0, <1>8, NamesAssumption DEF Restart, RestoredMode, RoomTypeOK, Modes
  <2>8. RoomTypeOK'
    BY <1>0, <1>8, <2>7 DEF Restart, RoomTypeOK, Restores
  <2>9. TypeOK' /\ FinishAwake' /\ SleepHasRestore'
    BY <2>4, <2>7, <2>8 DEF TypeOK, RoomTypeOK, FinishAwake, SleepHasRestore
  <2> QED BY <2>6, <2>9 DEF IInv
<1> QED BY <1>2, <1>3, <1>4, <1>5, <1>6, <1>7, <1>8 DEF External

-----------------------------------------------------------------------------
(* The theorems *)

LEMMA InitEstablishes == Init => IInv
<1> SUFFICES ASSUME Init PROVE IInv
  OBVIOUS
<1> USE DEF Init
<1>1. TypeOK
  <2>1. light \in Lights
    BY DEF Lights, Looks
  <2>2. todo \in [Threads -> Seq(Ops)]
    OBVIOUS
  <2> QED BY <2>1, <2>2 DEF TypeOK, Modes, Overrides, Restores, ActiveAlarms, NoFlags
<1>2. OneHolder /\ StacksOK /\ FinishAwake /\ SleepHasRestore
  BY EmptySeq DEF OneHolder, StacksOK, FinishAwake, SleepHasRestore, Guarded, Undisturbed,
        HoldsCommand, Pending
<1> QED BY <1>1, <1>2 DEF IInv

LEMMA StepPreserves == IInv /\ [Next]_vars => IInv'
<1> SUFFICES ASSUME IInv, [Next]_vars PROVE IInv'
  OBVIOUS
<1>1. ASSUME NEW t \in Threads, Step(t) PROVE IInv'
  BY <1>1, PendingModePreserves, CommandPreserves, OtherPreserves DEF Step
<1>2. ASSUME NEW tm \in ModeTimers, FireTimer(tm) PROVE IInv'
  BY <1>2, TimerPreserves
<1>3. CASE External
  BY <1>3, ExternalPreserves
<1>4. CASE UNCHANGED vars
  BY <1>4 DEF vars, roomVars, IInv, TypeOK, OneHolder, StacksOK, FinishAwake, SleepHasRestore,
        Guarded, Undisturbed, HoldsCommand, Pending
<1> QED BY <1>1, <1>2, <1>3, <1>4 DEF Next

\* Every reachable state has the inductive invariant.
THEOREM Invariance == Spec => []IInv
BY InitEstablishes, StepPreserves, PTL DEF Spec

\* The state, the timers and what the threads have still to execute keep their
\* types, for every number of threads, timers, scenes and alarms.
THEOREM TypeCorrect == Spec => []TypeOK
<1>1. IInv => TypeOK
  BY DEF IInv
<1> QED BY Invariance, <1>1, PTL

\* set_mode, cancel_sleep, set_light, alarms, timers and restarts, in any
\* interleaving of any number of threads, leave a sleeping room with the
\* snapshot to give it back from, and the snapshot is not of sleep itself.
THEOREM SleepIsRestorable == Spec => []SleepHasRestore
<1>1. IInv => SleepHasRestore
  BY DEF IInv
<1> QED BY Invariance, <1>1, PTL

\* What a step may do to the mode and the snapshot, but for the segment of
\* set_mode: leave both alone, or end outside sleep with at most a loss of the
\* snapshot.
LEMMA ModeAndSnapshot ==
    ASSUME IInv, Next, \A t \in Threads : ~ApplyMode(t)
    PROVE  \/ mode' = mode /\ sleepRestore' = sleepRestore
           \/ mode' # "sleep" /\ sleepRestore' \in {sleepRestore, NoRestore}
<1> USE DEF roomVars
<1>1. ASSUME NEW t \in Threads, PendingModeStep(t)
      PROVE  mode' = mode /\ sleepRestore' = sleepRestore
  BY <1>1 DEF PendingModeStep, CancelTimer, DropRef, ClearPending, SetPending, MakeTimer, StartTimer
<1>2. RestoredMode # "sleep"
  BY NamesAssumption DEF RestoredMode
<1>3. ASSUME NEW t \in Threads, CommandStep(t)
      PROVE  \/ mode' = mode /\ sleepRestore' = sleepRestore
             \/ mode' # "sleep" /\ sleepRestore' \in {sleepRestore, NoRestore}
  <2>1. CASE EnterSetMode(t) \/ Unlock(t) \/ EnterCancelSleep(t) \/ EnterRefresh(t)
    BY <2>1 DEF EnterSetMode, Unlock, EnterCancelSleep, EnterRefresh
  <2>2. CASE Acknowledge(t)
    BY <2>2 DEF Acknowledge
  <2>3. CASE CancelSleepApply(t)
    BY <2>3 DEF CancelSleepApply
  <2>4. CASE CancelSleepFinish(t)
    <3>1. mode' # "sleep"
      BY <2>4, CancelSleepFinishPreserves
    <3> QED BY <3>1, <2>4 DEF CancelSleepFinish
  <2> QED BY <1>3, <2>1, <2>2, <2>3, <2>4 DEF CommandStep
<1>4. ASSUME NEW t \in Threads, OtherStep(t)
      PROVE  \/ mode' = mode /\ sleepRestore' = sleepRestore
             \/ mode' # "sleep" /\ sleepRestore' \in {sleepRestore, NoRestore}
  <2>1. CASE WriteLight(t)
    BY <2>1, <1>2 DEF WriteLight
  <2>2. CASE ForceAlarmMode(t)
    BY <2>2 DEF ForceAlarmMode
  <2> QED BY <1>4, <2>1, <2>2 DEF OtherStep, EmitEvent, TurnOn, ChangeFlags, BeginOverride,
        EndOverride, BeginLeave, EndLeave, Arrive, BleReport, PollResult, FireDueAlarm, ResumeAlarm,
        ResumePending, CheckActive
<1>5. ASSUME NEW tm \in ModeTimers, FireTimer(tm)
      PROVE  mode' = mode /\ sleepRestore' = sleepRestore
  BY <1>5 DEF FireTimer
<1>6. CASE External
  <2>1. CASE Restart
    BY <2>1, <1>2 DEF Restart
  <2> QED BY <1>6, <2>1 DEF External, RpcRequest, UpsertAlarm, DeleteAlarm, MqttMessage,
        Poll, SchedulerPass
<1> QED BY <1>1, <1>3, <1>4, <1>5, <1>6 DEF Next, Step

LEMMA SessionStep == IInv /\ [Next]_vars => [Session!Next]_(Session!vars)
<1> SUFFICES ASSUME IInv, [Next]_vars PROVE [Session!Next]_(Session!vars)
  OBVIOUS
<1> USE DEF Session!Next, Session!vars, Session!Enter, Session!Sleep, Session!Awake
<1>1. CASE UNCHANGED vars
  BY <1>1 DEF vars, roomVars
<1>2. mode \in Modes /\ mode' \in Modes /\ light' \in Lights
  BY StepPreserves DEF IInv, TypeOK
<1>3. CASE Next /\ \A t \in Threads : ~ApplyMode(t)
  BY <1>2, <1>3, ModeAndSnapshot
<1>4. ASSUME NEW t \in Threads, ApplyMode(t) PROVE Session!Next
  <2>1. /\ mode' = Top(t).mode /\ sleepRestore' = SleepSnapshot(mode') /\ light' = light
    BY <1>4 DEF ApplyMode
  <2>2. CASE mode' # "sleep"
    BY <1>2, <2>1, <2>2 DEF SleepSnapshot
  <2>3. CASE mode' = "sleep" /\ mode # "sleep"
    BY <2>1, <2>3 DEF SleepSnapshot
  <2>4. CASE mode' = "sleep" /\ mode = "sleep"
    BY <1>2, <2>1, <2>4 DEF SleepSnapshot
  <2> QED BY <2>2, <2>3, <2>4
<1> QED BY <1>1, <1>3, <1>4

\* RoomControl implements SleepSession: falling asleep takes one snapshot of
\* the mode and light of that moment, nothing touches it while the room
\* sleeps, and outside sleep it can only be forgotten.
THEOREM SleepRefinement == Spec => ImplementsSleepSession
<1>1. Init => Session!Init
  BY InitEstablishes DEF Init, Session!Init, IInv, TypeOK
<1> QED BY <1>1, Invariance, SessionStep, PTL DEF Spec, ImplementsSleepSession, Session!Spec

-----------------------------------------------------------------------------
(* The order on the stacks *)

\* Operations that lead to no new alarm, timer or scheduled mode change: what
\* a mode change other than to "alarm" consists of.
Calm(q) ==
    \/ q.op \in {"ack", "cancelTimer", "dropRef", "clearPending", "unlock", "write"}
    \/ q.op \in {"setMode", "applyMode"} /\ q.mode # "alarm"
    \/ q.op = "emit" /\ q.type \in {"mode_sleep", "mode_other"}

\* The same and what start() does first.
Starting(q) == Calm(q) \/ q.op \in {"resumeAlarm", "forceAlarm"}

\* A mode change that must find no alarm: its acknowledgement comes first.
IsChange(p) ==
    \/ p.op = "applyMode" /\ p.mode # "alarm"
    \/ p.op = "setMode" /\ p.why = "alarm_restore"

Evening(q) ==
    \/ q.op \in {"setMode", "applyMode"} /\ q.why = "evening"
    \/ q.op = "emit" /\ q.type = "schedule_evening_sleep"
Cancels(q) == q.op \in {"cancelSleep", "cancelApply", "cancelFinish"}
Forces(q)  == q.op \in {"resumeAlarm", "forceAlarm"}

\* q may stand above p in a stack.
Over(q, p) ==
    /\ p.op = "clearPending" \/ IsChange(p) => Calm(q)
    /\ p.op = "makeTimer" => q.op \in {"cancelTimer", "dropRef", "setPending"}
    /\ p.op \in StateLockEnds => q.op \in {"cancelTimer", "dropRef", "clearPending"}
    /\ p.op = "resumePending" => Starting(q)
    /\ Evening(p) => ~Evening(q)

Orderly(s) == \A i \in DOMAIN s : \A j \in 1..(i - 1) : Over(s[j], s[i])

\* Below its i-th operation the stack s has one of the operations names.
Below(s, i, names) == \E j \in DOMAIN s : j > i /\ s[j].op \in names

\* What an operation relies on to come after it.
Complete(s) ==
    \A i \in DOMAIN s :
        /\ s[i].op \in {"cancelTimer", "dropRef"} => Below(s, i, {"clearPending", "makeTimer"})
        /\ s[i].op = "setPending" => Below(s, i, {"makeTimer"})
        /\ s[i].op = "setMode" /\ s[i].why = "alarm_restore" => Below(s, i, {"unlock"})

\* q may be among the operations that o calls.
Calls(o, q) ==
    /\ Calm(o) => Calm(q)
    /\ Starting(o) => Starting(q)
    /\ IsChange(q) => o.op \in {"setMode", "ack"}
    /\ Evening(q) => Evening(o) /\ o.op # "applyMode"
    /\ Cancels(q) => Cancels(o)
    /\ q.op = "cancelFinish" => o.op = "cancelApply" /\ q.restore = sleepRestore
    /\ Forces(q) => Forces(o)
Callable(o) == {q \in Ops : Calls(o, q)}

MayCall(o, ops) ==
    /\ ops \in Seq(Callable(o))
    /\ Orderly(ops) /\ Complete(ops)
    /\ o.op \in {"cancelTimer", "dropRef", "clearPending", "setPending"} => ops = <<>>

\* Operations anything may stand above and that rely on nothing.
Simple(q) ==
    /\ q.op \notin {"clearPending", "makeTimer", "resumePending", "cancelTimer", "dropRef",
                    "setPending"} \cup StateLockEnds
    /\ ~IsChange(q) /\ ~Evening(q)
SimpleOps == {q \in Ops : Simple(q)}

\* What an operation calls may stand where it stood itself.
LEMMA OverCalled ==
    ASSUME NEW o, NEW p, NEW q, Over(o, p), Calls(o, q),
           o.op \notin {"cancelTimer", "dropRef", "clearPending", "setPending"}
    PROVE  Over(q, p)
BY DEF Over, Calls, StateLockEnds

\* The elements of one stack on another.
LEMMA Joined ==
    ASSUME NEW a \in Seq(Ops), NEW b \in Seq(Ops)
    PROVE  LET r == a \o b
           IN /\ r \in Seq(Ops) /\ Len(a) \in Nat /\ Len(b) \in Nat
              /\ Len(r) = Len(a) + Len(b)
              /\ DOMAIN r = 1..Len(r) /\ DOMAIN a = 1..Len(a) /\ DOMAIN b = 1..Len(b)
              /\ \A i \in DOMAIN a : r[i] = a[i] /\ i \in DOMAIN r
              /\ \A i \in DOMAIN b : r[Len(a) + i] = b[i] /\ Len(a) + i \in DOMAIN r
              /\ \A i \in DOMAIN r :
                    \/ i \in DOMAIN a /\ r[i] = a[i]
                    \/ i - Len(a) \in DOMAIN b /\ r[i] = b[i - Len(a)]
<1> DEFINE r == a \o b
<1>1. /\ r \in Seq(Ops) /\ Len(a) \in Nat /\ Len(b) \in Nat
      /\ Len(r) = Len(a) + Len(b)
      /\ \A i \in 1..(Len(a) + Len(b)) : r[i] = IF i <= Len(a) THEN a[i] ELSE b[i - Len(a)]
  BY ConcatProperties, LenProperties
<1>2. DOMAIN r = 1..Len(r) /\ DOMAIN a = 1..Len(a) /\ DOMAIN b = 1..Len(b)
  BY <1>1, LenProperties
<1> HIDE DEF r
<1>3. \A i \in DOMAIN a : r[i] = a[i] /\ i \in DOMAIN r
  BY <1>1, <1>2
<1>4. ASSUME NEW i \in DOMAIN b PROVE r[Len(a) + i] = b[i] /\ Len(a) + i \in DOMAIN r
  <2>1. Len(a) + i \in 1..(Len(a) + Len(b)) /\ ~(Len(a) + i <= Len(a))
        /\ (Len(a) + i) - Len(a) = i
    BY <1>1, <1>2
  <2> QED BY <2>1, <1>1, <1>2
<1>5. ASSUME NEW i \in DOMAIN r
      PROVE  \/ i \in DOMAIN a /\ r[i] = a[i]
             \/ i - Len(a) \in DOMAIN b /\ r[i] = b[i - Len(a)]
  <2>1. CASE i <= Len(a)
    BY <2>1, <1>1, <1>2
  <2>2. CASE ~(i <= Len(a))
    <3>1. i \in 1..(Len(a) + Len(b)) /\ i - Len(a) \in 1..Len(b)
      BY <2>2, <1>1, <1>2
    <3> QED BY <3>1, <2>2, <1>1, <1>2
  <2> QED BY <2>1, <2>2
<1> QED BY <1>1, <1>2, <1>3, <1>4, <1>5 DEF r

\* Two stacks in order, one on the other.
LEMMA OrderJoin ==
    ASSUME NEW a \in Seq(Ops), NEW b \in Seq(Ops),
           Orderly(a), Orderly(b), Complete(a), Complete(b),
           \A i \in DOMAIN a, j \in DOMAIN b : Over(a[i], b[j])
    PROVE  Orderly(a \o b) /\ Complete(a \o b)
<1> DEFINE r == a \o b
<1>1. /\ r \in Seq(Ops) /\ Len(a) \in Nat /\ Len(b) \in Nat
      /\ Len(r) = Len(a) + Len(b)
      /\ DOMAIN r = 1..Len(r) /\ DOMAIN a = 1..Len(a) /\ DOMAIN b = 1..Len(b)
      /\ \A i \in DOMAIN a : r[i] = a[i] /\ i \in DOMAIN r
      /\ \A i \in DOMAIN b : r[Len(a) + i] = b[i] /\ Len(a) + i \in DOMAIN r
      /\ \A i \in DOMAIN r :
            \/ i \in DOMAIN a /\ r[i] = a[i]
            \/ i - Len(a) \in DOMAIN b /\ r[i] = b[i - Len(a)]
  BY Joined
<1> HIDE DEF r
<1>2. ASSUME NEW i \in DOMAIN r, NEW j \in 1..(i - 1) PROVE Over(r[j], r[i])
  <2>0. j \in DOMAIN r /\ j < i
    BY <1>1
  <2>1. CASE i \in DOMAIN a /\ r[i] = a[i]
    <3>1. j \in DOMAIN a /\ r[j] = a[j]
      BY <2>0, <2>1, <1>1
    <3> QED BY <2>1, <3>1 DEF Orderly
  <2>2. CASE i - Len(a) \in DOMAIN b /\ r[i] = b[i - Len(a)]
    <3>1. CASE j \in DOMAIN a /\ r[j] = a[j]
      BY <2>2, <3>1
    <3>2. CASE j - Len(a) \in DOMAIN b /\ r[j] = b[j - Len(a)]
      <4>1. j - Len(a) \in 1..((i - Len(a)) - 1)
        BY <2>2, <3>2, <2>0, <1>1
      <4> QED BY <2>2, <3>2, <4>1 DEF Orderly
    <3> QED BY <2>0, <3>1, <3>2, <1>1
  <2> QED BY <2>1, <2>2, <1>1
<1>3. ASSUME NEW i \in DOMAIN a, NEW names, Below(a, i, names) PROVE Below(r, i, names)
  BY <1>3, <1>1 DEF Below
<1>4. ASSUME NEW i \in DOMAIN r, i - Len(a) \in DOMAIN b, NEW names,
             Below(b, i - Len(a), names)
      PROVE  Below(r, i, names)
  <2>1. PICK j \in DOMAIN b : j > i - Len(a) /\ b[j].op \in names
    BY <1>4 DEF Below
  <2>2. Len(a) + j > i
    BY <2>1, <1>1
  <2> QED BY <2>1, <2>2, <1>1 DEF Below
<1>5. Complete(r)
  <2> SUFFICES ASSUME NEW i \in DOMAIN r
               PROVE  /\ r[i].op \in {"cancelTimer", "dropRef"} =>
                            Below(r, i, {"clearPending", "makeTimer"})
                      /\ r[i].op = "setPending" => Below(r, i, {"makeTimer"})
                      /\ r[i].op = "setMode" /\ r[i].why = "alarm_restore" =>
                            Below(r, i, {"unlock"})
    BY DEF Complete
  <2>1. CASE i \in DOMAIN a /\ r[i] = a[i]
    BY <2>1, <1>3 DEF Complete
  <2>2. CASE i - Len(a) \in DOMAIN b /\ r[i] = b[i - Len(a)]
    BY <2>2, <1>4 DEF Complete
  <2> QED BY <2>1, <2>2, <1>1
<1>6. Orderly(r)
  BY <1>2 DEF Orderly
<1> QED BY <1>5, <1>6 DEF r

\* What is left of a stack in order when its first operation returns.
LEMMA OrderTail ==
    ASSUME NEW s \in Seq(Ops), s # <<>>, Orderly(s), Complete(s)
    PROVE  /\ Tail(s) \in Seq(Ops) /\ Orderly(Tail(s)) /\ Complete(Tail(s))
           /\ \A j \in DOMAIN Tail(s) : Over(Head(s), Tail(s)[j])
           /\ \A j \in DOMAIN Tail(s) : j + 1 \in DOMAIN s /\ Tail(s)[j] = s[j + 1]
           /\ \A j \in DOMAIN s : j > 1 => j - 1 \in DOMAIN Tail(s) /\ Tail(s)[j - 1] = s[j]
           /\ 1 \in DOMAIN s /\ s[1] = Head(s)
<1> DEFINE r == Tail(s)
<1>1. /\ r \in Seq(Ops) /\ Len(r) = Len(s) - 1 /\ Len(s) \in Nat \ {0}
      /\ \A i \in 1..Len(r) : r[i] = s[i + 1]
      /\ DOMAIN r = 1..Len(r) /\ DOMAIN s = 1..Len(s) /\ Head(s) = s[1]
  BY HeadTailProperties, EmptySeq, LenProperties
<1> HIDE DEF r
<1>2. \A j \in DOMAIN r : j + 1 \in DOMAIN s /\ r[j] = s[j + 1]
  BY <1>1
<1>3. ASSUME NEW j \in DOMAIN s, j > 1 PROVE j - 1 \in DOMAIN r /\ r[j - 1] = s[j]
  <2>1. j - 1 \in 1..Len(r) /\ (j - 1) + 1 = j
    BY <1>1, <1>3
  <2> QED BY <2>1, <1>1
<1>4. Orderly(r)
  <2> SUFFICES ASSUME NEW i \in DOMAIN r, NEW j \in 1..(i - 1) PROVE Over(r[j], r[i])
    BY DEF Orderly
  <2>1. i + 1 \in DOMAIN s /\ j + 1 \in 1..((i + 1) - 1) /\ j \in DOMAIN r
    BY <1>1
  <2> QED BY <2>1, <1>2 DEF Orderly
<1>5. ASSUME NEW i \in DOMAIN r, NEW names, Below(s, i + 1, names) PROVE Below(r, i, names)
  <2>1. PICK j \in DOMAIN s : j > i + 1 /\ s[j].op \in names
    BY <1>5 DEF Below
  <2>2. j > 1 /\ j - 1 > i
    BY <2>1, <1>1
  <2> QED BY <2>1, <2>2, <1>3 DEF Below
<1>6. Complete(r)
  <2> SUFFICES ASSUME NEW i \in DOMAIN r
               PROVE  /\ r[i].op \in {"cancelTimer", "dropRef"} =>
                            Below(r, i, {"clearPending", "makeTimer"})
                      /\ r[i].op = "setPending" => Below(r, i, {"makeTimer"})
                      /\ r[i].op = "setMode" /\ r[i].why = "alarm_restore" =>
                            Below(r, i, {"unlock"})
    BY DEF Complete
  <2> QED BY <1>2, <1>5 DEF Complete
<1>7. ASSUME NEW j \in DOMAIN r PROVE Over(Head(s), r[j])
  <2>1. j + 1 \in DOMAIN s /\ 1 \in 1..((j + 1) - 1) /\ r[j] = s[j + 1]
    BY <1>1
  <2> QED BY <2>1, <1>1 DEF Orderly
<1>8. 1 \in DOMAIN s /\ s[1] = Head(s)
  BY <1>1
<1> QED BY <1>1, <1>2, <1>3, <1>4, <1>6, <1>7, <1>8 DEF r

\* The elements of a sequence of calls.
LEMMA CallableOps == \A o : \A ops \in Seq(Callable(o)) :
    ops \in Seq(Ops) /\ \A i \in DOMAIN ops : ops[i] \in Ops /\ Calls(o, ops[i])
<1> SUFFICES ASSUME NEW o, NEW ops \in Seq(Callable(o))
             PROVE  ops \in Seq(Ops) /\ \A i \in DOMAIN ops : ops[i] \in Ops /\ Calls(o, ops[i])
  OBVIOUS
<1>1. Callable(o) \subseteq Ops
  BY DEF Callable
<1>2. ops \in Seq(Ops) /\ DOMAIN ops = 1..Len(ops) /\ \A i \in 1..Len(ops) : ops[i] \in Callable(o)
  BY <1>1, SeqMonotonic, ElementOfSeq, LenProperties
<1> QED BY <1>2 DEF Callable

\* A stack stays in order when its first operation calls what it may call.
LEMMA CallKeepsOrder ==
    ASSUME NEW s \in Seq(Ops), s # <<>>, Orderly(s), Complete(s),
           NEW ops, MayCall(Head(s), ops)
    PROVE  Orderly(ops \o Tail(s)) /\ Complete(ops \o Tail(s))
<1>1. /\ ops \in Seq(Ops) /\ Orderly(ops) /\ Complete(ops)
      /\ \A i \in DOMAIN ops : Calls(Head(s), ops[i])
  BY CallableOps DEF MayCall
<1>2. ASSUME NEW i \in DOMAIN ops, NEW j \in DOMAIN Tail(s) PROVE Over(ops[i], Tail(s)[j])
  <2>1. Head(s).op \notin {"cancelTimer", "dropRef", "clearPending", "setPending"}
    <3>1. ops # <<>>
      BY EmptySeq, <1>1
    <3> QED BY <3>1 DEF MayCall
  <2> QED BY <1>1, <2>1, OrderTail, OverCalled
<1> QED BY <1>1, <1>2, OrderTail, OrderJoin

\* Simple operations are in any order.
LEMMA SimpleOrder ==
    ASSUME NEW s \in Seq(SimpleOps)
    PROVE  s \in Seq(Ops) /\ Orderly(s) /\ Complete(s)
<1>1. s \in Seq(Ops) /\ DOMAIN s = 1..Len(s) /\ \A i \in 1..Len(s) : s[i] \in SimpleOps
  BY SeqMonotonic, ElementOfSeq, LenProperties, SimpleOps \subseteq Ops DEF SimpleOps
<1>2. \A i \in DOMAIN s : Simple(s[i])
  BY <1>1 DEF SimpleOps
<1>3. \A p, q : Simple(p) => Over(q, p)
  BY DEF Simple, Over
<1>4. Orderly(s)
  BY <1>2, <1>3 DEF Orderly
<1>5. Complete(s)
  BY <1>2 DEF Complete, Simple, IsChange
<1> QED BY <1>1, <1>4, <1>5

\* Simple operations that neither cancel a sleep nor resume an alarm.
NeutralOps == {q \in SimpleOps : ~Cancels(q) /\ ~Forces(q)}
CalmSimpleOps == {q \in SimpleOps : Calm(q)}

\* Sequences of none, one and two elements.
LEMMA ShortSequences ==
    ASSUME NEW S
    PROVE  /\ <<>> \in Seq(S)
           /\ \A x \in S : <<x>> \in Seq(S)
           /\ \A x, y \in S : <<x, y>> \in Seq(S)
           /\ \A a, b \in Seq(S) : a \o b \in Seq(S)
<1>1. \A a, b \in Seq(S) : a \o b \in Seq(S)
  BY ConcatProperties
<1> QED BY <1>1

LEMMA PairJoin ==
    ASSUME NEW x, NEW y
    PROVE  <<x>> \o <<y>> = <<x, y>>
<1> DEFINE S == {x, y}
<1>1. /\ <<x>> \in Seq(S) /\ <<y>> \in Seq(S) /\ <<x, y>> \in Seq(S)
      /\ Len(<<x>>) = 1 /\ Len(<<y>>) = 1 /\ Len(<<x, y>>) = 2
      /\ <<x>>[1] = x /\ <<y>>[1] = y /\ <<x, y>>[1] = x /\ <<x, y>>[2] = y
  OBVIOUS
<1>2. /\ <<x>> \o <<y>> \in Seq(S) /\ Len(<<x>> \o <<y>>) = 2
      /\ (<<x>> \o <<y>>)[1] = x /\ (<<x>> \o <<y>>)[2] = y
  BY <1>1, ConcatProperties
<1>3. \A a, b \in Seq(S) :
        Len(a) = 2 /\ Len(b) = 2 /\ a[1] = b[1] /\ a[2] = b[2] => a = b
  <2> SUFFICES ASSUME NEW a \in Seq(S), NEW b \in Seq(S),
                      Len(a) = 2, Len(b) = 2, a[1] = b[1], a[2] = b[2]
               PROVE  a = b
    OBVIOUS
  <2>1. \A i \in 1..Len(a) : a[i] = b[i]
    <3>1. \A i \in 1..2 : i = 1 \/ i = 2
      OBVIOUS
    <3> QED BY <3>1
  <2> QED BY <2>1, SeqEqual
<1> QED BY <1>1, <1>2, <1>3

LEMMA EmptyCall == \A o : MayCall(o, <<>>)
<1> SUFFICES ASSUME NEW o PROVE MayCall(o, <<>>)
  OBVIOUS
<1>1. <<>> \in Seq(Callable(o)) /\ DOMAIN <<>> = {}
  BY EmptySeq
<1> QED BY <1>1 DEF MayCall, Orderly, Complete

\* An operation from outside any mode change may call what is neutral ...
LEMMA NeutralCall ==
    ASSUME NEW o, ~Starting(o), o.op # "setPending", NEW ops \in Seq(NeutralOps)
    PROVE  MayCall(o, ops)
<1>1. NeutralOps \subseteq SimpleOps /\ NeutralOps \subseteq Callable(o)
  BY DEF NeutralOps, SimpleOps, Simple, Callable, Calls, Starting, Cancels
<1>2. ops \in Seq(SimpleOps) /\ ops \in Seq(Callable(o))
  BY <1>1, SeqMonotonic
<1> QED BY <1>2, SimpleOrder DEF MayCall, Starting, Calm

\* ... and any operation that calls something at all what is calm.
LEMMA CalmCall ==
    ASSUME NEW o, o.op \notin {"cancelTimer", "dropRef", "clearPending", "setPending"},
           NEW ops \in Seq(CalmSimpleOps)
    PROVE  MayCall(o, ops)
<1>1. CalmSimpleOps \subseteq SimpleOps /\ CalmSimpleOps \subseteq Callable(o)
  BY DEF CalmSimpleOps, SimpleOps, Simple, Callable, Calls, Starting, Calm, Cancels, Forces
<1>2. ops \in Seq(SimpleOps) /\ ops \in Seq(Callable(o))
  BY <1>1, SeqMonotonic
<1> QED BY <1>2, SimpleOrder DEF MayCall

\* Two sequences of calls, one after the other.
LEMMA JoinCall ==
    ASSUME NEW o, o.op \notin {"cancelTimer", "dropRef", "clearPending", "setPending"},
           NEW a, NEW b, MayCall(o, a), MayCall(o, b),
           \A i \in DOMAIN a, j \in DOMAIN b : Over(a[i], b[j])
    PROVE  MayCall(o, a \o b)
<1>1. a \in Seq(Ops) /\ b \in Seq(Ops)
  BY CallableOps DEF MayCall
<1>2. a \o b \in Seq(Callable(o))
  BY ShortSequences DEF MayCall
<1> QED BY <1>1, <1>2, OrderJoin DEF MayCall

LEMMA SimplePlain ==
    \A name \in PlainOps \ {"clearPending", "makeTimer", "resumePending", "cancelTimer",
                            "dropRef", "setPending", "leaveEnd"} : Plain(name) \in SimpleOps
<1> SUFFICES ASSUME NEW name \in PlainOps \ {"clearPending", "makeTimer", "resumePending",
                            "cancelTimer", "dropRef", "setPending", "leaveEnd"}
             PROVE  Plain(name) \in SimpleOps
  OBVIOUS
<1>1. Plain(name) \in Ops /\ Plain(name).op = name
  BY PlainOp
<1>2. name \notin {"setMode", "applyMode", "emit", "overrideEnd"}
  BY DEF PlainOps
<1> QED BY <1>1, <1>2 DEF SimpleOps, Simple, IsChange, Evening, StateLockEnds

LEMMA NeutralPlain ==
    \A name \in {"ack", "turnOn", "unlock", "pollResult", "checkActive"} :
        Plain(name) \in NeutralOps
BY SimplePlain, PlainOp DEF NeutralOps, Cancels, Forces, PlainOps

LEMMA CalmPlain ==
    \A name \in {"ack", "unlock"} : Plain(name) \in CalmSimpleOps
BY SimplePlain, PlainOp DEF CalmSimpleOps, Calm, PlainOps

LEMMA NeutralCalls ==
    /\ \A m \in Modes, why \in Reasons \ {"evening", "alarm_restore"},
          id \in AllAlarms \cup {"none"} : SetMode(m, why, id) \in NeutralOps
    /\ \A type \in Events \ {"schedule_evening_sleep"} : Emit(type) \in NeutralOps
    /\ \A id \in AllAlarms : EmitAlarm("schedule_alarm", id) \in NeutralOps
    /\ \A which \in FlagSets : SetFlags(which) \in NeutralOps
    /\ \A tm \in ModeTimers : Start(tm) \in NeutralOps
    /\ \A v \in Overrides : Override(v) \in NeutralOps
    /\ \A ids \in SUBSET AlarmIds : DueAlarms(ids) \in NeutralOps
<1> USE DEF NeutralOps, SimpleOps, Simple, IsChange, Evening, StateLockEnds, Cancels, Forces,
            OrdinaryOps
<1>1. \A m \in Modes, why \in Reasons \ {"evening", "alarm_restore"},
          id \in AllAlarms \cup {"none"} : SetMode(m, why, id) \in NeutralOps
  BY OrdinaryCalls DEF SetMode
<1>2. \A type \in Events \ {"schedule_evening_sleep"} : Emit(type) \in NeutralOps
  BY OrdinaryCalls DEF Emit
<1>3. \A id \in AllAlarms : EmitAlarm("schedule_alarm", id) \in NeutralOps
  BY OrdinaryCalls DEF EmitAlarm, Events
<1>4. \A which \in FlagSets : SetFlags(which) \in NeutralOps
  BY OrdinaryCalls DEF SetFlags
<1>5. \A tm \in ModeTimers : Start(tm) \in NeutralOps
  BY OrdinaryCalls DEF Start
<1>6. \A v \in Overrides : Override(v) \in NeutralOps
  BY OrdinaryCalls DEF Override
<1>7. \A ids \in SUBSET AlarmIds : DueAlarms(ids) \in NeutralOps
  BY OrdinaryCalls DEF DueAlarms
<1> QED BY <1>1, <1>2, <1>3, <1>4, <1>5, <1>6, <1>7

\* Setting the light is calm, also when a mode change does it.
LEMMA CalmCalls ==
    /\ \A on \in {"on", "off", "keep"}, look \in Looks \cup {"keep"} :
            SetLight(on, look) \in Seq(CalmSimpleOps)
    /\ \A saved \in Lights : GiveBack(saved) \in Seq(CalmSimpleOps)
    /\ Emit("mode_sleep") \in CalmSimpleOps /\ Emit("mode_other") \in CalmSimpleOps
<1> USE DEF CalmSimpleOps, SimpleOps, Simple, IsChange, Evening, StateLockEnds, Calm, OrdinaryOps
<1>1. \A on \in {"on", "off", "keep"}, look \in Looks \cup {"keep"}, manual \in BOOLEAN :
            Write(on, look, manual) \in CalmSimpleOps
  BY OrdinaryCalls DEF Write
<1>2. \A on \in {"on", "off", "keep"}, look \in Looks \cup {"keep"} :
            SetLight(on, look) \in Seq(CalmSimpleOps)
  <2> HIDE DEF CalmSimpleOps
  <2>1. \A on \in {"on", "off", "keep"}, look \in Looks \cup {"keep"} :
            Write(on, look, FALSE) \in CalmSimpleOps
    BY <1>1
  <2> QED BY <2>1, ShortSequences DEF SetLight
<1>3. \A saved \in Lights : GiveBack(saved) \in Seq(CalmSimpleOps)
  <2> HIDE DEF CalmSimpleOps
  <2> QED BY <1>2 DEF GiveBack, Lights
<1>4. Emit("mode_sleep") \in CalmSimpleOps /\ Emit("mode_other") \in CalmSimpleOps
  BY OrdinaryCalls DEF Emit, Events
<1> QED BY <1>2, <1>3, <1>4

\* Cancelling and scheduling the pending mode.
LEMMA PendingSequences ==
    /\ CancelPending \in Seq(Ops) /\ Orderly(CancelPending) /\ Complete(CancelPending)
    /\ SchedulePending \in Seq(Ops) /\ Orderly(SchedulePending) /\ Complete(SchedulePending)
    /\ \A i \in DOMAIN CancelPending :
            CancelPending[i].op \in {"cancelTimer", "dropRef", "clearPending"}
    /\ \A i \in DOMAIN SchedulePending :
            SchedulePending[i].op \in {"cancelTimer", "dropRef", "setPending", "makeTimer"}
<1> DEFINE a == CancelPending
           b == SchedulePending
<1>1. /\ DOMAIN a = 1..3 /\ Len(a) = 3 /\ a \in Seq(Ops)
      /\ a[1].op = "cancelTimer" /\ a[2].op = "dropRef" /\ a[3].op = "clearPending"
  BY PlainOp DEF CancelPending, PlainOps, Plain
<1>2. /\ DOMAIN b = 1..4 /\ Len(b) = 4 /\ b \in Seq(Ops)
      /\ b[1].op = "cancelTimer" /\ b[2].op = "dropRef" /\ b[3].op = "setPending"
      /\ b[4].op = "makeTimer"
  BY PlainOp DEF SchedulePending, PlainOps, Plain
<1> HIDE DEF a, b
<1>3. \A i \in DOMAIN a : i = 1 \/ i = 2 \/ i = 3
  BY <1>1
<1>4. \A i \in DOMAIN b : i = 1 \/ i = 2 \/ i = 3 \/ i = 4
  BY <1>2
<1>5. \A p, q : /\ p.op \in {"cancelTimer", "dropRef", "setPending"} => Over(q, p)
                /\ p.op = "clearPending" /\ q.op \in {"cancelTimer", "dropRef"} => Over(q, p)
                /\ p.op = "makeTimer" /\ q.op \in {"cancelTimer", "dropRef", "setPending"}
                        => Over(q, p)
  BY DEF Over, IsChange, Evening, StateLockEnds, Calm
<1>6. Orderly(a)
  <2> SUFFICES ASSUME NEW i \in DOMAIN a, NEW j \in 1..(i - 1) PROVE Over(a[j], a[i])
    BY DEF Orderly
  <2>1. CASE i = 3
    <3>1. j = 1 \/ j = 2
      BY <2>1
    <3> QED BY <1>1, <1>5, <2>1, <3>1
  <2>2. CASE i = 1 \/ i = 2
    BY <1>1, <1>5, <2>2
  <2> QED BY <1>3, <2>1, <2>2
<1>7. Orderly(b)
  <2> SUFFICES ASSUME NEW i \in DOMAIN b, NEW j \in 1..(i - 1) PROVE Over(b[j], b[i])
    BY DEF Orderly
  <2>1. CASE i = 4
    <3>1. j = 1 \/ j = 2 \/ j = 3
      BY <2>1
    <3> QED BY <1>2, <1>5, <2>1, <3>1
  <2>2. CASE i = 1 \/ i = 2 \/ i = 3
    BY <1>2, <1>5, <2>2
  <2> QED BY <1>4, <2>1, <2>2
<1>8. Complete(a)
  <2>1. 3 \in DOMAIN a /\ 3 > 1 /\ 3 > 2
    BY <1>1
  <2>2. Below(a, 1, {"clearPending", "makeTimer"}) /\ Below(a, 2, {"clearPending", "makeTimer"})
    BY <1>1, <2>1 DEF Below
  <2> QED BY <1>1, <1>3, <2>2 DEF Complete
<1>9. Complete(b)
  <2>1. 4 \in DOMAIN b /\ 4 > 1 /\ 4 > 2 /\ 4 > 3
    BY <1>2
  <2>2. /\ Below(b, 1, {"clearPending", "makeTimer"}) /\ Below(b, 2, {"clearPending", "makeTimer"})
        /\ Below(b, 3, {"makeTimer"})
    BY <1>2, <2>1 DEF Below
  <2> QED BY <1>2, <1>4, <2>2 DEF Complete
<1>10. /\ \A i \in DOMAIN a : a[i].op \in {"cancelTimer", "dropRef", "clearPending"}
       /\ \A i \in DOMAIN b : b[i].op \in {"cancelTimer", "dropRef", "setPending", "makeTimer"}
  BY <1>1, <1>2, <1>3, <1>4
<1> QED BY <1>1, <1>2, <1>6, <1>7, <1>8, <1>9, <1>10 DEF a, b

\* Any operation that calls something may cancel the pending mode; only one
\* from outside may schedule it.
LEMMA PendingCalls ==
    ASSUME NEW o, o.op \notin {"cancelTimer", "dropRef", "clearPending", "setPending"}
    PROVE  /\ MayCall(o, CancelPending)
           /\ ~Starting(o) => MayCall(o, SchedulePending)
<1>1. \A q \in Ops : q.op \in {"cancelTimer", "dropRef", "clearPending"} => q \in Callable(o)
  BY DEF Callable, Calls, Calm, Starting, IsChange, Evening, Cancels, Forces
<1>2. ~Starting(o) => \A q \in Ops :
        q.op \in {"cancelTimer", "dropRef", "setPending", "makeTimer"} => q \in Callable(o)
  BY DEF Callable, Calls, Starting, IsChange, Evening, Cancels, Forces
<1>3. \A s \in Seq(Ops) : (\A i \in DOMAIN s : s[i] \in Callable(o)) => s \in Seq(Callable(o))
  <2> SUFFICES ASSUME NEW s \in Seq(Ops), \A i \in DOMAIN s : s[i] \in Callable(o)
               PROVE  s \in Seq(Callable(o))
    OBVIOUS
  <2>1. Len(s) \in Nat /\ s \in [1..Len(s) -> Ops] /\ DOMAIN s = 1..Len(s)
    BY LenProperties
  <2>2. s \in [1..Len(s) -> Callable(o)]
    BY <2>1
  <2> QED BY <2>1, <2>2, SeqDef
<1>4. \A s \in Seq(Ops) : \A i \in DOMAIN s : s[i] \in Ops
  BY ElementOfSeq, LenProperties
<1> QED BY <1>1, <1>2, <1>3, <1>4, PendingSequences DEF MayCall

\* What cancelling the pending mode, or an acknowledgement, may stand above.
LEMMA PreludeOver ==
    \A p, q :
        /\ q.op \in {"cancelTimer", "dropRef", "clearPending"} /\ p.op # "makeTimer" => Over(q, p)
        /\ q.op = "ack" /\ p.op \notin {"makeTimer"} \cup StateLockEnds => Over(q, p)
BY DEF Over, Calm, Starting, Evening

-----------------------------------------------------------------------------
(* The steps of a thread *)

\* The operation on top of a stack is what its thread does next.
LEMMA ByName ==
    ASSUME NEW t \in Threads, Step(t)
    PROVE  /\ todo[t] # <<>>
           /\ Top(t).op = "setMode" => EnterSetMode(t)
           /\ Top(t).op = "applyMode" => ApplyMode(t)
           /\ Top(t).op = "ack" => Acknowledge(t)
           /\ Top(t).op = "emit" => EmitEvent(t)
           /\ Top(t).op = "cancelApply" => CancelSleepApply(t)
           /\ Top(t).op = "cancelFinish" => CancelSleepFinish(t)
           /\ Top(t).op = "forceAlarm" => ForceAlarmMode(t)
           /\ Top(t).op = "write" => WriteLight(t)
           /\ Top(t).op = "setFlags" => ChangeFlags(t)
<1> USE DEF At, Top
<1>1. CASE PendingModeStep(t)
  BY <1>1 DEF PendingModeStep, CancelTimer, DropRef, ClearPending, SetPending, MakeTimer,
        StartTimer
<1>2. CASE CommandStep(t)
  BY <1>2 DEF CommandStep, EnterSetMode, ApplyMode, Unlock, Acknowledge, EnterCancelSleep,
        CancelSleepApply, CancelSleepFinish, EnterRefresh
<1>3. CASE OtherStep(t)
  BY <1>3 DEF OtherStep, EmitEvent, TurnOn, ChangeFlags, WriteLight, BeginOverride, EndOverride,
        BeginLeave, EndLeave, Arrive, BleReport, PollResult, FireDueAlarm, ResumeAlarm,
        ForceAlarmMode, ResumePending, CheckActive
<1> QED BY <1>1, <1>2, <1>3 DEF Step

\* All other steps of a thread leave the mode, the alarm and the flags alone.
LEMMA Untouched ==
    ASSUME NEW t \in Threads, Step(t),
           Top(t).op \notin {"applyMode", "ack", "emit", "cancelApply", "cancelFinish",
                             "forceAlarm", "write", "setFlags"}
    PROVE  /\ mode' = mode /\ workReturn' = workReturn /\ sleepRestore' = sleepRestore
           /\ alarm' = alarm /\ alarmRestore' = alarmRestore /\ flags' = flags
<1> USE DEF roomVars, At, Top
<1>1. CASE PendingModeStep(t)
  BY <1>1 DEF PendingModeStep, CancelTimer, DropRef, ClearPending, SetPending, MakeTimer,
        StartTimer
<1>2. CASE CommandStep(t)
  BY <1>2 DEF CommandStep, EnterSetMode, ApplyMode, Unlock, Acknowledge, EnterCancelSleep,
        CancelSleepApply, CancelSleepFinish, EnterRefresh
<1>3. CASE OtherStep(t)
  BY <1>3 DEF OtherStep, EmitEvent, TurnOn, ChangeFlags, WriteLight, BeginOverride, EndOverride,
        BeginLeave, EndLeave, Arrive, BleReport, PollResult, FireDueAlarm, ResumeAlarm,
        ForceAlarmMode, ResumePending, CheckActive
<1> QED BY <1>1, <1>2, <1>3 DEF Step

LEMMA SingleCall ==
    ASSUME NEW x \in Ops, x.op \notin {"cancelTimer", "dropRef", "setPending"},
           ~(x.op = "setMode" /\ x.why = "alarm_restore")
    PROVE  Orderly(<<x>>) /\ Complete(<<x>>)
<1>1. DOMAIN <<x>> = {1} /\ <<x>>[1] = x
  OBVIOUS
<1> QED BY <1>1 DEF Orderly, Complete

LEMMA PairCall ==
    ASSUME NEW x \in Ops, NEW y \in Ops, Over(x, y),
           x.op \notin {"cancelTimer", "dropRef", "setPending"},
           y.op \notin {"cancelTimer", "dropRef", "setPending"},
           ~(y.op = "setMode" /\ y.why = "alarm_restore"),
           x.op = "setMode" /\ x.why = "alarm_restore" => y.op = "unlock"
    PROVE  Orderly(<<x, y>>) /\ Complete(<<x, y>>)
<1> DEFINE s == <<x, y>>
<1>1. DOMAIN s = 1..2 /\ s[1] = x /\ s[2] = y
  OBVIOUS
<1> HIDE DEF s
<1>2. \A i \in DOMAIN s : i = 1 \/ i = 2
  BY <1>1
<1>3. Orderly(s)
  <2> SUFFICES ASSUME NEW i \in DOMAIN s, NEW j \in 1..(i - 1) PROVE Over(s[j], s[i])
    BY DEF Orderly
  <2>1. i = 2 /\ j = 1
    BY <1>2
  <2> QED BY <2>1, <1>1
<1>4. y.op = "unlock" => Below(s, 1, {"unlock"})
  <2>1. 2 \in DOMAIN s /\ 2 > 1
    BY <1>1
  <2> QED BY <2>1, <1>1 DEF Below
<1>5. Complete(s)
  BY <1>1, <1>2, <1>4 DEF Complete
<1> QED BY <1>3, <1>5 DEF s

LEMMA EnterSetModeCalls ==
    ASSUME TypeOK, NEW t \in Threads, EnterSetMode(t)
    PROVE  \E ops : /\ Continue(t, ops) /\ MayCall(Top(t), ops)
                    /\ Top(t).mode = "alarm" /\ alarm # NoAlarm => ops = <<>>
                    /\ AcknowledgesFirst(Top(t)) => 1 \in DOMAIN ops /\ ops[1].op = "ack"
<1> DEFINE o == Top(t)
           first == IF AcknowledgesFirst(o) THEN <<Plain("ack")>> ELSE <<>>
           then == IF o.mode # "sleep" \/ o.why # "work_return" THEN CancelPending ELSE <<>>
           change == Apply(o.mode, o.why, o.id)
           last == <<change, Plain("unlock")>>
<1>1. /\ o \in Ops /\ o.op = "setMode"
      /\ o.mode \in Modes /\ o.why \in Reasons /\ o.id \in AllAlarms \cup {"none"}
  BY TopOp, Fields DEF EnterSetMode
<1>2. IF o.mode = "alarm" /\ alarm # NoAlarm
      THEN Continue(t, <<>>) ELSE Continue(t, first \o then \o last)
  BY DEF EnterSetMode
<1>3. MayCall(o, last) /\ DOMAIN last = {1, 2} /\ last[1].op = "applyMode" /\ last[2].op = "unlock"
  <2>1. change \in Ops /\ Plain("unlock") \in Ops /\ Plain("unlock").op = "unlock"
    BY <1>1, PlainOp DEF Apply, Ops, PlainOps
  <2>2. change.op = "applyMode" /\ change.mode = o.mode /\ change.why = o.why
    BY DEF Apply
  <2>3. Plain("unlock") \in Callable(o) /\ change \in Callable(o)
    BY <1>1, <2>1, <2>2
    DEF Callable, Calls, Calm, Starting, IsChange, Evening, Cancels, Forces
  <2>4. Over(change, Plain("unlock"))
    BY <2>1, <2>2 DEF Over, IsChange, Evening, StateLockEnds
  <2>5. Orderly(last) /\ Complete(last)
    <3> HIDE DEF change
    <3>1. PICK x \in Ops, y \in Ops : x = change /\ y = Plain("unlock")
      BY <2>1
    <3>2. Orderly(<<x, y>>) /\ Complete(<<x, y>>)
      BY <2>1, <2>2, <2>4, <3>1, PairCall
    <3> QED BY <3>1, <3>2
  <2>6. last \in Seq(Callable(o))
    BY <2>3, ShortSequences
  <2>7. DOMAIN last = {1, 2}
    OBVIOUS
  <2> QED BY <1>1, <2>1, <2>2, <2>5, <2>6, <2>7 DEF MayCall
<1>4. MayCall(o, first) /\ (\A i \in DOMAIN first : first[i].op = "ack")
      /\ (AcknowledgesFirst(o) => 1 \in DOMAIN first)
  <2>1. <<Plain("ack")>> \in Seq(CalmSimpleOps)
    BY CalmPlain, ShortSequences
  <2>2. DOMAIN <<Plain("ack")>> = {1} /\ <<Plain("ack")>>[1].op = "ack" /\ DOMAIN <<>> = {}
    BY EmptySeq DEF Plain
  <2> QED BY <1>1, <2>1, <2>2, CalmCall, EmptyCall
<1>5. MayCall(o, then)
      /\ \A i \in DOMAIN then : then[i].op \in {"cancelTimer", "dropRef", "clearPending"}
  BY <1>1, PendingCalls, PendingSequences, EmptyCall, EmptySeq
<1> HIDE DEF first, then, last, change
<1>6. MayCall(o, first \o then)
      /\ \A i \in DOMAIN (first \o then) :
            (first \o then)[i].op \in {"ack", "cancelTimer", "dropRef", "clearPending"}
  <2>1. first \in Seq(Ops) /\ then \in Seq(Ops)
    BY <1>4, <1>5, CallableOps DEF MayCall
  <2>2. \A i \in DOMAIN first, j \in DOMAIN then : Over(first[i], then[j])
    BY <1>4, <1>5, PreludeOver DEF StateLockEnds
  <2>3. MayCall(o, first \o then)
    BY <1>1, <1>4, <1>5, <2>2, JoinCall
  <2>4. \A i \in DOMAIN (first \o then) :
            \/ i \in DOMAIN first /\ (first \o then)[i] = first[i]
            \/ i - Len(first) \in DOMAIN then /\ (first \o then)[i] = then[i - Len(first)]
    BY <2>1, Joined
  <2> QED BY <1>4, <1>5, <2>3, <2>4
<1>7. MayCall(o, first \o then \o last)
  <2>1. \A i \in DOMAIN (first \o then), j \in DOMAIN last : Over((first \o then)[i], last[j])
    BY <1>3, <1>6, PreludeOver DEF StateLockEnds
  <2> QED BY <1>1, <1>3, <1>6, <2>1, JoinCall
<1>8. AcknowledgesFirst(o) => ~(o.mode = "alarm" /\ alarm # NoAlarm)
  BY DEF AcknowledgesFirst
<1>9. ASSUME AcknowledgesFirst(o)
      PROVE  1 \in DOMAIN (first \o then \o last) /\ (first \o then \o last)[1].op = "ack"
  <2>1. PICK a \in Seq(Ops), b \in Seq(Ops), c \in Seq(Ops) : a = first /\ b = then /\ c = last
    BY <1>3, <1>4, <1>5, CallableOps DEF MayCall
  <2>2. 1 \in DOMAIN a /\ a[1].op = "ack"
    BY <1>4, <1>9, <2>1
  <2>3. a \o b \in Seq(Ops) /\ 1 \in DOMAIN (a \o b) /\ (a \o b)[1].op = "ack"
    BY <2>2, Joined
  <2>4. PICK d \in Seq(Ops) : d = a \o b
    BY <2>3
  <2>5. 1 \in DOMAIN (d \o c) /\ (d \o c)[1].op = "ack"
    BY <2>3, <2>4, Joined
  <2> QED BY <2>1, <2>4, <2>5
<1> QED BY <1>2, <1>7, <1>8, <1>9, EmptyCall

LEMMA AcknowledgeCalls ==
    ASSUME TypeOK, NEW t \in Threads, Acknowledge(t)
    PROVE  \E ops : Continue(t, ops) /\ MayCall(Top(t), ops)
<1> DEFINE o == Top(t)
           change == SetMode(alarmRestore.mode, "alarm_restore", "none")
<1>1. o.op = "ack" /\ alarmRestore.light \in Lights
  BY TopOp, RestoredLight DEF Acknowledge, TypeOK
<1>2. Plain("unlock") \in Ops /\ Plain("unlock").op = "unlock"
  BY PlainOp DEF PlainOps
<1>3. CASE alarm = NoAlarm
  BY <1>3, EmptyCall DEF Acknowledge
<1>4. CASE alarm # NoAlarm /\ alarmRestore.mode \in Scenes \cup {"sleep"}
  <2>1. change \in Ops /\ change.op = "setMode" /\ change.why = "alarm_restore"
        /\ change.mode # "alarm"
    BY <1>4, OrdinaryCalls, NamesAssumption DEF Modes, Reasons, OrdinaryOps, SetMode
  <2>2. change \in Callable(o) /\ Plain("unlock") \in Callable(o)
    BY <1>1, <1>2, <2>1
    DEF Callable, Calls, Calm, Starting, IsChange, Evening, Cancels, Forces
  <2>3. Over(change, Plain("unlock"))
    BY <1>2 DEF Over, IsChange, Evening, StateLockEnds
  <2> HIDE DEF change
  <2>4. PICK x \in Ops, y \in Ops : x = change /\ y = Plain("unlock")
    BY <1>2, <2>1
  <2>5. Orderly(<<x, y>>) /\ Complete(<<x, y>>)
    BY <1>2, <2>1, <2>3, <2>4, PairCall
  <2>6. <<x, y>> \in Seq(Callable(o))
    BY <2>2, <2>4, ShortSequences
  <2>7. MayCall(o, <<x, y>>)
    BY <1>1, <2>5, <2>6 DEF MayCall
  <2>8. <<x>> \o <<y>> = <<x, y>>
    BY PairJoin
  <2>9. Continue(t, <<x>> \o <<y>>)
    BY <1>4, <2>4 DEF Acknowledge, change
  <2> QED BY <2>7, <2>8, <2>9
<1>5. CASE alarm # NoAlarm /\ alarmRestore.mode \notin Scenes \cup {"sleep"}
  <2>1. PICK restoring \in Seq(CalmSimpleOps) : Continue(t, restoring \o <<Plain("unlock")>>)
    BY <1>1, <1>5, CalmCalls DEF Acknowledge
  <2>2. restoring \o <<Plain("unlock")>> \in Seq(CalmSimpleOps)
    BY CalmPlain, ShortSequences
  <2> QED BY <1>1, <2>1, <2>2, CalmCall
<1> QED BY <1>3, <1>4, <1>5

LEMMA CancelSleepCalls ==
    ASSUME TypeOK, NEW t \in Threads, EnterCancelSleep(t) \/ CancelSleepApply(t)
    PROVE  \E ops : /\ Continue(t, ops) /\ MayCall(Top(t), ops)
                    /\ CancelSleepApply(t) => \E i \in DOMAIN ops : ops[i].op = "cancelFinish"
<1> DEFINE o == Top(t)
<1>0. CancelSleepApply(t) => o.op = "cancelApply"
  BY TopOp DEF CancelSleepApply
<1>1. CASE EnterCancelSleep(t)
  <2> DEFINE last == <<Plain("cancelApply"), Plain("unlock")>>
  <2>1. o.op = "cancelSleep" /\ Continue(t, CancelPending \o last)
    BY <1>1, TopOp DEF EnterCancelSleep
  <2>2. Plain("cancelApply") \in SimpleOps /\ Plain("unlock") \in SimpleOps
        /\ Plain("cancelApply").op = "cancelApply" /\ Plain("unlock").op = "unlock"
    BY SimplePlain, PlainOp DEF PlainOps
  <2>3. last \in Seq(SimpleOps)
    BY <2>2, ShortSequences
  <2>4. last \in Seq(Callable(o))
    <3>1. Plain("cancelApply") \in Callable(o) /\ Plain("unlock") \in Callable(o)
      BY <2>1, <2>2
      DEF SimpleOps, Simple, Callable, Calls, Calm, Starting, IsChange, Evening, Cancels, Forces
    <3> QED BY <3>1, ShortSequences
  <2>5. MayCall(o, last)
    BY <2>1, <2>3, <2>4, SimpleOrder DEF MayCall
  <2>6. \A j \in DOMAIN last : last[j].op # "makeTimer"
    BY <2>2
  <2>7. MayCall(o, CancelPending)
    BY <2>1, PendingCalls
  <2> HIDE DEF last
  <2>8. \A i \in DOMAIN CancelPending, j \in DOMAIN last : Over(CancelPending[i], last[j])
    BY <2>6, PendingSequences, PreludeOver
  <2> QED BY <1>0, <2>1, <2>5, <2>7, <2>8, JoinCall
<1>2. CASE CancelSleepApply(t)
  <2> DEFINE first == CASE flags.workDone -> <<Emit("cancelled_work")>>
                        [] ~flags.workDone /\ flags.eveningDone -> <<Emit("cancelled_evening")>>
                        [] OTHER -> <<>>
             then == CASE ~occupied -> SetLight("off", "keep")
                       [] occupied /\ sleepRestore = NoRestore -> SetLight("on", "keep")
                       [] OTHER -> GiveBack(sleepRestore.light)
             finish == Finish(sleepRestore, occupied)
             S == {q \in SimpleOps : Calls(o, q)}
  <2>1. o.op = "cancelApply" /\ Continue(t, first \o then \o <<finish>>)
    BY <1>2, TopOp DEF CancelSleepApply
  <2>2. NeutralOps \subseteq S /\ CalmSimpleOps \subseteq S
    BY <2>1 DEF NeutralOps, CalmSimpleOps, SimpleOps, Simple, Calls, Calm, Starting, IsChange,
                Evening, Cancels, Forces
  <2>3. finish \in S
    <3>1. finish \in Ops /\ finish.op = "cancelFinish" /\ finish.restore = sleepRestore
      BY DEF Finish, Ops, TypeOK
    <3> QED BY <2>1, <3>1 DEF SimpleOps, Simple, Calls, Calm, Starting, IsChange,
                Evening, Cancels, Forces, StateLockEnds
  <2>9. finish.op = "cancelFinish"
    BY DEF Finish
  <2> HIDE DEF finish
  <2>4. first \in Seq(S)
    <3>1. Emit("cancelled_work") \in S /\ Emit("cancelled_evening") \in S
      BY <2>2, NeutralCalls DEF Events
    <3> HIDE DEF S
    <3> QED BY <3>1, ShortSequences
  <2>5. then \in Seq(S)
    <3>1. sleepRestore.light \in Lights
      BY RestoredLight DEF TypeOK
    <3>2. then \in Seq(CalmSimpleOps)
      BY <3>1, CalmCalls
    <3> QED BY <3>2, <2>2, SeqMonotonic
  <2> HIDE DEF first, then, S
  <2>6. first \o then \o <<finish>> \in Seq(S)
    BY <2>3, <2>4, <2>5, ShortSequences
  <2>7. S \subseteq SimpleOps /\ S \subseteq Callable(o)
    BY DEF S, SimpleOps, Callable
  <2>8. MayCall(o, first \o then \o <<finish>>)
    BY <2>1, <2>6, <2>7, SeqMonotonic, SimpleOrder DEF MayCall
  <2>10. PICK a \in Seq(S) : a = first \o then
    BY <2>4, <2>5, ShortSequences
  <2>11. a \in Seq(Ops) /\ <<finish>> \in Seq(Ops)
    <3>1. S \subseteq Ops
      BY DEF S, SimpleOps
    <3> QED BY <2>3, <3>1, SeqMonotonic, ShortSequences
  <2>12. 1 \in DOMAIN <<finish>> /\ <<finish>>[1] = finish
    OBVIOUS
  <2>13. \E i \in DOMAIN (a \o <<finish>>) : (a \o <<finish>>)[i].op = "cancelFinish"
    <3>1. PICK b \in Seq(Ops) : b = <<finish>>
      BY <2>11
    <3>2. 1 \in DOMAIN b /\ b[1].op = "cancelFinish"
      BY <2>9, <2>12, <3>1
    <3>3. Len(a) + 1 \in DOMAIN (a \o b) /\ (a \o b)[Len(a) + 1] = b[1]
      BY <2>11, <3>2, Joined
    <3> QED BY <3>1, <3>2, <3>3
  <2> QED BY <2>1, <2>8, <2>10, <2>13
<1> QED BY <1>1, <1>2

LEMMA EmitCalls ==
    ASSUME TypeOK, NEW t \in Threads, EmitEvent(t)
    PROVE  \E ops : /\ Continue(t, ops) /\ MayCall(Top(t), ops)
                    /\ Top(t).type = "schedule_evening_sleep" /\ ~EveningSleepDue => ops = <<>>
<1> DEFINE o == Top(t)
           ops == Automation(o)
<1>1. /\ o \in Ops /\ o.op = "emit" /\ o.type \in Events /\ o.id \in AllAlarms \cup {"none"}
      /\ Continue(t, ops)
  BY TopOp, Fields DEF EmitEvent
<1>0. o.type = "schedule_evening_sleep" /\ ~EveningSleepDue => ops = <<>>
  BY DEF Automation
<1>2. CASE ops = <<>>
  BY <1>1, <1>2, EmptyCall
<1>3. CASE ops = SetLight("off", "keep") \/ ops = SetLight("on", "bright") \/ ops = <<Plain("ack")>>
  <2>1. <<Plain("ack")>> \in Seq(CalmSimpleOps)
    BY CalmPlain, ShortSequences
  <2>2. ops \in Seq(CalmSimpleOps)
    BY <1>3, <2>1, CalmCalls DEF Looks
  <2> QED BY <1>0, <1>1, <2>2, CalmCall
<1>4. CASE \/ ops = <<Plain("turnOn")>> /\ o.type = "presence_detected"
           \/ ops = <<SetMode("alarm", "schedule", o.id)>> /\ o.type = "schedule_alarm"
           \/ ops = <<SetFlags("reset")>> /\ o.type = "schedule_daily_reset"
           \/ ops = <<SetFlags("workCancel")>> /\ o.type = "cancelled_work"
           \/ ops = <<SetFlags("eveningCancel")>> /\ o.type = "cancelled_evening"
  <2>1. \A which \in {"reset", "workCancel", "eveningCancel"} : SetFlags(which) \in NeutralOps
    BY NeutralCalls DEF FlagSets
  <2>2. Plain("turnOn") \in NeutralOps
    BY NeutralPlain
  <2>3. SetMode("alarm", "schedule", o.id) \in NeutralOps
    BY <1>1, NeutralCalls DEF Modes, Reasons
  <2> HIDE DEF ops
  <2>4. ops \in Seq(NeutralOps)
    BY <1>4, <2>1, <2>2, <2>3, ShortSequences
  <2>5. ~Starting(o)
    BY <1>1, <1>4 DEF Starting, Calm
  <2> QED BY <1>0, <1>1, <2>4, <2>5, NeutralCall DEF ops
<1>5. CASE ops = SchedulePending /\ o.type = "arrive_home"
  BY <1>0, <1>1, <1>5, PendingCalls DEF Starting, Calm
<1>6. CASE ops = <<SetMode("sleep", "evening", "none")>> /\ o.type = "schedule_evening_sleep"
  <2> DEFINE change == SetMode("sleep", "evening", "none")
  <2>1. change \in Ops /\ change.op = "setMode" /\ change.why = "evening" /\ change.mode = "sleep"
    BY OrdinaryCalls DEF Modes, Reasons, OrdinaryOps, SetMode
  <2>2. change \in Callable(o)
    BY <1>1, <1>6, <2>1
    DEF Callable, Calls, Calm, Starting, IsChange, Evening, Cancels, Forces
  <2> HIDE DEF change
  <2>3. MayCall(o, <<change>>)
    BY <1>1, <2>1, <2>2, SingleCall, ShortSequences DEF MayCall
  <2> QED BY <1>0, <1>1, <1>6, <2>3 DEF change
<1> QED BY <1>2, <1>3, <1>4, <1>5, <1>6 DEF Automation

LEMMA LockedCalls ==
    ASSUME TypeOK, NEW t \in Threads, BeginOverride(t) \/ BeginLeave(t)
    PROVE  \E ops : Continue(t, ops) /\ MayCall(Top(t), ops)
<1> DEFINE o == Top(t)
<1>1. \A q \in Ops : q.op \in StateLockEnds /\ o.op \in {"override", "leave"} => MayCall(o, <<q>>)
  <2> SUFFICES ASSUME NEW q \in Ops, q.op \in StateLockEnds, o.op \in {"override", "leave"}
               PROVE  MayCall(o, <<q>>)
    OBVIOUS
  <2>1. q \in Callable(o)
    BY DEF Callable, Calls, Calm, Starting, IsChange, Evening, Cancels, Forces, StateLockEnds
  <2>2. Orderly(<<q>>) /\ Complete(<<q>>)
    BY SingleCall DEF StateLockEnds
  <2> QED BY <2>1, <2>2, ShortSequences DEF MayCall
<1>2. ASSUME NEW q \in Ops, q.op \in StateLockEnds, o.op \in {"override", "leave"}
      PROVE  MayCall(o, CancelPending \o <<q>>)
  <2>1. \A i \in DOMAIN CancelPending, j \in DOMAIN <<q>> : Over(CancelPending[i], <<q>>[j])
    <3>1. \A j \in DOMAIN <<q>> : <<q>>[j] = q
      OBVIOUS
    <3> QED BY <1>2, <3>1, PendingSequences, PreludeOver DEF StateLockEnds
  <2>2. MayCall(o, CancelPending) /\ MayCall(o, <<q>>)
    BY <1>1, <1>2, PendingCalls
  <2> QED BY <1>2, <2>1, <2>2, JoinCall
<1>3. CASE BeginOverride(t)
  <2>1. o.op = "override" /\ o.to \in Overrides
    BY <1>3, TopOp, Fields DEF BeginOverride
  <2>2. PICK q \in Ops : q.op \in StateLockEnds /\ q = OverrideEnd(o.to)
    BY <2>1, OrdinaryCalls DEF OrdinaryOps, OverrideEnd, StateLockEnds
  <2>3. <<>> \o <<q>> = <<q>>
    BY ShortSequences, ConcatEmptySeq
  <2>4. Continue(t, CancelPending \o <<q>>) \/ Continue(t, <<>> \o <<q>>)
    BY <1>3, <2>2 DEF BeginOverride
  <2> QED BY <1>1, <1>2, <2>1, <2>2, <2>3, <2>4
<1>4. CASE BeginLeave(t)
  <2>1. o.op = "leave"
    BY <1>4, TopOp DEF BeginLeave
  <2>2. PICK q \in Ops : q.op \in StateLockEnds /\ q = Plain("leaveEnd")
    BY PlainOp DEF PlainOps, StateLockEnds
  <2>3. Continue(t, CancelPending \o <<q>>) \/ Continue(t, <<>>)
    BY <1>4, <2>2 DEF BeginLeave
  <2> QED BY <1>2, <2>1, <2>2, <2>3, EmptyCall
<1> QED BY <1>3, <1>4

\* What the first operation of a stack leads to, for every step of a thread.
LEMMA StepCalls ==
    ASSUME TypeOK, NEW t \in Threads, Step(t)
    PROVE  \/ \E ops : Continue(t, ops) /\ MayCall(Top(t), ops)
           \/ StartTimer(t) /\ todo' = [todo EXCEPT ![t] = <<>>]
<1> DEFINE o == Top(t)
           called == \E ops : Continue(t, ops) /\ MayCall(o, ops)
<1>1. Continue(t, <<>>) => called
  BY EmptyCall
<1>2. ASSUME NEW ops \in Seq(NeutralOps), Continue(t, ops), o.op \in
             {"makeTimer", "refresh", "leaveEnd", "arrive", "presence", "pollResult",
              "dueAlarms", "checkActive", "turnOn"}
      PROVE  called
  BY <1>2, NeutralCall DEF Starting, Calm
<1>3. CASE CancelTimer(t) \/ DropRef(t) \/ ClearPending(t) \/ SetPending(t)
           \/ Unlock(t) \/ CancelSleepFinish(t) \/ ChangeFlags(t) \/ WriteLight(t)
           \/ EndOverride(t)
  BY <1>1, <1>3 DEF CancelTimer, DropRef, ClearPending, SetPending, Unlock, CancelSleepFinish,
                    ChangeFlags, WriteLight, EndOverride
<1>4. CASE MakeTimer(t)
  <2>1. o.op = "makeTimer"
    BY <1>4, TopOp DEF MakeTimer
  <2>2. PICK tm \in ModeTimers : Continue(t, <<Start(tm)>>)
    BY <1>4 DEF MakeTimer
  <2>3. <<Start(tm)>> \in Seq(NeutralOps)
    BY NeutralCalls, ShortSequences
  <2> QED BY <1>2, <2>1, <2>2, <2>3
<1>5. CASE StartTimer(t)
  BY <1>1, <1>5 DEF StartTimer
<1>6. CASE EnterSetMode(t)
  BY <1>6, EnterSetModeCalls
<1>7. CASE ApplyMode(t)
  <2>1. /\ o \in Ops /\ o.op = "applyMode" /\ o.mode \in Modes /\ Continue(t, ModeFollowUp(o.mode))
    BY <1>7, TopOp, Fields DEF ApplyMode
  <2>2. CASE o.mode = "alarm"
    <3>1. ModeFollowUp(o.mode) = <<Emit("mode_alarm")>>
      <4>1. ModeFollowUp(o.mode) = <<>> \o <<Emit("mode_alarm")>>
        BY <2>2, NamesAssumption DEF ModeFollowUp, ModeEvent
      <4> QED BY <4>1, ShortSequences, ConcatEmptySeq
    <3>2. <<Emit("mode_alarm")>> \in Seq(NeutralOps)
      BY NeutralCalls, ShortSequences DEF Events
    <3>3. ~Starting(o) /\ o.op # "setPending"
      BY <2>1, <2>2 DEF Starting, Calm
    <3> QED BY <2>1, <3>1, <3>2, <3>3, NeutralCall
  <2>3. CASE o.mode # "alarm"
    <3>1. <<ModeEvent(o.mode)>> \in Seq(CalmSimpleOps)
      BY <2>3, CalmCalls, ShortSequences DEF ModeEvent
    <3>2. PICK before \in Seq(CalmSimpleOps) :
                ModeFollowUp(o.mode) = before \o <<ModeEvent(o.mode)>>
      BY <2>1, <2>3, CalmCalls, ShortSequences DEF ModeFollowUp, Modes, Looks
    <3>3. ModeFollowUp(o.mode) \in Seq(CalmSimpleOps)
      BY <3>1, <3>2, ShortSequences
    <3> QED BY <2>1, <3>3, CalmCall
  <2> QED BY <2>2, <2>3
<1>8. CASE Acknowledge(t)
  BY <1>8, AcknowledgeCalls
<1>9. CASE EnterCancelSleep(t) \/ CancelSleepApply(t)
  BY <1>9, CancelSleepCalls
<1>10. CASE EnterRefresh(t)
  <2>1. o.op = "refresh" /\ Continue(t, <<Plain("pollResult"), Plain("unlock")>>)
    BY <1>10, TopOp DEF EnterRefresh
  <2>2. <<Plain("pollResult"), Plain("unlock")>> \in Seq(NeutralOps)
    BY NeutralPlain, ShortSequences
  <2> QED BY <1>2, <2>1, <2>2
<1>11. CASE EmitEvent(t)
  BY <1>11, EmitCalls
<1>12. CASE TurnOn(t)
  <2>1. o.op = "turnOn"
    BY <1>12, TopOp DEF TurnOn
  <2>2. PICK ops \in Seq(CalmSimpleOps) : Continue(t, ops)
    BY <1>12, CalmCalls DEF TurnOn, Looks
  <2> QED BY <2>1, <2>2, CalmCall
<1>13. CASE BeginOverride(t) \/ BeginLeave(t)
  BY <1>13, LockedCalls
<1>14. CASE EndLeave(t) \/ Arrive(t) \/ BleReport(t) \/ PollResult(t)
  <2>1. o.op \in {"leaveEnd", "arrive", "presence", "pollResult"}
    <3>1. CASE EndLeave(t)
      BY <3>1, TopOp DEF EndLeave
    <3>2. CASE Arrive(t)
      BY <3>2, TopOp DEF Arrive
    <3>3. CASE BleReport(t)
      BY <3>3, TopOp DEF BleReport
    <3>4. CASE PollResult(t)
      BY <3>4, TopOp DEF PollResult
    <3> QED BY <1>14, <3>1, <3>2, <3>3, <3>4
  <2>2. /\ \A now \in BOOLEAN : Announcements(now) \subseteq Seq(NeutralOps)
        /\ <<Emit("arrive_home")>> \in Seq(NeutralOps)
        /\ <<Emit("presence_detected"), Emit("arrive_home")>> \in Seq(NeutralOps)
    <3>1. /\ Emit("presence_detected") \in NeutralOps /\ Emit("presence_cleared") \in NeutralOps
          /\ Emit("arrive_home") \in NeutralOps
      BY NeutralCalls DEF Events
    <3> QED BY <3>1, ShortSequences DEF Announcements
  <2> DEFINE neutral == \E ops \in Seq(NeutralOps) : Continue(t, ops)
  <2>a. ASSUME EndLeave(t) PROVE neutral
    BY <2>a, <2>2 DEF EndLeave
  <2>b. ASSUME Arrive(t) PROVE neutral
    BY <2>b, <2>2, ShortSequences DEF Arrive
  <2>c. ASSUME BleReport(t) PROVE neutral
    BY <2>c, <2>2 DEF BleReport, Sensed, TypeOK
  <2>d. ASSUME PollResult(t) PROVE neutral
    BY <2>d, <2>2 DEF PollResult, Sensed, TypeOK
  <2>3. PICK ops \in Seq(NeutralOps) : Continue(t, ops)
    BY <1>14, <2>a, <2>b, <2>c, <2>d
  <2> QED BY <1>2, <2>1, <2>3
<1>15. CASE FireDueAlarm(t)
  <2>1. o.op = "dueAlarms" /\ o.ids \in SUBSET AlarmIds
    BY <1>15, TopOp, Fields DEF FireDueAlarm
  <2>2. \A a \in o.ids : <<EmitAlarm("schedule_alarm", a), DueAlarms(o.ids \ {a})>>
                            \in Seq(NeutralOps)
    <3>1. \A a \in o.ids : EmitAlarm("schedule_alarm", a) \in NeutralOps
                           /\ DueAlarms(o.ids \ {a}) \in NeutralOps
      BY <2>1, NeutralCalls DEF AllAlarms
    <3> QED BY <3>1, ShortSequences
  <2>3. PICK ops \in Seq(NeutralOps) : Continue(t, ops)
    BY <1>15, <2>2, ShortSequences DEF FireDueAlarm
  <2> QED BY <1>2, <2>1, <2>3
<1>16. CASE ResumeAlarm(t)
  <2>1. o.op = "resumeAlarm"
    BY <1>16, TopOp DEF ResumeAlarm
  <2>2. CASE alarm # NoAlarm
    <3>1. alarm.id \in AllAlarms
      BY <2>2 DEF TypeOK, ActiveAlarms
    <3>2. PICK due \in {"flashing", "steady", "expired"} :
                Continue(t, <<ForceAlarm(alarm.id, due)>>)
      BY <1>16, <2>2 DEF ResumeAlarm
    <3>3. PICK q \in Ops : q = ForceAlarm(alarm.id, due) /\ q.op = "forceAlarm"
      BY <3>1, OrdinaryCalls DEF OrdinaryOps, ForceAlarm
    <3>4. q \in Callable(o)
      BY <2>1, <3>3 DEF Callable, Calls, Starting, Calm, IsChange, Evening, Cancels, Forces
    <3>5. MayCall(o, <<q>>)
      BY <2>1, <3>3, <3>4, SingleCall, ShortSequences DEF MayCall
    <3> QED BY <3>2, <3>3, <3>5
  <2> QED BY <1>1, <1>16, <2>2 DEF ResumeAlarm
<1>17. CASE ForceAlarmMode(t)
  <2>1. o.op = "forceAlarm"
    BY <1>17, TopOp DEF ForceAlarmMode
  <2>2. <<Plain("ack")>> \in Seq(CalmSimpleOps) /\ SetLight("on", "bright") \in Seq(CalmSimpleOps)
    BY CalmPlain, CalmCalls, ShortSequences DEF Looks
  <2>3. PICK ops \in Seq(CalmSimpleOps) : Continue(t, ops)
    BY <1>17, <2>2 DEF ForceAlarmMode
  <2> QED BY <2>1, <2>3, CalmCall
<1>18. CASE ResumePending(t)
  <2>1. o.op = "resumePending" /\ ~Starting(o)
    BY <1>18, TopOp DEF ResumePending, Starting, Calm
  <2>2. MayCall(o, SchedulePending)
    BY <2>1, PendingCalls
  <2>3. PICK p \in Ops, q \in Ops :
            /\ p = Plain("clearPending") /\ p.op = "clearPending"
            /\ q = SetMode("sleep", "work_return", "none") /\ q.op = "setMode"
            /\ q.why = "work_return" /\ q.mode = "sleep"
    <3>1. Plain("clearPending") \in Ops /\ Plain("clearPending").op = "clearPending"
      BY PlainOp DEF PlainOps
    <3>2. SetMode("sleep", "work_return", "none") \in Ops
      BY OrdinaryCalls DEF OrdinaryOps, Modes, Reasons
    <3> QED BY <3>1, <3>2 DEF SetMode
  <2>4. p \in Callable(o) /\ q \in Callable(o) /\ Over(p, q)
    BY <2>1, <2>3
    DEF Callable, Calls, Calm, Over, IsChange, Evening, Cancels, Forces, StateLockEnds
  <2>5. MayCall(o, <<p, q>>)
    BY <2>1, <2>3, <2>4, PairCall, ShortSequences DEF MayCall
  <2> QED BY <1>1, <1>18, <2>2, <2>3, <2>5 DEF ResumePending
<1>19. ASSUME NEW reached \in {"nothing", "flash_until", "expires_at"}, CheckActive(t, reached)
       PROVE  called
  <2>1. o.op = "checkActive"
    BY <1>19, TopOp DEF CheckActive
  <2>2. /\ <<Emit("alarm_duration_expired")>> \in Seq(NeutralOps)
        /\ <<Emit("alarm_flash_finished")>> \in Seq(NeutralOps)
    BY NeutralCalls, ShortSequences DEF Events
  <2>3. PICK ops \in Seq(NeutralOps) : Continue(t, ops)
    BY <1>19, <2>2, ShortSequences DEF CheckActive
  <2> QED BY <1>2, <2>1, <2>3
<1>20. CASE PendingModeStep(t)
  BY <1>20, <1>3, <1>4, <1>5 DEF PendingModeStep
<1>21. CASE CommandStep(t)
  BY <1>21, <1>3, <1>6, <1>7, <1>8, <1>9, <1>10 DEF CommandStep
<1>22. CASE OtherStep(t)
  BY <1>22, <1>3, <1>11, <1>12, <1>13, <1>14, <1>15, <1>16, <1>17, <1>18, <1>19 DEF OtherStep
<1> QED BY <1>20, <1>21, <1>22 DEF Step

\* What a thread may start with, or come to execute at all.
Warranted(t, q) ==
    /\ Evening(q) => t = "scheduler"
    /\ Cancels(q) => "cancel_sleep" \in Requests
    /\ Forces(q) => "restart" \in Requests
Openings(t) ==
    {q \in Ops : /\ Warranted(t, q) /\ ~IsChange(q)
                 /\ Evening(q) => q.op = "emit"
                 /\ q.op # "cancelFinish"}
Opening(t, ops) == ops \in Seq(Openings(t)) /\ Orderly(ops) /\ Complete(ops)

LEMMA NeutralOpening ==
    ASSUME NEW t, NEW ops \in Seq(NeutralOps)
    PROVE  Opening(t, ops)
<1>1. NeutralOps \subseteq SimpleOps /\ NeutralOps \subseteq Openings(t)
  BY DEF NeutralOps, SimpleOps, Simple, Openings, Warranted, Cancels
<1> QED BY <1>1, SeqMonotonic, SimpleOrder DEF Opening

LEMMA SingleOpening ==
    ASSUME NEW t, NEW name \in {"cancelSleep", "ack", "refresh", "leave", "arrive", "presence",
                                "pollResult"},
           name = "cancelSleep" => "cancel_sleep" \in Requests
    PROVE  Opening(t, <<Plain(name)>>)
<1>1. PICK q \in Ops : q = Plain(name) /\ q.op = name
  BY PlainOp DEF PlainOps
<1>2. q \in Openings(t)
  BY <1>1 DEF Openings, Warranted, Evening, IsChange, Cancels, Forces
<1> QED BY <1>1, <1>2, SingleCall, ShortSequences DEF Opening

\* A timer that fires and an external event other than a restart find a
\* thread idle.
LEMMA Opened ==
    ASSUME TypeOK, (\E tm \in ModeTimers : FireTimer(tm)) \/ (External /\ ~Restart)
    PROVE  \E t \in Threads : \E ops :
                Idle(t) /\ todo' = [todo EXCEPT ![t] = ops] /\ Opening(t, ops)
<1> DEFINE opened == \E t \in Threads : \E ops :
                Idle(t) /\ todo' = [todo EXCEPT ![t] = ops] /\ Opening(t, ops)
<1>0. \A t \in Threads : \A kind, ops : Begin(t, kind, ops) /\ Opening(t, ops) => opened
  BY DEF Begin
<1>1. ASSUME NEW tm \in ModeTimers, FireTimer(tm) PROVE opened
  <2>1. PICK p \in Ops, q \in Ops, r \in Ops :
            /\ p = Plain("dropRef") /\ p.op = "dropRef"
            /\ q = Plain("clearPending") /\ q.op = "clearPending"
            /\ r = SetMode("sleep", "work_return", "none") /\ r.op = "setMode"
            /\ r.why = "work_return" /\ r.mode = "sleep"
    <3>1. /\ Plain("clearPending") \in Ops /\ Plain("clearPending").op = "clearPending"
          /\ Plain("dropRef") \in Ops /\ Plain("dropRef").op = "dropRef"
      BY PlainOp DEF PlainOps
    <3>2. SetMode("sleep", "work_return", "none") \in Ops
      BY OrdinaryCalls DEF OrdinaryOps, Modes, Reasons
    <3> QED BY <3>1, <3>2 DEF SetMode
  <2>2. tm \in Threads /\ Idle(tm) /\ todo' = [todo EXCEPT ![tm] = <<p, q, r>>]
    BY <1>1, <2>1 DEF FireTimer, Threads
  <2> DEFINE s == <<p, q, r>>
  <2>3. s \in Seq(Openings(tm))
    BY <2>1 DEF Openings, Warranted, Evening, IsChange, Cancels, Forces
  <2>4. DOMAIN s = 1..3 /\ s[1] = p /\ s[2] = q /\ s[3] = r
    OBVIOUS
  <2> HIDE DEF s
  <2>5. Over(p, q) /\ Over(p, r) /\ Over(q, r)
    BY <2>1 DEF Over, Calm, IsChange, Evening, StateLockEnds
  <2>6. Orderly(s)
    <3> SUFFICES ASSUME NEW i \in DOMAIN s, NEW j \in 1..(i - 1) PROVE Over(s[j], s[i])
      BY DEF Orderly
    <3>1. (i = 2 /\ j = 1) \/ (i = 3 /\ (j = 1 \/ j = 2))
      BY <2>4
    <3> QED BY <3>1, <2>4, <2>5
  <2>7. Complete(s)
    <3>1. 2 \in DOMAIN s /\ 2 > 1
      BY <2>4
    <3>2. Below(s, 1, {"clearPending", "makeTimer"})
      BY <2>1, <2>4, <3>1 DEF Below
    <3>3. \A i \in DOMAIN s : i = 1 \/ i = 2 \/ i = 3
      BY <2>4
    <3> QED BY <2>1, <2>4, <3>2, <3>3 DEF Complete
  <2> QED BY <2>2, <2>3, <2>6, <2>7 DEF Opening, s
<1>2. ASSUME NEW t \in Rpc, RpcRequest(t) PROVE opened
  <2>0. t \in Threads
    BY DEF Threads
  <2>1. /\ \A m \in Modes : Opening(t, <<SetMode(m, "manual", "none")>>)
        /\ \A m \in Scenes \cup {"off", "sleep", "alarm"} : m \in Modes
        /\ \A v \in Overrides : Opening(t, <<Override(v)>>)
    <3>1. \A m \in Modes : <<SetMode(m, "manual", "none")>> \in Seq(NeutralOps)
      BY NeutralCalls, ShortSequences DEF Reasons
    <3>2. \A v \in Overrides : <<Override(v)>> \in Seq(NeutralOps)
      BY NeutralCalls, ShortSequences
    <3> QED BY <3>1, <3>2, NeutralOpening DEF Modes
  <2>2. ASSUME NEW on \in {"on", "off", "keep"}, NEW look \in {"user", "keep"}
        PROVE  Opening(t, ManualLight(on, look))
    <3>1. PICK w \in Ops : w = Write(on, look, TRUE) /\ w.op = "write"
      <4>1. Write(on, look, TRUE) \in OrdinaryOps
        BY <2>2, OrdinaryCalls DEF Looks
      <4> QED BY <4>1 DEF OrdinaryOps, Write
    <3>2. w \in Openings(t)
      BY <3>1 DEF Openings, Warranted, Evening, IsChange, Cancels, Forces
    <3>3. CancelPending \in Seq(Openings(t))
      <4>1. \A name \in {"cancelTimer", "dropRef", "clearPending"} : Plain(name) \in Openings(t)
        BY PlainOp DEF PlainOps, Openings, Warranted, Evening, IsChange, Cancels, Forces
      <4> QED BY <4>1 DEF CancelPending
    <3>4. Orderly(<<w>>) /\ Complete(<<w>>)
      BY <3>1, SingleCall
    <3>5. \A i \in DOMAIN CancelPending, j \in DOMAIN <<w>> : Over(CancelPending[i], <<w>>[j])
      <4>1. \A j \in DOMAIN <<w>> : <<w>>[j] = w
        OBVIOUS
      <4> QED BY <3>1, <4>1, PendingSequences, PreludeOver
    <3>6. <<w>> \in Seq(Ops) /\ <<w>> \in Seq(Openings(t))
      BY <3>2, ShortSequences
    <3>7. Orderly(CancelPending \o <<w>>) /\ Complete(CancelPending \o <<w>>)
      BY <3>4, <3>5, <3>6, PendingSequences, OrderJoin
    <3>8. CancelPending \o <<w>> \in Seq(Openings(t))
      BY <3>3, <3>6, ShortSequences
    <3> QED BY <3>1, <3>7, <3>8 DEF ManualLight, Opening
  <2>3. \A name \in {"ack", "refresh", "leave", "arrive"} : Opening(t, <<Plain(name)>>)
    BY SingleOpening
  <2>4. "cancel_sleep" \in Requests => Opening(t, <<Plain("cancelSleep")>>)
    BY SingleOpening
  <2>5. \E kind, ops : Begin(t, kind, ops) /\ Opening(t, ops)
    BY <1>2, <2>1, <2>2, <2>3, <2>4 DEF RpcRequest, Begin
  <2> QED BY <1>0, <2>0, <2>5
<1>3. ASSUME NEW t \in Rpc, NEW a \in AlarmIds, UpsertAlarm(t, a) \/ DeleteAlarm(t, a)
      PROVE  opened
  <2>1. Opening(t, <<>>) /\ Opening(t, <<Plain("ack")>>)
    BY SingleOpening, NeutralOpening, ShortSequences
  <2>2. t \in Threads /\ \E kind, ops : Begin(t, kind, ops) /\ Opening(t, ops)
    BY <1>3, <2>1 DEF UpsertAlarm, DeleteAlarm, Threads
  <2> QED BY <1>0, <2>2
<1>4. CASE MqttMessage
  <2>1. /\ \A on \in {"on", "off"} : Opening("mqtt", SetLight(on, "keep"))
        /\ \A m \in Modes : Opening("mqtt", <<SetMode(m, "command", "none")>>)
        /\ \A name \in {"presence", "arrive", "leave"} : Opening("mqtt", <<Plain(name)>>)
    <3>1. \A m \in Modes : <<SetMode(m, "command", "none")>> \in Seq(NeutralOps)
      BY NeutralCalls, ShortSequences DEF Reasons
    <3>2. \A on \in {"on", "off"} : SetLight(on, "keep") \in Seq(NeutralOps)
      <4>1. CalmSimpleOps \subseteq NeutralOps
        BY DEF CalmSimpleOps, NeutralOps, Calm, Cancels, Forces
      <4> QED BY <4>1, CalmCalls, SeqMonotonic
    <3> QED BY <3>1, <3>2, NeutralOpening, SingleOpening
  <2>2. "mqtt" \in Threads
    BY <1>4 DEF MqttMessage, Threads
  <2>3. \E kind, ops : Begin("mqtt", kind, ops) /\ Opening("mqtt", ops)
    BY <1>4, <2>1 DEF MqttMessage, Begin
  <2> QED BY <1>0, <2>2, <2>3
<1>5. CASE Poll
  <2>1. "poll" \in Threads /\ Begin("poll", "poll", <<Plain("pollResult")>>)
    BY <1>5 DEF Poll, Threads
  <2> QED BY <1>0, <2>1, SingleOpening
<1>6. CASE SchedulerPass
  <2>1. "scheduler" \in Threads
    BY <1>6 DEF SchedulerPass, Threads
  <2>2. PICK due \in SUBSET AlarmIds,
             daily \in {<<>>, <<Emit("schedule_evening_sleep")>>,
                        <<Emit("schedule_daily_reset")>>} :
                Begin("scheduler", "scheduler",
                      <<DueAlarms(due)>> \o daily \o <<Plain("checkActive")>>)
    BY <1>6 DEF SchedulerPass
  <2>3. <<DueAlarms(due)>> \in Seq(NeutralOps) /\ <<Plain("checkActive")>> \in Seq(NeutralOps)
        /\ <<Emit("schedule_daily_reset")>> \in Seq(NeutralOps) /\ <<>> \in Seq(NeutralOps)
    BY NeutralCalls, NeutralPlain, ShortSequences DEF Events
  <2>4. Opening("scheduler", <<DueAlarms(due)>>) /\ Opening("scheduler", <<Plain("checkActive")>>)
    BY <2>3, NeutralOpening
  <2>5. Opening("scheduler", daily)
    <3>1. PICK q \in Ops : q = Emit("schedule_evening_sleep") /\ q.op = "emit"
      BY OrdinaryCalls DEF OrdinaryOps, Events, Emit
    <3>2. q \in Openings("scheduler")
      BY <3>1 DEF Openings, Warranted, Evening, IsChange, Cancels, Forces
    <3>3. Opening("scheduler", <<q>>)
      BY <3>1, <3>2, SingleCall, ShortSequences DEF Opening
    <3> QED BY <2>3, <3>1, <3>3, NeutralOpening
  <2>6. ASSUME NEW a, NEW b, Opening("scheduler", a), Opening("scheduler", b),
               \A i \in DOMAIN a, j \in DOMAIN b : Over(a[i], b[j])
        PROVE  Opening("scheduler", a \o b)
    <3>1. Openings("scheduler") \subseteq Ops
      BY DEF Openings
    <3>2. a \in Seq(Ops) /\ b \in Seq(Ops) /\ a \o b \in Seq(Openings("scheduler"))
      BY <2>6, <3>1, SeqMonotonic, ShortSequences DEF Opening
    <3> QED BY <2>6, <3>2, OrderJoin DEF Opening
  <2>7. \A p, q : /\ q.op = "dueAlarms" /\ p.op = "emit" => Over(q, p)
                  /\ p.op = "checkActive" => Over(q, p)
    BY DEF Over, IsChange, Evening, StateLockEnds
  <2>8. /\ \A i \in DOMAIN <<DueAlarms(due)>> : <<DueAlarms(due)>>[i].op = "dueAlarms"
        /\ \A i \in DOMAIN daily : daily[i].op = "emit"
        /\ \A i \in DOMAIN <<Plain("checkActive")>> : <<Plain("checkActive")>>[i].op = "checkActive"
    BY EmptySeq DEF DueAlarms, Emit, Plain
  <2>9. Opening("scheduler", <<DueAlarms(due)>> \o daily)
    BY <2>4, <2>5, <2>6, <2>7, <2>8
  <2>10. Opening("scheduler", <<DueAlarms(due)>> \o daily \o <<Plain("checkActive")>>)
    BY <2>4, <2>6, <2>7, <2>8, <2>9
  <2> QED BY <1>0, <2>1, <2>2, <2>10
<1> QED BY <1>1, <1>2, <1>3, <1>4, <1>5, <1>6 DEF External

\* Every stack is in order, and holds only what its thread may come to do.
OrderInv ==
    \A t \in Threads :
        /\ Orderly(todo[t]) /\ Complete(todo[t])
        /\ \A i \in DOMAIN todo[t] : Warranted(t, todo[t][i])

\* What one step does to the stacks.
LEMMA StackMoves ==
    ASSUME TypeOK, Next
    PROVE  \/ \E t \in Threads : \E ops :
                Step(t) /\ todo[t] # <<>> /\ Continue(t, ops) /\ MayCall(Top(t), ops)
           \/ \E t \in Threads : StartTimer(t) /\ todo' = [todo EXCEPT ![t] = <<>>]
           \/ \E t \in Threads : \E ops :
                Idle(t) /\ todo' = [todo EXCEPT ![t] = ops] /\ Opening(t, ops)
           \/ Restart
<1>1. ASSUME NEW t \in Threads, Step(t) PROVE todo[t] # <<>>
  BY <1>1, ByName
<1> QED BY <1>1, StepCalls, Opened DEF Next

\* The stack of a thread after a step that calls ops.
LEMMA CalledStack ==
    ASSUME TypeOK, NEW t \in Threads, todo[t] # <<>>, NEW ops, MayCall(Top(t), ops),
           Continue(t, ops)
    PROVE  /\ todo'[t] = ops \o Tail(todo[t]) /\ todo[t] \in Seq(Ops) /\ ops \in Seq(Ops)
           /\ \A u \in Threads \ {t} : todo'[u] = todo[u]
           /\ Top(t) = todo[t][1] /\ 1 \in DOMAIN todo[t] /\ Len(ops) \in Nat
           /\ \A i \in DOMAIN ops : i \in DOMAIN todo'[t] /\ todo'[t][i] = ops[i]
           /\ \A i \in DOMAIN todo[t] : i # 1 =>
                i - 1 + Len(ops) \in DOMAIN todo'[t] /\ todo'[t][i - 1 + Len(ops)] = todo[t][i]
           /\ \A i \in DOMAIN todo'[t] :
                \/ i \in DOMAIN ops /\ todo'[t][i] = ops[i]
                \/ /\ i - Len(ops) + 1 \in DOMAIN todo[t] /\ i - Len(ops) + 1 # 1
                   /\ todo'[t][i] = todo[t][i - Len(ops) + 1]
<1> DEFINE s == todo[t]
           r == ops \o Tail(s)
<1>1. s \in Seq(Ops) /\ ops \in Seq(Ops) /\ Top(t) = Head(s)
  BY CallableOps DEF MayCall, TypeOK, Top
<1>2. todo'[t] = r /\ \A u \in Threads \ {t} : todo'[u] = todo[u]
  BY DEF Continue, TypeOK
<1>3. /\ Len(s) \in Nat \ {0} /\ Len(ops) \in Nat
      /\ Len(r) = Len(ops) + Len(s) - 1
      /\ DOMAIN r = 1..Len(r) /\ DOMAIN s = 1..Len(s) /\ DOMAIN ops = 1..Len(ops)
      /\ Head(s) = s[1]
      /\ \A i \in 1..Len(ops) : r[i] = ops[i]
      /\ \A i \in 2..Len(s) : r[Len(ops) + i - 1] = s[i]
      /\ \A i \in (Len(ops) + 1)..Len(r) :
            i - Len(ops) + 1 \in 2..Len(s) /\ r[i] = s[i - Len(ops) + 1]
  BY <1>1, CalledFirst, LenProperties
<1> HIDE DEF s, r
<1>4. 1 \in DOMAIN s /\ \A i \in DOMAIN ops : i \in DOMAIN r /\ r[i] = ops[i]
  BY <1>3
<1>5. ASSUME NEW i \in DOMAIN s, i # 1
      PROVE  i - 1 + Len(ops) \in DOMAIN r /\ r[i - 1 + Len(ops)] = s[i]
  <2>1. i \in 2..Len(s) /\ i - 1 + Len(ops) = Len(ops) + i - 1
    BY <1>3, <1>5
  <2>2. i - 1 + Len(ops) \in 1..Len(r)
    BY <1>3, <2>1
  <2> QED BY <1>3, <2>1, <2>2
<1>6. ASSUME NEW i \in DOMAIN r, i \notin DOMAIN ops
      PROVE  /\ i - Len(ops) + 1 \in DOMAIN s /\ i - Len(ops) + 1 # 1
             /\ r[i] = s[i - Len(ops) + 1]
  <2>1. i \in (Len(ops) + 1)..Len(r)
    BY <1>3, <1>6
  <2> QED BY <1>3, <2>1
<1> QED BY <1>1, <1>2, <1>3, <1>4, <1>5, <1>6 DEF s, r

\* Every step keeps the stacks in order.
LEMMA OrderPreserved ==
    ASSUME TypeOK, OrderInv, [Next]_vars
    PROVE  OrderInv'
<1>1. ASSUME NEW t \in Threads, NEW ops, todo[t] # <<>>, Continue(t, ops), MayCall(Top(t), ops)
      PROVE  OrderInv'
  <2> DEFINE s == todo[t]
             r == todo'[t]
  <2>1. s \in Seq(Ops) /\ Orderly(s) /\ Complete(s) /\ Top(t) = Head(s)
        /\ \A i \in DOMAIN s : Warranted(t, s[i])
    BY DEF OrderInv, TypeOK, Top
  <2>2. /\ r = ops \o Tail(s) /\ Top(t) = s[1] /\ 1 \in DOMAIN s
        /\ \A u \in Threads \ {t} : todo'[u] = todo[u]
        /\ \A i \in DOMAIN r :
                \/ i \in DOMAIN ops /\ r[i] = ops[i]
                \/ i - Len(ops) + 1 \in DOMAIN s /\ r[i] = s[i - Len(ops) + 1]
    BY <1>1, CalledStack
  <2>3. Orderly(r) /\ Complete(r)
    BY <1>1, <2>1, <2>2, CallKeepsOrder
  <2>4. \A i \in DOMAIN ops : Warranted(t, ops[i])
    <3>1. \A i \in DOMAIN ops : Calls(Top(t), ops[i])
      BY <1>1, CallableOps DEF MayCall
    <3>2. Warranted(t, Top(t))
      BY <2>1, <2>2
    <3> QED BY <3>1, <3>2 DEF Calls, Warranted
  <2> HIDE DEF s, r
  <2>5. \A i \in DOMAIN r : Warranted(t, r[i])
    BY <2>1, <2>2, <2>4
  <2>6. \A u \in Threads :
            /\ Orderly(todo'[u]) /\ Complete(todo'[u])
            /\ \A i \in DOMAIN todo'[u] : Warranted(u, todo'[u][i])
    BY <2>2, <2>3, <2>5 DEF r, OrderInv
  <2> QED BY <2>6 DEF OrderInv, Orderly, Complete, Below, Warranted
<1>2. ASSUME NEW t \in Threads, NEW ops, todo' = [todo EXCEPT ![t] = ops],
             Orderly(ops), Complete(ops), \A i \in DOMAIN ops : Warranted(t, ops[i])
      PROVE  OrderInv'
  <2>1. todo'[t] = ops /\ \A u \in Threads \ {t} : todo'[u] = todo[u]
    BY <1>2 DEF TypeOK
  <2>2. \A u \in Threads :
            /\ Orderly(todo'[u]) /\ Complete(todo'[u])
            /\ \A i \in DOMAIN todo'[u] : Warranted(u, todo'[u][i])
    BY <1>2, <2>1 DEF OrderInv
  <2> QED BY <2>2 DEF OrderInv, Orderly, Complete, Below, Warranted
<1>3. \A t : /\ Orderly(<<>>) /\ Complete(<<>>) /\ \A i \in DOMAIN <<>> : Warranted(t, <<>>[i])
             /\ <<>> \in Seq(Ops)
  BY EmptySeq DEF Orderly, Complete
<1>4. ASSUME NEW t \in Threads, NEW ops, Idle(t), todo' = [todo EXCEPT ![t] = ops], Opening(t, ops)
      PROVE  OrderInv'
  <2>1. DOMAIN ops = 1..Len(ops) /\ \A i \in 1..Len(ops) : ops[i] \in Openings(t)
    BY <1>4, LenProperties, ElementOfSeq DEF Opening
  <2>2. \A i \in DOMAIN ops : Warranted(t, ops[i])
    <3>1. \A q \in Openings(t) : Warranted(t, q)
      BY DEF Openings
    <3> QED BY <2>1, <3>1
  <2>3. Orderly(ops) /\ Complete(ops)
    BY <1>4 DEF Opening
  <2> QED BY <1>2, <1>4, <2>2, <2>3
<1>5. CASE Restart
  <2> DEFINE boot == <<Plain("resumeAlarm"), Plain("resumePending")>>
  <2>1. PICK p \in Ops, q \in Ops :
            /\ p = Plain("resumeAlarm") /\ p.op = "resumeAlarm"
            /\ q = Plain("resumePending") /\ q.op = "resumePending"
    BY PlainOp DEF PlainOps
  <2>2. Over(p, q)
    BY <2>1 DEF Over, Starting, IsChange, Evening, StateLockEnds
  <2>3. Orderly(<<p, q>>) /\ Complete(<<p, q>>)
    BY <2>1, <2>2, PairCall
  <2>4. \A i \in DOMAIN <<p, q>> : <<p, q>>[i] = p \/ <<p, q>>[i] = q
    OBVIOUS
  <2>5. \A t : Warranted(t, p) /\ Warranted(t, q)
    BY <1>5, <2>1 DEF Restart, Warranted, Evening, Cancels, Forces
  <2>6. \A t \in Threads : todo'[t] = <<p, q>> \/ todo'[t] = <<>>
    BY <1>5, <2>1 DEF Restart
  <2>7. \A t \in Threads : \A i \in DOMAIN todo'[t] : Warranted(t, todo'[t][i])
    BY <1>3, <2>4, <2>5, <2>6
  <2>8. \A t \in Threads : Orderly(todo'[t]) /\ Complete(todo'[t])
    BY <1>3, <2>3, <2>6
  <2> QED BY <2>7, <2>8 DEF OrderInv, Orderly, Complete, Below, Warranted
<1>6. CASE UNCHANGED vars
  BY <1>6 DEF vars, OrderInv, Orderly, Complete, Below, Warranted
<1> QED BY <1>1, <1>2, <1>3, <1>4, <1>5, <1>6, StackMoves

LEMMA OrderInit == Init => OrderInv
BY EmptySeq DEF Init, OrderInv, Orderly, Complete

\* Stacks in order follow the lock order.
LEMMA LockOrder == TypeOK /\ OrderInv => StateLockInnermost
<1> SUFFICES ASSUME TypeOK, OrderInv, NEW t \in Threads, HoldsState(t)
             PROVE  Top(t).op \notin {"setMode", "ack", "cancelSleep", "refresh"}
  BY DEF StateLockInnermost
<1> DEFINE s == todo[t]
<1>1. PICK i \in DOMAIN s : s[i].op \in StateLockEnds
  BY DEF HoldsState, Pending
<1>2. s \in Seq(Ops) /\ DOMAIN s = 1..Len(s) /\ Len(s) \in Nat /\ Orderly(s)
  BY LenProperties DEF TypeOK, OrderInv
<1>3. s # <<>>
  BY <1>1, EmptySeq
<1>4. Top(t) = s[1]
  BY <1>2, <1>3, HeadTailProperties DEF Top
<1> HIDE DEF s
<1>5. CASE i = 1
  BY <1>1, <1>4, <1>5 DEF StateLockEnds
<1>6. CASE i # 1
  <2>1. 1 \in 1..(i - 1)
    BY <1>1, <1>2, <1>6
  <2> QED BY <1>1, <1>2, <1>4, <2>1 DEF Orderly, Over
<1> QED BY <1>5, <1>6

-----------------------------------------------------------------------------
(* The delayed mode change *)

\* The operations that clear the pending mode or give it a timer.
Settling == {"clearPending", "makeTimer", "resumePending"}

\* The inductive form of PendingHasTimer.  A startTimer counts only while the
\* timer it will find is new: the start of any other raises.
PendingKept ==
    pending =>
        \/ \E tm \in ModeTimers : timer[tm] = "armed"
        \/ \E t \in Threads : Pending(t, Settling)
        \/ /\ timerRef # NoTimer /\ timer[timerRef] = "made"
           /\ \E t \in Threads : Pending(t, {"startTimer"})

\* What is pending stays so in a step that executes something else.
LEMMA StillPending ==
    ASSUME TypeOK, NEW u \in Threads, NEW names, Pending(u, names),
           NEW t \in Threads, NEW ops, todo[t] # <<>>, MayCall(Top(t), ops), Continue(t, ops),
           u = t => Top(t).op \notin names
    PROVE  Pending(u, names)'
<1>1. PICK i \in DOMAIN todo[u] : todo[u][i].op \in names
  BY DEF Pending
<1>2. CASE u # t
  <2>1. todo'[u] = todo[u]
    BY <1>2, CalledStack
  <2> QED BY <1>1, <2>1 DEF Pending
<1>3. CASE u = t
  <2>1. i # 1
    BY <1>1, <1>3, CalledStack
  <2>2. i - 1 + Len(ops) \in DOMAIN todo'[t] /\ todo'[t][i - 1 + Len(ops)] = todo[t][i]
    BY <1>1, <1>3, <2>1, CalledStack
  <2> QED BY <1>1, <1>3, <2>2 DEF Pending
<1> QED BY <1>2, <1>3

LEMMA NewlyPending ==
    ASSUME TypeOK, NEW t \in Threads, NEW ops, todo[t] # <<>>, MayCall(Top(t), ops),
           Continue(t, ops), NEW names, NEW i \in DOMAIN ops, ops[i].op \in names
    PROVE  Pending(t, names)'
BY CalledStack DEF Pending

\* Below a cancelTimer, dropRef or setPending the settling operation follows.
LEMMA SettlingBelow ==
    ASSUME TypeOK, OrderInv, NEW t \in Threads, todo[t] # <<>>,
           Top(t).op \in {"cancelTimer", "dropRef", "setPending"}
    PROVE  Pending(t, Settling)
<1>1. 1 \in DOMAIN todo[t] /\ Top(t) = todo[t][1] /\ Complete(todo[t])
  BY LenProperties, EmptySeq, HeadTailProperties DEF TypeOK, OrderInv, Top
<1> QED BY <1>1 DEF Complete, Below, Pending, Settling

\* Nothing settling stands below a startTimer.
LEMMA NothingBelowStart ==
    ASSUME TypeOK, OrderInv, NEW t \in Threads, At(t, "startTimer")
    PROVE  ~Pending(t, Settling)
<1> DEFINE s == todo[t]
<1>1. /\ 1 \in DOMAIN s /\ s[1].op = "startTimer" /\ Orderly(s)
      /\ DOMAIN s = 1..Len(s) /\ Len(s) \in Nat
  BY LenProperties, EmptySeq, HeadTailProperties DEF TypeOK, OrderInv, At
<1> HIDE DEF s
<1>2. SUFFICES ASSUME NEW i \in DOMAIN s, s[i].op \in Settling PROVE FALSE
  BY DEF Pending, s
<1>3. i # 1
  BY <1>1, <1>2 DEF Settling
<1>4. 1 \in 1..(i - 1)
  BY <1>1, <1>3
<1>5. Over(s[1], s[i])
  BY <1>1, <1>4 DEF Orderly
<1> QED BY <1>1, <1>2, <1>5 DEF Over, Settling, Calm, Starting

\* Steps outside the pending mode touch neither it nor its timer, and what
\* they execute settles nothing.
LEMMA ElsewhereStep ==
    ASSUME TypeOK, NEW t \in Threads, CommandStep(t) \/ OtherStep(t), ~ResumePending(t)
    PROVE  /\ pending' = pending /\ timerRef' = timerRef /\ timer' = timer
           /\ Top(t).op \notin Settling \cup {"startTimer"}
<1> USE DEF roomVars, Settling, At, Top
<1>1. CASE CommandStep(t)
  BY <1>1 DEF CommandStep, EnterSetMode, ApplyMode, Unlock, Acknowledge, EnterCancelSleep,
        CancelSleepApply, CancelSleepFinish, EnterRefresh
<1>2. CASE OtherStep(t)
  BY <1>2 DEF OtherStep, EmitEvent, TurnOn, ChangeFlags, WriteLight, BeginOverride, EndOverride,
        BeginLeave, EndLeave, Arrive, BleReport, PollResult, FireDueAlarm, ResumeAlarm,
        ForceAlarmMode, CheckActive
<1> QED BY <1>1, <1>2

LEMMA PendingPreserved ==
    ASSUME TypeOK, OrderInv, PendingKept, [Next]_vars
    PROVE  PendingKept'
<1> DEFINE armed    == \E tm \in ModeTimers : timer[tm] = "armed"
           settling == \E t \in Threads : Pending(t, Settling)
           starting == /\ timerRef # NoTimer /\ timer[timerRef] = "made"
                       /\ \E t \in Threads : Pending(t, {"startTimer"})
<1>0. /\ pending => armed \/ settling \/ starting
      /\ armed' \/ settling' \/ starting' \/ ~pending' => PendingKept'
      /\ pending \in BOOLEAN
  BY DEF PendingKept, TypeOK
<1>1. ASSUME NEW t \in Threads, Step(t), todo[t] # <<>>,
             NEW ops, Continue(t, ops), MayCall(Top(t), ops)
      PROVE  PendingKept'
  <2>1. Top(t).op \notin Settling /\ settling => settling'
    BY <1>1, StillPending
  <2>2. Top(t).op # "startTimer" /\ (\E u \in Threads : Pending(u, {"startTimer"}))
            => \E u \in Threads : Pending(u, {"startTimer"})'
    BY <1>1, StillPending
  <2>3. Top(t).op \in {"cancelTimer", "dropRef", "setPending"} => settling'
    BY <1>1, SettlingBelow, <2>1 DEF Settling
  <2>4. CASE CancelTimer(t) \/ DropRef(t) \/ SetPending(t)
    BY <2>3, <2>4, <1>0 DEF CancelTimer, DropRef, SetPending, At, Top
  <2>5. CASE ClearPending(t)
    BY <2>5, <1>0 DEF ClearPending
  <2>6. CASE MakeTimer(t)
    <3>1. PICK tm \in ModeTimers : /\ timer' = [timer EXCEPT ![tm] = "made"] /\ timerRef' = tm
                                   /\ Continue(t, <<Start(tm)>>)
      BY <2>6 DEF MakeTimer
    <3>2. todo'[t] = <<Start(tm)>> \o Tail(todo[t])
      BY <3>1 DEF Continue, TypeOK
    <3>3. Pending(t, {"startTimer"})'
      <4>1. <<Start(tm)>> \in Seq(Ops) /\ todo[t] \in Seq(Ops) /\ Len(<<Start(tm)>>) = 1
            /\ <<Start(tm)>>[1].op = "startTimer"
        BY OrdinaryCalls DEF OrdinaryOps, Start, TypeOK
      <4>2. 1 \in 1..Len(<<Start(tm)>>)
        BY <4>1
      <4>3. todo'[t][1] = <<Start(tm)>>[1] /\ 1 \in DOMAIN todo'[t]
        <5>1. PICK called \in Seq(Ops) : called = <<Start(tm)>>
          BY <4>1
        <5>2. LET r == called \o Tail(todo[t])
              IN /\ DOMAIN r = 1..Len(r) /\ Len(r) = Len(called) + Len(todo[t]) - 1
                 /\ Len(todo[t]) \in Nat \ {0}
                 /\ \A i \in 1..Len(called) : r[i] = called[i]
          BY <1>1, <4>1, CalledFirst
        <5> QED BY <3>2, <4>1, <4>2, <5>1, <5>2
      <4> QED BY <4>1, <4>3 DEF Pending
    <3>4. timerRef' # NoTimer /\ timer'[timerRef'] = "made"
      BY <3>1, ThreadsAssumption DEF TypeOK, NoTimer
    <3> QED BY <1>0, <3>3, <3>4
  <2>7. CASE StartTimer(t)
    <3>0. Top(t).op = "startTimer" /\ pending' = pending
      BY <2>7 DEF StartTimer, At, Top, roomVars
    <3>1. CASE timerRef # NoTimer /\ timer[timerRef] \in {"made", "cancelled"}
      <4>1. /\ timerRef \in ModeTimers /\ timerRef' = timerRef
            /\ timer' = [timer EXCEPT ![timerRef] = IF @ = "made" THEN "armed" ELSE "idle"]
        BY <2>7, <3>1 DEF StartTimer, TypeOK
      <4>2. CASE timer[timerRef] = "made"
        BY <4>1, <4>2, <1>0 DEF TypeOK
      <4>3. CASE timer[timerRef] = "cancelled"
        <5>1. armed => armed'
          BY <4>1, <4>3 DEF TypeOK
        <5> QED BY <1>0, <2>1, <3>0, <4>3, <5>1 DEF Settling
      <4> QED BY <3>1, <4>2, <4>3
    <3>2. CASE ~(timerRef # NoTimer /\ timer[timerRef] \in {"made", "cancelled"})
      <4>1. armed => armed'
        BY <2>7, <3>2 DEF StartTimer, TypeOK
      <4> QED BY <1>0, <2>1, <3>0, <3>2, <4>1 DEF Settling
    <3> QED BY <3>1, <3>2
  <2>8. CASE ResumePending(t)
    <3>1. Top(t).op = "resumePending" /\ pending' = pending
      BY <2>8 DEF ResumePending, At, Top, roomVars
    <3>2. CASE pending
      <4>1. PICK called : /\ Continue(t, called)
                          /\ \/ called = << Plain("clearPending"),
                                            SetMode("sleep", "work_return", "none") >>
                             \/ called = SchedulePending
        BY <2>8, <3>2 DEF ResumePending
      <4>2. called \in Seq(Ops) /\ \E i \in 1..Len(called) : called[i].op \in Settling
        <5>1. CASE called = SchedulePending
          <6>1. SchedulePending[4].op = "makeTimer" /\ Len(SchedulePending) = 4
            BY DEF SchedulePending, Plain
          <6>2. 4 \in 1..4
            OBVIOUS
          <6> QED BY <5>1, <6>1, <6>2, PendingSequences DEF Settling
        <5>2. CASE called = <<Plain("clearPending"), SetMode("sleep", "work_return", "none")>>
          <6>1. Plain("clearPending") \in Ops /\ SetMode("sleep", "work_return", "none") \in Ops
            BY PlainOp, OrdinaryCalls DEF PlainOps, OrdinaryOps, Modes, Reasons
          <6>2. called \in Seq(Ops) /\ Len(called) = 2 /\ called[1].op = "clearPending"
            BY <5>2, <6>1 DEF Plain
          <6>3. 1 \in 1..2
            OBVIOUS
          <6> QED BY <6>2, <6>3 DEF Settling
        <5> QED BY <4>1, <5>1, <5>2
      <4>3. todo'[t] = called \o Tail(todo[t]) /\ todo[t] \in Seq(Ops)
        BY <4>1 DEF Continue, TypeOK
      <4>4. LET r == called \o Tail(todo[t])
            IN /\ DOMAIN r = 1..Len(r) /\ Len(r) = Len(called) + Len(todo[t]) - 1
               /\ Len(todo[t]) \in Nat \ {0} /\ Len(called) \in Nat
               /\ \A i \in 1..Len(called) : r[i] = called[i]
        BY <1>1, <4>2, <4>3, CalledFirst
      <4>5. \A i \in 1..Len(called) : i \in DOMAIN todo'[t] /\ todo'[t][i] = called[i]
        BY <4>3, <4>4
      <4>6. Pending(t, Settling)'
        BY <4>2, <4>5 DEF Pending, Settling
      <4> QED BY <1>0, <4>6
    <3> QED BY <1>0, <3>1, <3>2
  <2>9. CASE (CommandStep(t) \/ OtherStep(t)) /\ ~ResumePending(t)
    BY <1>0, <2>1, <2>2, <2>9, ElsewhereStep
  <2> QED BY <1>1, <2>4, <2>5, <2>6, <2>7, <2>8, <2>9 DEF Step, PendingModeStep
<1>2. ASSUME NEW t \in Threads, StartTimer(t), todo' = [todo EXCEPT ![t] = <<>>]
      PROVE  PendingKept'
  <2>0. pending' = pending /\ At(t, "startTimer") /\ timerRef' = timerRef
    BY <1>2 DEF StartTimer, roomVars
  <2>1. settling => settling'
    <3>1. \A u \in Threads : Pending(u, Settling) => u # t
      BY <2>0, NothingBelowStart
    <3> QED BY <1>2, <3>1 DEF Pending, TypeOK, Settling
  <2>2. CASE timerRef # NoTimer /\ timer[timerRef] \in {"made", "cancelled"}
    <3>1. /\ timerRef \in ModeTimers
          /\ timer' = [timer EXCEPT ![timerRef] = IF @ = "made" THEN "armed" ELSE "idle"]
      BY <1>2, <2>2 DEF StartTimer, TypeOK
    <3>2. CASE timer[timerRef] = "made"
      BY <3>1, <3>2, <1>0 DEF TypeOK
    <3>3. CASE timer[timerRef] = "cancelled"
      <4>1. armed => armed'
        BY <3>1, <3>3 DEF TypeOK
      <4> QED BY <1>0, <2>0, <2>1, <3>3, <4>1
    <3> QED BY <2>2, <3>2, <3>3
  <2>3. CASE ~(timerRef # NoTimer /\ timer[timerRef] \in {"made", "cancelled"})
    <3>1. armed => armed'
      BY <1>2, <2>3 DEF StartTimer, TypeOK
    <3> QED BY <1>0, <2>0, <2>1, <2>3, <3>1
  <2> QED BY <2>2, <2>3
<1>3. ASSUME NEW tm \in ModeTimers, FireTimer(tm)
      PROVE  PendingKept'
  <2>1. tm \in Threads /\ todo'[tm] = <<Plain("dropRef"), Plain("clearPending"),
                                        SetMode("sleep", "work_return", "none")>>
    BY <1>3 DEF FireTimer, Threads, TypeOK
  <2>2. 2 \in DOMAIN todo'[tm] /\ todo'[tm][2].op = "clearPending"
    BY <2>1 DEF Plain
  <2>3. Pending(tm, Settling)'
    BY <2>2 DEF Pending, Settling
  <2> QED BY <1>0, <2>1, <2>3
<1>4. CASE External /\ ~Restart
  <2>1. PICK t \in Threads : \E ops : Idle(t) /\ todo' = [todo EXCEPT ![t] = ops]
    BY <1>4, Opened
  <2>2. \A u \in Threads : todo[u] # <<>> => todo'[u] = todo[u]
    BY <2>1 DEF Idle, TypeOK
  <2>3. \A u \in Threads : \A names : Pending(u, names) => Pending(u, names)'
    BY <2>2, EmptySeq DEF Pending
  <2>4. pending' = pending /\ timer' = timer /\ timerRef' = timerRef
    BY <1>4 DEF External, RpcRequest, UpsertAlarm, DeleteAlarm, MqttMessage, Poll, SchedulerPass,
                roomVars
  <2> QED BY <1>0, <2>3, <2>4
<1>5. CASE Restart
  <2>1. "main" \in Threads
    BY <1>5, RestartAssumption DEF Restart, Threads
  <2>2. todo'["main"] = <<Plain("resumeAlarm"), Plain("resumePending")>>
    BY <1>5, <2>1 DEF Restart
  <2>3. 2 \in DOMAIN todo'["main"] /\ todo'["main"][2].op = "resumePending"
    BY <2>2 DEF Plain
  <2>4. Pending("main", Settling)'
    BY <2>3 DEF Pending, Settling
  <2> QED BY <1>0, <2>1, <2>4
<1>6. CASE UNCHANGED vars
  BY <1>6 DEF vars, roomVars, PendingKept, Pending
<1>7. CASE \E t \in Threads : Step(t)
  <2>1. PICK t \in Threads : Step(t)
    BY <1>7
  <2>2. todo[t] # <<>>
    BY <2>1, ByName
  <2> QED BY <1>1, <1>2, <2>1, <2>2, StepCalls
<1> QED BY <1>3, <1>4, <1>5, <1>6, <1>7 DEF Next

\* An alarm is raised by the locked segment of set_mode("alarm") alone, and
\* acknowledge_alarm leaves none.
LEMMA AlarmFrame ==
    ASSUME NEW t \in Threads, Step(t)
    PROVE  /\ alarm = NoAlarm => \/ alarm' = NoAlarm
                                 \/ ApplyMode(t) /\ Top(t).op = "applyMode" /\ Top(t).mode = "alarm"
           /\ Top(t).op = "ack" => alarm' = NoAlarm
<1>1. CASE Top(t).op = "applyMode"
  BY <1>1, ByName DEF ApplyMode
<1>2. CASE Top(t).op = "ack"
  BY <1>2, ByName DEF Acknowledge
<1>3. CASE Top(t).op = "emit"
  BY <1>3, ByName DEF EmitEvent
<1>4. CASE Top(t).op \in {"cancelApply", "cancelFinish", "forceAlarm"}
  BY <1>4, ByName DEF CancelSleepApply, CancelSleepFinish, ForceAlarmMode
<1>5. CASE Top(t).op \in {"write", "setFlags"}
  BY <1>5, ByName DEF WriteLight, ChangeFlags
<1> QED BY <1>1, <1>2, <1>3, <1>4, <1>5, Untouched

\* A timer that fires and an external event other than a restart begin a
\* handler on an idle thread, and leave the mode and the alarm alone.
LEMMA Begun ==
    ASSUME TypeOK, (\E tm \in ModeTimers : FireTimer(tm)) \/ (External /\ ~Restart)
    PROVE  /\ mode' = mode /\ workReturn' = workReturn /\ sleepRestore' = sleepRestore
           /\ alarm' = alarm /\ alarmRestore' = alarmRestore /\ flags' = flags
           /\ \E t \in Threads : \E ops :
                /\ Idle(t) /\ Opening(t, ops) /\ DOMAIN ops = 1..Len(ops)
                /\ todo'[t] = ops /\ todo[t] = <<>>
                /\ \A u \in Threads \ {t} : todo'[u] = todo[u]
                /\ \A i \in DOMAIN ops : ops[i] \in Openings(t)
<1>1. /\ mode' = mode /\ workReturn' = workReturn /\ sleepRestore' = sleepRestore
      /\ alarm' = alarm /\ alarmRestore' = alarmRestore /\ flags' = flags
  <2>1. ASSUME NEW tm \in ModeTimers, FireTimer(tm)
        PROVE  /\ mode' = mode /\ workReturn' = workReturn /\ sleepRestore' = sleepRestore
               /\ alarm' = alarm /\ alarmRestore' = alarmRestore /\ flags' = flags
    BY <2>1 DEF FireTimer, roomVars
  <2>2. CASE External /\ ~Restart
    BY <2>2 DEF External, RpcRequest, UpsertAlarm, DeleteAlarm, MqttMessage, Poll, SchedulerPass,
        roomVars
  <2> QED BY <2>1, <2>2
<1>2. PICK t \in Threads : \E ops :
            Idle(t) /\ todo' = [todo EXCEPT ![t] = ops] /\ Opening(t, ops)
  BY Opened
<1>3. PICK ops : Idle(t) /\ todo' = [todo EXCEPT ![t] = ops] /\ Opening(t, ops)
  BY <1>2
<1>4. todo'[t] = ops /\ todo[t] = <<>> /\ \A u \in Threads \ {t} : todo'[u] = todo[u]
  BY <1>3 DEF TypeOK, Idle
<1>5. DOMAIN ops = 1..Len(ops) /\ \A i \in 1..Len(ops) : ops[i] \in Openings(t)
  BY <1>3, LenProperties, ElementOfSeq DEF Opening
<1> QED BY <1>1, <1>3, <1>4, <1>5

-----------------------------------------------------------------------------
(* The acknowledgement before a mode change *)

\* A mode change that is called for with an alarm active has acknowledge_alarm
\* above it.
Prepared ==
    \A t \in Threads : \A i \in DOMAIN todo[t] :
        IsChange(todo[t][i]) =>
            alarm = NoAlarm \/ \E j \in 1..(i - 1) : todo[t][j].op = "ack"

\* A mode change that an operation calls finds no alarm, or its
\* acknowledgement stands above it.
LEMMA CallsPrepared ==
    ASSUME TypeOK, Prepared, NEW t \in Threads, Step(t)
    PROVE  \/ \E ops :
                /\ Continue(t, ops) /\ MayCall(Top(t), ops)
                /\ \A i \in DOMAIN ops : IsChange(ops[i]) =>
                        alarm' = NoAlarm \/ \E j \in 1..(i - 1) : ops[j].op = "ack"
           \/ StartTimer(t) /\ todo' = [todo EXCEPT ![t] = <<>>]
<1> DEFINE o == Top(t)
<1>1. CASE o.op = "setMode"
  <2>1. EnterSetMode(t)
    BY <1>1, ByName
  <2>2. PICK ops : /\ Continue(t, ops) /\ MayCall(o, ops)
                   /\ o.mode = "alarm" /\ alarm # NoAlarm => ops = <<>>
                   /\ AcknowledgesFirst(o) => 1 \in DOMAIN ops /\ ops[1].op = "ack"
    BY <2>1, EnterSetModeCalls
  <2>3. alarm' = alarm
    BY <1>1, Untouched
  <2>4. ASSUME NEW i \in DOMAIN ops, IsChange(ops[i]), alarm # NoAlarm
        PROVE  \E j \in 1..(i - 1) : ops[j].op = "ack"
    <3>1. ops \in Seq(Ops) /\ DOMAIN ops = 1..Len(ops) /\ Len(ops) \in Nat
      BY <2>2, CallableOps, LenProperties DEF MayCall
    <3>2. o.mode # "alarm"
      BY <2>2, <2>4, EmptySeq
    <3>3. o.why # "alarm_restore"
      <4>1. 1 \in DOMAIN todo[t] /\ o = todo[t][1]
        BY <2>1, LenProperties, EmptySeq, HeadTailProperties DEF EnterSetMode, At, TypeOK, Top
      <4>2. ~ \E j \in 1..(1 - 1) : todo[t][j].op = "ack"
        OBVIOUS
      <4>3. ~IsChange(o)
        BY <2>4, <4>1, <4>2 DEF Prepared
      <4> QED BY <1>1, <4>3 DEF IsChange
    <3>4. 1 \in DOMAIN ops /\ ops[1].op = "ack"
      BY <2>2, <2>4, <3>2, <3>3 DEF AcknowledgesFirst
    <3>5. i # 1
      BY <2>4, <3>4 DEF IsChange
    <3>6. 1 \in 1..(i - 1)
      BY <3>1, <3>5
    <3> QED BY <3>4, <3>6
  <2> QED BY <2>2, <2>3, <2>4
<1>2. CASE o.op # "setMode"
  <2>1. ASSUME NEW ops, MayCall(o, ops), NEW i \in DOMAIN ops, IsChange(ops[i])
        PROVE  alarm' = NoAlarm
    <3>1. Calls(o, ops[i])
      BY <2>1, CallableOps DEF MayCall
    <3>2. o.op = "ack"
      BY <1>2, <2>1, <3>1 DEF Calls
    <3> QED BY <3>2, AlarmFrame
  <2> QED BY <2>1, StepCalls
<1> QED BY <1>1, <1>2

\* Nobody is about to change the mode while set_mode("alarm") raises its alarm.
LEMMA AlarmAlone ==
    ASSUME IInv, OrderInv, NEW t \in Threads, ApplyMode(t), Top(t).mode = "alarm",
           NEW u \in Threads, NEW i \in DOMAIN todo[u]
    PROVE  ~IsChange(todo[u][i])
<1> SUFFICES ASSUME IsChange(todo[u][i]) PROVE FALSE
  OBVIOUS
<1>0. TypeOK /\ todo[t] # <<>> /\ Top(t).op = "applyMode"
  BY TopOp DEF IInv, ApplyMode
<1>1. /\ todo[t] \in Seq(Ops) /\ 1 \in DOMAIN todo[t] /\ todo[t][1] = Top(t)
      /\ todo[u] \in Seq(Ops) /\ DOMAIN todo[u] = 1..Len(todo[u]) /\ Len(todo[u]) \in Nat
  BY <1>0, LenProperties, EmptySeq, HeadTailProperties DEF TypeOK, Top
<1>2. HoldsCommand(t)
  BY <1>0, <1>1 DEF IInv, StacksOK, Guarded, CommandOps, HoldsCommand, Pending
<1>3. HoldsCommand(u)
  <2>1. CASE todo[u][i].op = "applyMode"
    BY <2>1 DEF IInv, StacksOK, Guarded, CommandOps, HoldsCommand, Pending
  <2>2. CASE todo[u][i].op = "setMode" /\ todo[u][i].why = "alarm_restore"
    BY <2>2 DEF OrderInv, Complete, Below, HoldsCommand, Pending
  <2> QED BY <2>1, <2>2 DEF IsChange
<1>4. u = t
  BY <1>2, <1>3 DEF IInv, OneHolder
<1>5. i # 1
  BY <1>0, <1>1, <1>4 DEF IsChange
<1>6. 1 \in 1..(i - 1)
  BY <1>1, <1>5
<1>7. Over(todo[u][1], todo[u][i])
  BY <1>6 DEF OrderInv, Orderly
<1> QED BY <1>0, <1>1, <1>4, <1>7 DEF Over, Calm

\* Every step keeps the mode changes prepared ...
LEMMA PreparedPreserved ==
    ASSUME IInv, OrderInv, Prepared, [Next]_vars
    PROVE  Prepared'
<1>0. TypeOK
  BY DEF IInv
<1> DEFINE done(s, i) == \E j \in 1..(i - 1) : s[j].op = "ack"
<1>1. ASSUME NEW t \in Threads, Step(t), NEW ops, Continue(t, ops), MayCall(Top(t), ops),
             \A i \in DOMAIN ops : IsChange(ops[i]) => alarm' = NoAlarm \/ done(ops, i)
      PROVE  Prepared'
  <2>1. todo[t] # <<>>
    BY <1>1, ByName
  <2>2. CASE ApplyMode(t) /\ Top(t).op = "applyMode" /\ Top(t).mode = "alarm"
    <3>1. \A u \in Threads : \A i \in DOMAIN todo[u] : ~IsChange(todo[u][i])
      BY <2>2, AlarmAlone
    <3>2. \A i \in DOMAIN ops : ~IsChange(ops[i])
      <4>1. \A i \in DOMAIN ops : Calls(Top(t), ops[i])
        BY <1>1, CallableOps DEF MayCall
      <4> QED BY <2>2, <4>1 DEF Calls
    <3>3. \A u \in Threads : \A i \in DOMAIN todo'[u] : ~IsChange(todo'[u][i])
      <4>1. \A i \in DOMAIN todo'[t] : ~IsChange(todo'[t][i])
        BY <1>0, <1>1, <2>1, <3>1, <3>2, CalledStack
      <4>2. \A u \in Threads \ {t} : todo'[u] = todo[u]
        BY <1>0, <1>1, <2>1, CalledStack
      <4> QED BY <3>1, <4>1, <4>2
    <3> QED BY <3>3 DEF Prepared, IsChange
  <2>3. CASE ~(ApplyMode(t) /\ Top(t).op = "applyMode" /\ Top(t).mode = "alarm")
    <3>1. alarm = NoAlarm => alarm' = NoAlarm
      BY <1>1, <2>3, AlarmFrame
    <3>2. ASSUME NEW u \in Threads, NEW i \in DOMAIN todo'[u], IsChange(todo'[u][i]),
                 alarm' # NoAlarm
          PROVE  done(todo'[u], i)
      <4>1. CASE u # t
        <5>1. todo'[u] = todo[u]
          BY <1>0, <1>1, <2>1, <4>1, CalledStack
        <5> QED BY <3>1, <3>2, <5>1 DEF Prepared
      <4>2. CASE u = t /\ i \in DOMAIN ops /\ todo'[t][i] = ops[i]
        <5>1. PICK j \in 1..(i - 1) : ops[j].op = "ack"
          BY <1>1, <3>2, <4>2
        <5>2. j \in DOMAIN ops
          <6>1. ops \in Seq(Ops)
            BY <1>1, CallableOps DEF MayCall
          <6> QED BY <4>2, <5>1, <6>1, LenProperties
        <5>3. todo'[t][j] = ops[j]
          BY <1>0, <1>1, <2>1, <5>2, CalledStack
        <5> QED BY <4>2, <5>1, <5>3
      <4>3. CASE /\ u = t /\ i - Len(ops) + 1 \in DOMAIN todo[t] /\ i - Len(ops) + 1 # 1
                 /\ todo'[t][i] = todo[t][i - Len(ops) + 1]
        <5> DEFINE k == i - Len(ops) + 1
        <5>1. PICK j \in 1..(k - 1) : todo[t][j].op = "ack"
          BY <3>1, <3>2, <4>3 DEF Prepared
        <5>2. /\ todo[t] \in Seq(Ops) /\ Len(ops) \in Nat /\ Top(t) = todo[t][1]
              /\ DOMAIN todo[t] = 1..Len(todo[t]) /\ Len(todo[t]) \in Nat
          BY <1>0, <1>1, <2>1, CalledStack, LenProperties
        <5>3. j # 1
          <6>1. Top(t).op # "ack"
            BY <1>1, <3>2, AlarmFrame
          <6> QED BY <5>1, <5>2, <6>1
        <5>4. k \in 1..Len(todo[t]) /\ j \in DOMAIN todo[t]
          BY <4>3, <5>1, <5>2
        <5>5. todo'[t][j - 1 + Len(ops)] = todo[t][j]
          BY <1>0, <1>1, <2>1, <5>3, <5>4, CalledStack
        <5>6. j - 1 + Len(ops) \in 1..(i - 1)
          <6>1. i \in Int
            <7>1. todo'[t] = ops \o Tail(todo[t]) /\ ops \in Seq(Ops) /\ todo[t] \in Seq(Ops)
              BY <1>0, <1>1, <2>1, CalledStack
            <7>2. DOMAIN todo'[t] = 1..Len(todo'[t])
              BY <2>1, <7>1, CalledFirst
            <7> QED BY <3>2, <4>3, <7>2
          <6> HIDE DEF k
          <6>2. i = k + Len(ops) - 1
            BY <5>2, <5>4, <6>1 DEF k
          <6> QED BY <5>1, <5>2, <5>3, <5>4, <6>1, <6>2
        <5> QED BY <4>3, <5>1, <5>5, <5>6
      <4> QED BY <1>0, <1>1, <2>1, <3>2, <4>1, <4>2, <4>3, CalledStack
    <3> QED BY <3>2 DEF Prepared, IsChange
  <2> QED BY <2>2, <2>3
<1>2. ASSUME NEW t \in Threads, StartTimer(t), todo' = [todo EXCEPT ![t] = <<>>]
      PROVE  Prepared'
  <2>1. alarm' = alarm
    BY <1>2 DEF StartTimer, roomVars
  <2>2. todo'[t] = <<>> /\ \A u \in Threads \ {t} : todo'[u] = todo[u]
    BY <1>0, <1>2 DEF TypeOK
  <2> QED BY <2>1, <2>2, EmptySeq DEF Prepared, IsChange
<1>3. CASE (\E tm \in ModeTimers : FireTimer(tm)) \/ (External /\ ~Restart)
  <2>1. PICK t \in Threads : \E ops :
                /\ todo'[t] = ops
                /\ \A u \in Threads \ {t} : todo'[u] = todo[u]
                /\ \A i \in DOMAIN ops : ops[i] \in Openings(t)
    BY <1>0, <1>3, Begun
  <2>2. \A i \in DOMAIN todo'[t] : ~IsChange(todo'[t][i])
    BY <2>1 DEF Openings
  <2>3. alarm' = alarm
    BY <1>0, <1>3, Begun
  <2> QED BY <2>1, <2>2, <2>3 DEF Prepared, IsChange
<1>4. CASE Restart
  <2>1. PICK p \in Ops, q \in Ops :
            /\ p = Plain("resumeAlarm") /\ p.op = "resumeAlarm"
            /\ q = Plain("resumePending") /\ q.op = "resumePending"
    BY PlainOp DEF PlainOps
  <2>2. \A t \in Threads : todo'[t] = <<p, q>> \/ todo'[t] = <<>>
    BY <1>4, <2>1 DEF Restart
  <2>3. \A i \in DOMAIN <<p, q>> : <<p, q>>[i] = p \/ <<p, q>>[i] = q
    OBVIOUS
  <2>4. \A t \in Threads : \A i \in DOMAIN todo'[t] : ~IsChange(todo'[t][i])
    BY <2>1, <2>2, <2>3, EmptySeq DEF IsChange
  <2> QED BY <2>4 DEF Prepared, IsChange
<1>5. CASE UNCHANGED vars
  BY <1>5 DEF vars, roomVars, Prepared, IsChange
<1>6. ASSUME NEW t \in Threads, Step(t) PROVE Prepared'
  BY <1>0, <1>1, <1>2, <1>6, CallsPrepared
<1> QED BY <1>3, <1>4, <1>5, <1>6 DEF Next

-----------------------------------------------------------------------------
(* What an alarm and a cancelled sleep find *)

\* What cancel_sleep gives back beside an active alarm is no lit mode: it began
\* while the alarm was active already, and found no snapshot.
FinishUnlit ==
    \A t \in Threads : \A i \in DOMAIN todo[t] :
        todo[t][i].op = "cancelFinish" /\ alarm # NoAlarm => todo[t][i].restore.mode \notin Scenes

\* The second half of cancel_sleep finds the work-return mark cleared.
FinishClean == \A t \in Threads : Pending(t, {"cancelFinish"}) => ~workReturn

\* A mode change that is about to be made finds no alarm.
LEMMA ChangeFindsNone ==
    ASSUME TypeOK, Prepared, NEW t \in Threads, ApplyMode(t), Top(t).mode # "alarm"
    PROVE  alarm = NoAlarm
<1>1. 1 \in DOMAIN todo[t] /\ Top(t) = todo[t][1] /\ Top(t).op = "applyMode"
  BY LenProperties, EmptySeq, HeadTailProperties DEF ApplyMode, At, TypeOK, Top
<1>2. ~ \E j \in 1..(1 - 1) : todo[t][j].op = "ack"
  OBVIOUS
<1> QED BY <1>1, <1>2 DEF Prepared, IsChange

LEMMA FinishedUnlit ==
    ASSUME TypeOK, FinishUnlit, NEW t \in Threads, Step(t), Top(t).op = "cancelFinish"
    PROVE  alarm # NoAlarm => Top(t).restore.mode \notin Scenes
<1>1. 1 \in DOMAIN todo[t] /\ Top(t) = todo[t][1]
  BY ByName, LenProperties, EmptySeq, HeadTailProperties DEF TypeOK, Top
<1> QED BY <1>1 DEF FinishUnlit

\* ... so that no step mixes an alarm with a sleep.
LEMMA AlarmCleanPreserved ==
    ASSUME TypeOK, Prepared, FinishUnlit, AlarmClean, [Next]_vars
    PROVE  AlarmClean'
<1>1. ASSUME NEW t \in Threads, Step(t) PROVE AlarmClean'
  <2>1. CASE Top(t).op = "applyMode"
    <3>0. ApplyMode(t)
      BY <1>1, <2>1, ByName
    <3>1. CASE Top(t).mode = "alarm"
      <4>1. /\ sleepRestore' = NoRestore /\ workReturn' = FALSE /\ mode' = "alarm"
            /\ alarmRestore'.mode = (IF mode = "alarm" THEN "off" ELSE mode)
        BY <3>0, <3>1 DEF ApplyMode, SleepSnapshot
      <4>2. alarmRestore'.mode # "alarm" /\ alarmRestore'.mode # "none"
        BY <4>1, NamesAssumption DEF TypeOK, Modes
      <4>3. NoRestore.mode = "none"
        BY DEF NoRestore
      <4> QED BY <4>1, <4>2, <4>3 DEF AlarmClean, NoRestore
    <3>2. CASE Top(t).mode # "alarm"
      <4>1. alarm = NoAlarm
        BY <3>0, <3>2, ChangeFindsNone
      <4>2. alarm' = alarm
        BY <3>0, <3>2 DEF ApplyMode
      <4> QED BY <4>1, <4>2 DEF AlarmClean, NoAlarm
    <3> QED BY <3>1, <3>2
  <2>2. CASE Top(t).op = "ack"
    BY <1>1, <2>2, ByName DEF Acknowledge, AlarmClean, NoAlarm
  <2>3. CASE Top(t).op = "emit"
    BY <1>1, <2>3, ByName DEF EmitEvent, AlarmClean, NoAlarm, NoRestore
  <2>4. CASE Top(t).op = "cancelApply"
    BY <1>1, <2>4, ByName DEF CancelSleepApply, AlarmClean, NoAlarm, NoRestore
  <2>5. CASE Top(t).op = "cancelFinish"
    <3>1. /\ mode' = GivenBackMode(Top(t).restore) /\ sleepRestore' = NoRestore
          /\ workReturn' = workReturn /\ alarm' = alarm /\ alarmRestore' = alarmRestore
      BY <1>1, <2>5, ByName DEF CancelSleepFinish
    <3>2. alarm # NoAlarm => Top(t).restore.mode \notin Scenes
      BY <1>1, <2>5, FinishedUnlit
    <3> QED BY <3>1, <3>2 DEF GivenBackMode, AlarmClean, NoAlarm
  <2>6. CASE Top(t).op = "forceAlarm"
    BY <1>1, <2>6, ByName DEF ForceAlarmMode, AlarmClean, NoAlarm, NoRestore
  <2>7. CASE Top(t).op = "write"
    BY <1>1, <2>7, ByName DEF WriteLight, AlarmClean, NoAlarm, NoRestore
  <2>8. CASE Top(t).op = "setFlags"
    BY <1>1, <2>8, ByName DEF ChangeFlags, AlarmClean, NoAlarm, NoRestore
  <2> QED BY <1>1, <2>1, <2>2, <2>3, <2>4, <2>5, <2>6, <2>7, <2>8, Untouched
          DEF AlarmClean, NoAlarm, NoRestore
<1>2. CASE (\E tm \in ModeTimers : FireTimer(tm)) \/ (External /\ ~Restart)
  BY <1>2, Begun DEF AlarmClean, NoAlarm, NoRestore
<1>3. CASE Restart
  BY <1>3 DEF Restart, AlarmClean, NoAlarm, NoRestore
<1>4. CASE UNCHANGED vars
  BY <1>4 DEF vars, roomVars, AlarmClean, NoAlarm, NoRestore
<1> QED BY <1>1, <1>2, <1>3, <1>4 DEF Next

\* Who will finish cancelling a sleep after a step: who was going to before,
\* with the same snapshot, or the thread that has just begun to.
LEMMA FinishSource ==
    ASSUME TypeOK, [Next]_vars, NEW u \in Threads,
           NEW i \in DOMAIN todo'[u], todo'[u][i].op = "cancelFinish"
    PROVE  \/ \E k \in DOMAIN todo[u] : todo[u][k] = todo'[u][i]
           \/ CancelSleepApply(u) /\ todo'[u][i].restore = sleepRestore
<1> DEFINE Source == \/ \E k \in DOMAIN todo[u] : todo[u][k] = todo'[u][i]
                     \/ CancelSleepApply(u) /\ todo'[u][i].restore = sleepRestore
<1>1. ASSUME NEW t \in Threads, Step(t) PROVE Source
  <2>0. todo[t] # <<>>
    BY <1>1, ByName
  <2>1. CASE StartTimer(t) /\ todo' = [todo EXCEPT ![t] = <<>>]
    <3>1. todo'[t] = <<>> /\ (u # t => todo'[u] = todo[u])
      BY <2>1 DEF TypeOK
    <3> QED BY <3>1, EmptySeq
  <2>2. ASSUME NEW ops, Continue(t, ops), MayCall(Top(t), ops) PROVE Source
    <3>1. CASE u # t
      BY <2>0, <2>2, <3>1, CalledStack
    <3>2. CASE u = t
      <4>2. CASE i \in DOMAIN ops /\ todo'[t][i] = ops[i]
        <5>1. Calls(Top(t), ops[i])
          BY <2>2, <4>2, CallableOps DEF MayCall
        <5>2. Top(t).op = "cancelApply" /\ ops[i].restore = sleepRestore
          BY <3>2, <4>2, <5>1 DEF Calls
        <5> QED BY <1>1, <3>2, <4>2, <5>2, ByName
      <4>3. CASE \E k \in DOMAIN todo[t] : todo'[t][i] = todo[t][k]
        BY <3>2, <4>3
      <4> QED BY <2>0, <2>2, <3>2, <4>2, <4>3, CalledStack
    <3> QED BY <3>1, <3>2
  <2> QED BY <1>1, <2>1, <2>2, StepCalls
<1>2. CASE (\E tm \in ModeTimers : FireTimer(tm)) \/ (External /\ ~Restart)
  <2>1. PICK t \in Threads : \E ops :
                /\ todo'[t] = ops
                /\ \A v \in Threads \ {t} : todo'[v] = todo[v]
                /\ \A j \in DOMAIN ops : ops[j] \in Openings(t)
    BY <1>2, Begun
  <2>2. \A j \in DOMAIN todo'[t] : todo'[t][j].op # "cancelFinish"
    BY <2>1 DEF Openings
  <2> QED BY <2>1, <2>2
<1>3. CASE Restart
  <2>1. PICK p \in Ops, q \in Ops :
            /\ p = Plain("resumeAlarm") /\ p.op = "resumeAlarm"
            /\ q = Plain("resumePending") /\ q.op = "resumePending"
    BY PlainOp DEF PlainOps
  <2>2. todo'[u] = <<p, q>> \/ todo'[u] = <<>>
    BY <1>3, <2>1 DEF Restart
  <2>3. \A j \in DOMAIN <<p, q>> : <<p, q>>[j] = p \/ <<p, q>>[j] = q
    OBVIOUS
  <2> QED BY <2>1, <2>2, <2>3, EmptySeq
<1>4. CASE UNCHANGED vars
  BY <1>4 DEF vars
<1> QED BY <1>1, <1>2, <1>3, <1>4 DEF Next

LEMMA Finishing ==
    ASSUME TypeOK, [Next]_vars, NEW u \in Threads, Pending(u, {"cancelFinish"})'
    PROVE  Pending(u, {"cancelFinish"}) \/ CancelSleepApply(u)
<1>1. PICK i \in DOMAIN todo'[u] : todo'[u][i].op = "cancelFinish"
  BY DEF Pending
<1> QED BY <1>1, FinishSource DEF Pending

\* No alarm becomes active while a cancel_sleep is between its two halves.
LEMMA FinishUnlitPreserved ==
    ASSUME IInv, AlarmClean, FinishUnlit, [Next]_vars
    PROVE  FinishUnlit'
<1> SUFFICES ASSUME NEW u \in Threads, NEW i \in DOMAIN todo'[u],
                    todo'[u][i].op = "cancelFinish", alarm' # NoAlarm
             PROVE  todo'[u][i].restore.mode \notin Scenes
  BY DEF FinishUnlit, NoAlarm
<1>0. TypeOK
  BY DEF IInv
<1>1. CASE CancelSleepApply(u) /\ todo'[u][i].restore = sleepRestore
  <2>1. alarm # NoAlarm
    BY <1>1 DEF CancelSleepApply
  <2>2. todo'[u][i].restore.mode = "none"
    BY <1>1, <2>1 DEF AlarmClean, NoRestore
  <2> QED BY <2>2, NamesAssumption
<1>2. CASE \E k \in DOMAIN todo[u] : todo[u][k] = todo'[u][i]
  <2>1. PICK k \in DOMAIN todo[u] : todo[u][k] = todo'[u][i]
    BY <1>2
  <2>2. CASE alarm # NoAlarm
    BY <2>1, <2>2 DEF FinishUnlit
  <2>3. CASE alarm = NoAlarm
    <3>1. \A t \in Threads : ~ApplyMode(t)
      <4>1. Pending(u, {"cancelFinish"})
        BY <2>1 DEF Pending
      <4> QED BY <4>1, NoneFinishing
    <3>2. ASSUME NEW t \in Threads, Step(t) PROVE FALSE
      BY <2>3, <3>1, <3>2, AlarmFrame
    <3>3. CASE (\E tm \in ModeTimers : FireTimer(tm)) \/ (External /\ ~Restart)
      BY <1>0, <2>3, <3>3, Begun
    <3>4. CASE Restart \/ UNCHANGED vars
      BY <2>3, <3>4 DEF Restart, vars, roomVars
    <3> QED BY <3>2, <3>3, <3>4 DEF Next
  <2> QED BY <2>2, <2>3
<1> QED BY <1>0, <1>1, <1>2, FinishSource

\* The work-return mark is set by the locked segment of set_mode alone, while
\* nobody is finishing a cancel_sleep.
LEMMA WorkReturnFrame ==
    ASSUME TypeOK, Next, \A t \in Threads : ~ApplyMode(t)
    PROVE  ~workReturn => ~workReturn'
<1>1. ASSUME NEW t \in Threads, Step(t) PROVE ~workReturn => ~workReturn'
  <2>1. CASE Top(t).op = "ack"
    BY <1>1, <2>1, ByName DEF Acknowledge
  <2>2. CASE Top(t).op = "emit"
    BY <1>1, <2>2, ByName DEF EmitEvent
  <2>3. CASE Top(t).op \in {"cancelApply", "cancelFinish", "forceAlarm"}
    BY <1>1, <2>3, ByName DEF CancelSleepApply, CancelSleepFinish, ForceAlarmMode
  <2>4. CASE Top(t).op \in {"write", "setFlags"}
    BY <1>1, <2>4, ByName DEF WriteLight, ChangeFlags
  <2>5. Top(t).op # "applyMode"
    BY <1>1, ByName
  <2> QED BY <1>1, <2>1, <2>2, <2>3, <2>4, <2>5, Untouched
<1>2. CASE (\E tm \in ModeTimers : FireTimer(tm)) \/ (External /\ ~Restart)
  BY <1>2, Begun
<1>3. CASE Restart
  BY <1>3 DEF Restart
<1> QED BY <1>1, <1>2, <1>3 DEF Next

LEMMA FinishCleanPreserved ==
    ASSUME IInv, FinishClean, [Next]_vars
    PROVE  FinishClean'
<1> SUFFICES ASSUME NEW u \in Threads, Pending(u, {"cancelFinish"})' PROVE ~workReturn'
  BY DEF FinishClean
<1>0. TypeOK
  BY DEF IInv
<1>1. CASE CancelSleepApply(u)
  BY <1>1 DEF CancelSleepApply
<1>2. CASE Pending(u, {"cancelFinish"})
  <2>1. ~workReturn
    BY <1>2 DEF FinishClean
  <2>2. \A t \in Threads : ~ApplyMode(t)
    BY <1>2, NoneFinishing
  <2>3. CASE UNCHANGED vars
    BY <2>1, <2>3 DEF vars, roomVars
  <2> QED BY <1>0, <2>1, <2>2, <2>3, WorkReturnFrame
<1> QED BY <1>0, <1>1, <1>2, Finishing

\* A cancelFinish stays pending until it is executed: no exception unwinds it.
LEMMA StillFinishing ==
    ASSUME IInv, Next, ~Restart, NEW u \in Threads, Pending(u, {"cancelFinish"})
    PROVE  Pending(u, {"cancelFinish"})' \/ CancelSleepFinish(u)
<1>0. TypeOK
  BY DEF IInv
<1>1. ASSUME NEW t \in Threads, Step(t)
      PROVE  Pending(u, {"cancelFinish"})' \/ CancelSleepFinish(u)
  <2>0. todo[t] # <<>>
    BY <1>1, ByName
  <2>1. CASE StartTimer(t) /\ todo' = [todo EXCEPT ![t] = <<>>]
    <3>1. u # t
      <4>1. /\ todo[t] # <<>> /\ Top(t).op = "startTimer" /\ ~Harmless(Top(t))
        BY <1>0, <2>1, TopOp DEF StartTimer
      <4>2. todo[t] \in Seq(Ops) /\ 1 \in DOMAIN todo[t] /\ todo[t][1] = Top(t)
            /\ DOMAIN todo[t] = 1..Len(todo[t]) /\ Len(todo[t]) \in Nat
        BY <1>0, <4>1, LenProperties, EmptySeq, HeadTailProperties DEF TypeOK, Top
      <4>3. ASSUME NEW i \in DOMAIN todo[t] PROVE todo[t][i].op # "cancelFinish"
        <5>1. CASE i = 1
          BY <4>1, <4>2, <5>1
        <5>2. CASE i # 1
          <6>1. 1 \in 1..(i - 1)
            BY <4>2, <5>2
          <6> QED BY <4>1, <4>2, <6>1 DEF IInv, StacksOK, Undisturbed
        <5> QED BY <5>1, <5>2
      <4> QED BY <4>3 DEF Pending
    <3>2. todo'[u] = todo[u]
      BY <1>0, <2>1, <3>1 DEF TypeOK
    <3> QED BY <3>2 DEF Pending
  <2>2. ASSUME NEW ops, Continue(t, ops), MayCall(Top(t), ops)
        PROVE  Pending(u, {"cancelFinish"})' \/ CancelSleepFinish(u)
    <3>1. CASE u = t => Top(t).op \notin {"cancelFinish"}
      BY <1>0, <2>0, <2>2, <3>1, StillPending
    <3>2. CASE u = t /\ Top(t).op = "cancelFinish"
      BY <1>1, <3>2, ByName
    <3> QED BY <3>1, <3>2
  <2> QED BY <1>0, <1>1, <2>1, <2>2, StepCalls
<1>2. CASE (\E tm \in ModeTimers : FireTimer(tm)) \/ (External /\ ~Restart)
  <2>1. PICK t \in Threads : /\ todo[t] = <<>>
                             /\ \A v \in Threads \ {t} : todo'[v] = todo[v]
    BY <1>0, <1>2, Begun
  <2>2. u # t
    BY <2>1, EmptySeq DEF Pending
  <2> QED BY <2>1, <2>2 DEF Pending
<1> QED BY <1>1, <1>2 DEF Next

LEMMA LeavesNothingPreserved ==
    ASSUME IInv, Prepared, AlarmClean, FinishClean, SleepLeavesNothing, [Next]_vars
    PROVE  SleepLeavesNothing'
<1> DEFINE finishing == \E t \in Threads : Pending(t, {"cancelFinish"})
           left == workReturn \/ sleepRestore # NoRestore
<1>0. TypeOK /\ (left => mode \in {"sleep", "alarm"} \/ finishing)
  BY DEF IInv, SleepLeavesNothing
<1>a. ~left' \/ mode' \in {"sleep", "alarm"} \/ finishing' => SleepLeavesNothing'
  BY DEF SleepLeavesNothing, NoRestore
<1>1. CASE UNCHANGED vars
  BY <1>1 DEF vars, roomVars, SleepLeavesNothing, NoRestore, Pending
<1>2. CASE Restart
  <2>1. sleepRestore' = NoRestore /\ (mode = "sleep" => ~workReturn')
        /\ (mode # "sleep" => workReturn' = workReturn /\ mode' = mode)
    BY <1>2 DEF Restart
  <2>2. finishing => ~workReturn
    BY DEF FinishClean
  <2> QED BY <1>0, <1>a, <2>1, <2>2 DEF NoRestore
<1>3. CASE Next /\ ~Restart
  <2>0. finishing => finishing' \/ \E t \in Threads : CancelSleepFinish(t)
    BY <1>3, StillFinishing
  <2> DEFINE fine == ~left' \/ mode' \in {"sleep", "alarm"} \/ finishing'
  <2>2. ASSUME NEW t \in Threads, CancelSleepFinish(t) PROVE fine
    <3>1. ~workReturn
      <4>1. Pending(t, {"cancelFinish"})
        <5>1. 1 \in DOMAIN todo[t] /\ todo[t][1].op = "cancelFinish"
          BY <1>0, <2>2, LenProperties, EmptySeq, HeadTailProperties
          DEF CancelSleepFinish, At, TypeOK
        <5> QED BY <5>1 DEF Pending
      <4> QED BY <4>1 DEF FinishClean
    <3> QED BY <2>2, <3>1 DEF CancelSleepFinish, NoRestore
  <2>3. ASSUME ~(\E t \in Threads : CancelSleepFinish(t)) PROVE fine
    <3>0. finishing => finishing'
      BY <2>0, <2>3
    <3>1. ASSUME NEW t \in Threads, Step(t) PROVE fine
      <4>1. CASE Top(t).op = "applyMode"
        BY <3>1, <4>1, ByName DEF ApplyMode, SleepSnapshot, NoRestore
      <4>2. CASE Top(t).op = "ack"
        <5>1. Acknowledge(t) /\ workReturn' = workReturn /\ sleepRestore' = sleepRestore
          BY <3>1, <4>2, ByName DEF Acknowledge
        <5>2. CASE alarm = NoAlarm
          <6>1. mode' = mode
            BY <5>1, <5>2 DEF Acknowledge
          <6> QED BY <1>0, <3>0, <5>1, <6>1 DEF NoRestore
        <5>3. CASE alarm # NoAlarm
          BY <5>1, <5>3 DEF AlarmClean, NoRestore
        <5> QED BY <5>2, <5>3
      <4>3. CASE Top(t).op = "emit"
        BY <1>0, <3>0, <3>1, <4>3, ByName DEF EmitEvent, NoRestore
      <4>4. CASE Top(t).op = "cancelApply"
        <5>1. CancelSleepApply(t)
          BY <3>1, <4>4, ByName
        <5>2. PICK ops : /\ Continue(t, ops) /\ MayCall(Top(t), ops)
                         /\ \E i \in DOMAIN ops : ops[i].op = "cancelFinish"
          BY <1>0, <5>1, CancelSleepCalls
        <5>3. Pending(t, {"cancelFinish"})'
          BY <1>0, <3>1, <5>2, ByName, NewlyPending
        <5> QED BY <5>3
      <4>5. CASE Top(t).op = "cancelFinish"
        BY <2>2, <3>1, <4>5, ByName
      <4>6. CASE Top(t).op = "forceAlarm"
        BY <3>1, <4>6, ByName DEF ForceAlarmMode
      <4>7. CASE Top(t).op = "write"
        BY <1>0, <3>0, <3>1, <4>7, ByName DEF WriteLight, NoRestore
      <4>8. CASE Top(t).op = "setFlags"
        BY <1>0, <3>0, <3>1, <4>8, ByName DEF ChangeFlags, NoRestore
      <4> QED BY <1>0, <3>0, <3>1, <4>1, <4>2, <4>3, <4>4, <4>5, <4>6, <4>7, <4>8, Untouched
              DEF NoRestore
    <3>2. ASSUME (\E tm \in ModeTimers : FireTimer(tm)) \/ External PROVE fine
      <4>1. mode' = mode /\ workReturn' = workReturn /\ sleepRestore' = sleepRestore
        BY <1>0, <1>3, <3>2, Begun
      <4> QED BY <1>0, <3>0, <4>1 DEF NoRestore
    <3> HIDE DEF fine
    <3> QED BY <1>3, <3>1, <3>2 DEF Next
  <2> QED BY <1>a, <2>2, <2>3
<1> QED BY <1>1, <1>2, <1>3

-----------------------------------------------------------------------------
(* The evening sleep *)

\* An operation that is going to change the mode for the evening sleep.
EveningChange(q) == q.op \in {"setMode", "applyMode"} /\ q.why = "evening"

\* While the evening sleep is on its way, its flag is not set.
EveningUndone ==
    \A t \in Threads : \A i \in DOMAIN todo[t] :
        EveningChange(todo[t][i]) => ~flags.eveningDone

LEMMA EveningFrame ==
    ASSUME TypeOK, NEW t \in Threads, Step(t), ~flags.eveningDone, flags'.eveningDone
    PROVE  ApplyMode(t) /\ EveningChange(Top(t))
<1>1. CASE Top(t).op = "applyMode"
  <2>1. ApplyMode(t)
    BY <1>1, ByName
  <2>2. Top(t).why = "evening"
    BY <2>1 DEF ApplyMode, TypeOK
  <2> QED BY <1>1, <2>1, <2>2 DEF EveningChange
<1>2. CASE Top(t).op = "ack"
  BY <1>2, ByName DEF Acknowledge
<1>3. CASE Top(t).op = "emit"
  BY <1>3, ByName DEF EmitEvent
<1>4. CASE Top(t).op = "cancelApply"
  BY <1>4, ByName DEF CancelSleepApply, TypeOK
<1>5. CASE Top(t).op \in {"cancelFinish", "forceAlarm"}
  BY <1>5, ByName DEF CancelSleepFinish, ForceAlarmMode
<1>6. CASE Top(t).op = "write"
  BY <1>6, ByName DEF WriteLight
<1>7. CASE Top(t).op = "setFlags"
  <2>1. ChangeFlags(t)
    BY <1>7, ByName
  <2> QED BY <2>1 DEF ChangeFlags, TypeOK, NoFlags
<1> QED BY <1>1, <1>2, <1>3, <1>4, <1>5, <1>6, <1>7, Untouched

\* The evening sleep is called for by its trigger alone, while it is due, or
\* by its own earlier half.
LEMMA CallsEvening ==
    ASSUME TypeOK, EveningUndone, NEW t \in Threads, Step(t)
    PROVE  \/ \E ops :
                /\ Continue(t, ops) /\ MayCall(Top(t), ops)
                /\ \A i \in DOMAIN ops : EveningChange(ops[i]) =>
                        ~flags.eveningDone /\ Top(t).op # "applyMode"
           \/ StartTimer(t) /\ todo' = [todo EXCEPT ![t] = <<>>]
<1> DEFINE o == Top(t)
<1>0. ASSUME NEW ops, MayCall(o, ops), NEW i \in DOMAIN ops, EveningChange(ops[i])
      PROVE  /\ o.op # "applyMode"
             /\ EveningChange(o) \/ (o.op = "emit" /\ o.type = "schedule_evening_sleep")
  <2>1. Calls(o, ops[i])
    BY <1>0, CallableOps DEF MayCall
  <2> QED BY <1>0, <2>1 DEF Calls, Evening, EveningChange
<1>1. CASE o.op = "emit"
  <2>1. PICK ops : /\ Continue(t, ops) /\ MayCall(o, ops)
                   /\ o.type = "schedule_evening_sleep" /\ ~EveningSleepDue => ops = <<>>
    BY <1>1, ByName, EmitCalls
  <2>2. ASSUME NEW i \in DOMAIN ops, EveningChange(ops[i]) PROVE ~flags.eveningDone
    <3>1. ops # <<>>
      BY <2>2, EmptySeq
    <3>2. o.type = "schedule_evening_sleep"
      BY <1>0, <1>1, <2>1, <2>2 DEF EveningChange
    <3> QED BY <2>1, <3>1, <3>2 DEF EveningSleepDue
  <2> QED BY <1>1, <2>1, <2>2
<1>2. CASE o.op # "emit"
  <2>1. 1 \in DOMAIN todo[t] /\ o = todo[t][1]
    BY ByName, LenProperties, EmptySeq, HeadTailProperties DEF TypeOK, Top
  <2>2. EveningChange(o) => ~flags.eveningDone
    BY <2>1 DEF EveningUndone
  <2> QED BY <1>0, <1>2, <2>2, StepCalls
<1> QED BY <1>1, <1>2

\* While the evening sleep is applied, no other is on its way.
LEMMA EveningAlone ==
    ASSUME TypeOK, OrderInv, NEW t \in Threads, todo[t] # <<>>, EveningChange(Top(t)),
           NEW u \in Threads, NEW i \in DOMAIN todo[u], EveningChange(todo[u][i])
    PROVE  u = t /\ i = 1
<1>1. /\ 1 \in DOMAIN todo[t] /\ todo[t][1] = Top(t)
      /\ DOMAIN todo[u] = 1..Len(todo[u]) /\ Len(todo[u]) \in Nat
  BY LenProperties, EmptySeq, HeadTailProperties DEF TypeOK, Top
<1>2. Evening(Top(t)) /\ Evening(todo[u][i])
  BY DEF Evening, EveningChange
<1>3. t = "scheduler" /\ u = "scheduler"
  BY <1>1, <1>2 DEF OrderInv, Warranted
<1>4. ASSUME i # 1 PROVE FALSE
  <2>1. 1 \in 1..(i - 1)
    BY <1>1, <1>4
  <2>2. Over(todo[u][1], todo[u][i])
    BY <2>1 DEF OrderInv, Orderly
  <2> QED BY <1>1, <1>2, <1>3, <2>2 DEF Over
<1> QED BY <1>3, <1>4

LEMMA EveningPreserved ==
    ASSUME TypeOK, OrderInv, EveningUndone, [Next]_vars
    PROVE  EveningUndone'
<1>1. ASSUME NEW t \in Threads, Step(t), NEW ops, Continue(t, ops), MayCall(Top(t), ops),
             \A i \in DOMAIN ops : EveningChange(ops[i]) =>
                    ~flags.eveningDone /\ Top(t).op # "applyMode"
      PROVE  EveningUndone'
  <2>1. todo[t] # <<>>
    BY <1>1, ByName
  <2>2. ASSUME NEW u \in Threads, NEW i \in DOMAIN todo'[u], EveningChange(todo'[u][i])
        PROVE  ~flags'.eveningDone
    <3>1. ASSUME NEW k \in DOMAIN todo[u], todo'[u][i] = todo[u][k], u # t \/ k # 1
          PROVE  ~flags'.eveningDone
      <4>1. ~flags.eveningDone
        BY <2>2, <3>1 DEF EveningUndone
      <4>2. ~EveningChange(Top(t))
        BY <2>1, <2>2, <3>1, EveningAlone
      <4> QED BY <1>1, <4>1, <4>2, EveningFrame
    <3>2. CASE u = t /\ i \in DOMAIN ops /\ todo'[t][i] = ops[i]
      <4>1. ~flags.eveningDone /\ Top(t).op # "applyMode"
        BY <1>1, <2>2, <3>2
      <4>2. ~ApplyMode(t)
        BY <4>1 DEF ApplyMode, At, Top
      <4> QED BY <1>1, <4>1, <4>2, EveningFrame
    <3>3. CASE u # t
      <4>1. todo'[u] = todo[u]
        BY <1>1, <2>1, <3>3, CalledStack
      <4> QED BY <3>1, <3>3, <4>1
    <3> QED BY <1>1, <2>1, <2>2, <3>1, <3>2, <3>3, CalledStack
  <2> QED BY <2>2 DEF EveningUndone, EveningChange
<1>2. ASSUME NEW t \in Threads, StartTimer(t), todo' = [todo EXCEPT ![t] = <<>>]
      PROVE  EveningUndone'
  <2>1. flags' = flags
    BY <1>2 DEF StartTimer, roomVars
  <2>2. todo'[t] = <<>> /\ \A u \in Threads \ {t} : todo'[u] = todo[u]
    BY <1>2 DEF TypeOK
  <2> QED BY <2>1, <2>2, EmptySeq DEF EveningUndone, EveningChange
<1>3. CASE (\E tm \in ModeTimers : FireTimer(tm)) \/ (External /\ ~Restart)
  <2>1. PICK t \in Threads : \E ops :
                /\ todo'[t] = ops
                /\ \A u \in Threads \ {t} : todo'[u] = todo[u]
                /\ \A i \in DOMAIN ops : ops[i] \in Openings(t)
    BY <1>3, Begun
  <2>2. \A i \in DOMAIN todo'[t] : ~EveningChange(todo'[t][i])
    BY <2>1 DEF Openings, EveningChange, Evening
  <2>3. flags' = flags
    BY <1>3, Begun
  <2> QED BY <2>1, <2>2, <2>3 DEF EveningUndone, EveningChange
<1>4. CASE Restart
  <2>1. PICK p \in Ops, q \in Ops :
            /\ p = Plain("resumeAlarm") /\ p.op = "resumeAlarm"
            /\ q = Plain("resumePending") /\ q.op = "resumePending"
    BY PlainOp DEF PlainOps
  <2>2. \A t \in Threads : todo'[t] = <<p, q>> \/ todo'[t] = <<>>
    BY <1>4, <2>1 DEF Restart
  <2>3. \A i \in DOMAIN <<p, q>> : <<p, q>>[i] = p \/ <<p, q>>[i] = q
    OBVIOUS
  <2>4. \A t \in Threads : \A i \in DOMAIN todo'[t] : ~EveningChange(todo'[t][i])
    BY <2>1, <2>2, <2>3, EmptySeq DEF EveningChange
  <2> QED BY <2>4 DEF EveningUndone, EveningChange
<1>5. CASE UNCHANGED vars
  BY <1>5 DEF vars, roomVars, EveningUndone, EveningChange
<1>6. ASSUME NEW t \in Threads, Step(t) PROVE EveningUndone'
  BY <1>1, <1>2, <1>6, CallsEvening
<1> QED BY <1>3, <1>4, <1>5, <1>6 DEF Next

LEMMA EveningOnce ==
    ASSUME TypeOK, EveningUndone, NEW t \in Threads, ApplyMode(t), Top(t).why = "evening"
    PROVE  ~flags.eveningDone
<1>1. 1 \in DOMAIN todo[t] /\ Top(t) = todo[t][1] /\ Top(t).op = "applyMode"
  BY LenProperties, EmptySeq, HeadTailProperties DEF ApplyMode, At, TypeOK, Top
<1> QED BY <1>1 DEF EveningUndone, EveningChange

-----------------------------------------------------------------------------
(* Alarm mode *)

\* What rings is what the mode says.
ModeIsAlarm == mode = "alarm" <=> alarm # NoAlarm

LEMMA ModeIsAlarmKept ==
    ASSUME TypeOK, Prepared, FinishUnlit, AlarmClean, ModeIsAlarm, [Next]_vars
    PROVE  \/ ModeIsAlarm'
           \/ \E t \in Threads : CancelSleepApply(t) \/ ForceAlarmMode(t)
<1> SUFFICES ASSUME \A t \in Threads : ~CancelSleepApply(t) /\ ~ForceAlarmMode(t)
             PROVE  mode' = "alarm" <=> alarm' # NoAlarm
  BY DEF ModeIsAlarm, NoAlarm
<1>0. mode = "alarm" <=> alarm # NoAlarm
  BY DEF ModeIsAlarm
<1>1. ASSUME NEW t \in Threads, Step(t) PROVE mode' = "alarm" <=> alarm' # NoAlarm
  <2>1. CASE Top(t).op = "applyMode"
    <3>0. ApplyMode(t)
      BY <1>1, <2>1, ByName
    <3>1. CASE Top(t).mode = "alarm"
      <4>1. mode' = "alarm" /\ alarm'.phase = "flashing"
        BY <3>0, <3>1 DEF ApplyMode
      <4> QED BY <4>1 DEF NoAlarm
    <3>2. CASE Top(t).mode # "alarm"
      <4>1. alarm = NoAlarm
        BY <3>0, <3>2, ChangeFindsNone
      <4>2. mode' # "alarm" /\ alarm' = alarm
        BY <3>0, <3>2 DEF ApplyMode
      <4> QED BY <4>1, <4>2 DEF NoAlarm
    <3> QED BY <3>1, <3>2
  <2>2. CASE Top(t).op = "ack"
    <3>0. Acknowledge(t)
      BY <1>1, <2>2, ByName
    <3>1. CASE alarm = NoAlarm
      BY <1>0, <3>0, <3>1 DEF Acknowledge, NoAlarm
    <3>2. CASE alarm # NoAlarm
      BY <3>0, <3>2 DEF Acknowledge, NoAlarm
    <3> QED BY <3>1, <3>2
  <2>3. CASE Top(t).op = "emit"
    <3>1. /\ mode' = mode
          /\ alarm' = alarm \/ (alarm # NoAlarm /\ alarm' = [alarm EXCEPT !.phase = "steady"])
      BY <1>1, <2>3, ByName DEF EmitEvent
    <3>2. alarm # NoAlarm => [alarm EXCEPT !.phase = "steady"].phase = "steady"
      BY DEF TypeOK, ActiveAlarms
    <3>3. NoAlarm.phase = "none"
      BY DEF NoAlarm
    <3> QED BY <1>0, <3>1, <3>2, <3>3 DEF NoAlarm
  <2>4. CASE Top(t).op = "cancelFinish"
    <3>1. mode' = GivenBackMode(Top(t).restore) /\ alarm' = alarm
      BY <1>1, <2>4, ByName DEF CancelSleepFinish
    <3>2. alarm # NoAlarm => Top(t).restore.mode \notin Scenes
      BY <1>1, <2>4, FinishedUnlit
    <3>3. "alarm" \notin Scenes
      BY NamesAssumption
    <3> QED BY <1>0, <3>1, <3>2, <3>3 DEF GivenBackMode, NoAlarm
  <2>7. Top(t).op \notin {"cancelApply", "forceAlarm"}
    BY <1>1, ByName
  <2>5. CASE Top(t).op = "write"
    <3>1. /\ alarm' = alarm
          /\ mode' = mode \/ (mode = "sleep" /\ mode' = RestoredMode)
      BY <1>1, <2>5, ByName DEF WriteLight
    <3>2. RestoredMode # "alarm"
      BY NamesAssumption DEF RestoredMode
    <3> QED BY <1>0, <3>1, <3>2 DEF NoAlarm
  <2>6. CASE Top(t).op = "setFlags"
    BY <1>0, <1>1, <2>6, ByName DEF ChangeFlags, NoAlarm
  <2> QED BY <1>0, <1>1, <2>1, <2>2, <2>3, <2>4, <2>5, <2>6, <2>7, Untouched DEF NoAlarm
<1>2. CASE (\E tm \in ModeTimers : FireTimer(tm)) \/ (External /\ ~Restart)
  BY <1>0, <1>2, Begun DEF NoAlarm
<1>3. CASE UNCHANGED vars
  BY <1>0, <1>3 DEF vars, roomVars, NoAlarm
<1>4. CASE Restart
  <2>1. RestoredMode # "alarm"
    BY NamesAssumption DEF RestoredMode
  <2> QED BY <1>0, <1>4, <2>1 DEF Restart, NoAlarm
<1> QED BY <1>1, <1>2, <1>3, <1>4 DEF Next

-----------------------------------------------------------------------------
(* The theorems about the stacks *)

\* The inductive invariant of all the properties above.
StackInv ==
    /\ IInv /\ OrderInv
    /\ PendingKept /\ Prepared /\ AlarmClean /\ FinishClean /\ SleepLeavesNothing
    /\ EveningUndone /\ FinishUnlit

LEMMA StackInit == Init => StackInv
<1> SUFFICES ASSUME Init PROVE StackInv
  OBVIOUS
<1>1. IInv /\ OrderInv
  BY InitEstablishes, OrderInit
<1>2. \A t \in Threads : DOMAIN todo[t] = {}
  BY EmptySeq DEF Init
<1>3. PendingKept /\ AlarmClean /\ SleepLeavesNothing
  BY DEF Init, PendingKept, AlarmClean, SleepLeavesNothing, NoAlarm
<1>4. Prepared /\ FinishClean /\ EveningUndone /\ FinishUnlit
  BY <1>2 DEF Prepared, FinishClean, EveningUndone, FinishUnlit, Pending
<1> QED BY <1>1, <1>3, <1>4 DEF StackInv

LEMMA StackNext == StackInv /\ [Next]_vars => StackInv'
<1> SUFFICES ASSUME StackInv, [Next]_vars PROVE StackInv'
  OBVIOUS
<1>0. TypeOK
  BY DEF StackInv, IInv
<1>1. IInv' /\ OrderInv'
  BY <1>0, StepPreserves, OrderPreserved DEF StackInv
<1>2. PendingKept' /\ Prepared' /\ AlarmClean' /\ FinishClean'
  BY <1>0, PendingPreserved, PreparedPreserved, AlarmCleanPreserved, FinishCleanPreserved
  DEF StackInv
<1>3. SleepLeavesNothing' /\ EveningUndone' /\ FinishUnlit'
  BY <1>0, LeavesNothingPreserved, EveningPreserved, FinishUnlitPreserved DEF StackInv
<1> QED BY <1>1, <1>2, <1>3 DEF StackInv

\* Every reachable state has its stacks in order.
THEOREM StackInvariance == Spec => []StackInv
BY StackInit, StackNext, PTL DEF Spec

\* The two locks of the runtime are always taken in the same order: a thread
\* that keeps _state_lock over several steps (set_override, the owner's
\* leaving) never waits for _command_lock meanwhile.
THEOREM LockOrderKept == Spec => []StateLockInnermost
<1>1. StackInv => StateLockInnermost
  BY LockOrder DEF StackInv, IInv
<1> QED BY StackInvariance, <1>1, PTL

\* A delayed mode change that is recorded has a started timer, or a thread in
\* the middle of cancelling, rescheduling or resuming it; also when the timer
\* of another thread's call is started instead of one's own, or the second
\* start of the same timer raises and unwinds the call.
THEOREM PendingIsServed == Spec => []PendingHasTimer
<1>1. StackInv => PendingHasTimer
  BY DEF StackInv, PendingKept, PendingHasTimer, Pending, Settling
<1> QED BY StackInvariance, <1>1, PTL

\* Neither the work-return mark nor the snapshot outlives the sleep, but for a
\* cancel_sleep that is still running and a forced alarm mode.
THEOREM NothingLeft == Spec => []SleepLeavesNothing
<1>1. StackInv => SleepLeavesNothing
  BY DEF StackInv
<1> QED BY StackInvariance, <1>1, PTL

\* Between two daily resets the evening sleep is applied at most once.
THEOREM EveningOncePerDay == Spec => EveningSleepOncePerDay
<1>1. StackInv /\ [Next]_vars =>
        [\A t \in Threads : ApplyMode(t) /\ Top(t).why = "evening" => ~flags.eveningDone]_vars
  BY EveningOnce DEF StackInv, IInv
<1> QED BY StackInvariance, <1>1, PTL DEF Spec, EveningSleepOncePerDay

\* Whatever cancels, acknowledges or restarts come between, an active alarm rings
\* over no sleep that could be given back under it; the mode beside it is alarm or
\* off, and it knows a mode other than alarm to go back to.
THEOREM AlarmCanReturn == Spec => []AlarmClean
<1>1. StackInv => AlarmClean
  BY DEF StackInv
<1> QED BY StackInvariance, <1>1, PTL

\* Alarm mode and the active alarm part at two places alone, whatever is
\* requested: cancel_sleep switches the mode off beside the alarm, and a start()
\* writes alarm mode for an alarm it looked at before it ended.
THEOREM AlarmAndMode ==
    Spec => [][(mode = "alarm" <=> alarm # NoAlarm) =>
                    \/ mode' = "alarm" <=> alarm' # NoAlarm
                    \/ \E t \in Threads : CancelSleepApply(t) \/ ForceAlarmMode(t)]_vars
<1>1. StackInv /\ [Next]_vars =>
        [ModeIsAlarm => ModeIsAlarm' \/ \E t \in Threads : CancelSleepApply(t)
                                                         \/ ForceAlarmMode(t)]_vars
  BY ModeIsAlarmKept DEF StackInv, IInv
<1>2. StackInv /\ [Next]_vars =>
        [(mode = "alarm" <=> alarm # NoAlarm) =>
            \/ mode' = "alarm" <=> alarm' # NoAlarm
            \/ \E t \in Threads : CancelSleepApply(t) \/ ForceAlarmMode(t)]_vars
  BY <1>1 DEF ModeIsAlarm, NoAlarm
<1> QED BY StackInvariance, <1>2, PTL DEF Spec
=============================================================================
