-------------------------- MODULE StateStoreProofs ---------------------------
(***************************************************************************)
(* Proofs about StateStore, for any threads, any number of attempts,       *)
(* events and crashes: its type, that what is found after a crash is a     *)
(* state that was saved, that saved event ids are not given out again,     *)
(* and that it implements DurableState.                                    *)
(*                                                                         *)
(* The argument.  As long as one save runs at a time (Alone), the save     *)
(* under way carries the state in memory, and the temporary file is what   *)
(* it says (InOrder).  So only saved states reach state.json and, from     *)
(* there, its backup; and state.json cannot be read only after it was      *)
(* damaged and before it is loaded (FilesKept).  The state in memory is    *)
(* never older than what was saved (IdsGrow).                              *)
(***************************************************************************)
EXTENDS StateStore, TLAPS

TypeInv == TypeOK /\ (~up => boots <= Crashes)

Alone ==
    ~overlapped =>
        \A t, u \in Threads : save[t].at # "idle" /\ save[u].at # "idle" => t = u

InOrder ==
    ~overlapped => \A t \in Threads :
        /\ save[t].at = "idle" => save[t] = NoSave
        /\ save[t].at \in {"open", "write", "backup", "copy", "replace"} => save[t].value = mem
        /\ save[t].at = "write" => ~tmp.shared
        /\ save[t].at \in {"backup", "copy", "replace"} => tmp.value = Whole(mem)

FilesKept ==
    ~overlapped =>
        /\ main.is = "whole" => main.of \in kept
        /\ bak.is = "whole" => bak.of \in kept
        /\ main.is = "torn" => bak.is = "whole" /\ ~up /\ damaged
        /\ main.is = "absent" => kept = {}

IdsGrow ==
    ~overlapped /\ ~damaged =>
        /\ \A k \in kept : k.boot <= boots /\ k.id <= Recovered.id /\ (up => k.id <= mem.id)
        /\ \A e \in journal : e.boot <= boots /\ e.id > 0
        /\ up => mem.boot <= boots /\ \A e \in journal : e.boot > mem.boot => e.id > mem.id
        /\ \A t \in Threads : save[t].at = "append" =>
                mem.boot = boots /\ mem.id > 0 /\ \A k \in kept : k.id < mem.id

IInv == TypeInv /\ Alone /\ InOrder /\ FilesKept /\ IdsGrow /\ NoSavedIdReused

-----------------------------------------------------------------------------
(* Values *)

LEMMA ContentsFacts ==
    /\ Fresh \in Versions
    /\ Absent \in Contents /\ Torn \in Contents
    /\ \A v \in Versions : Whole(v) \in Contents /\ Whole(v).is = "whole" /\ Whole(v).of = v
    /\ Absent.is = "absent" /\ Torn.is = "torn"
    /\ \A c \in Contents : /\ c.is \in {"whole", "absent", "torn"} /\ c.of \in Versions
                           /\ c.is = "whole" => c = Whole(c.of)
                           /\ c.is = "absent" => c = Absent
                           /\ c.is = "torn" => c = Torn
<1>1. Fresh \in Versions
  BY ConstantsAssumption DEF Fresh, Versions
<1> QED BY <1>1 DEF Contents, Whole, Absent, Torn

LEMMA RecoveredFacts ==
    ASSUME TypeOK
    PROVE  /\ Recovered \in Versions
           /\ main.is = "whole" => Recovered = main.of
           /\ main.is = "torn" /\ bak.is = "whole" => Recovered = bak.of
           /\ main.is = "absent" => Recovered = Fresh
<1>1. main \in Contents /\ bak \in Contents
  BY DEF TypeOK
<1> QED BY <1>1, ContentsFacts DEF Recovered

\* The type of a save.
SaveRecord == [at : Places \cup {"idle"}, value : Versions, tries : 0..Attempts]

LEMMA TypeInit == Init => TypeInv
<1> SUFFICES ASSUME Init PROVE TypeInv
  OBVIOUS
<1>1. NoSave \in SaveRecord
  BY ContentsFacts, ConstantsAssumption DEF NoSave, SaveRecord
<1>2. boots \in 1..(Crashes + 1)
  BY ConstantsAssumption DEF Init
<1>3. NoTmp \in [value : Contents, shared : BOOLEAN]
  BY ContentsFacts DEF NoTmp
<1> QED BY <1>1, <1>2, <1>3, ContentsFacts, ConstantsAssumption
     DEF Init, TypeInv, TypeOK, SaveRecord, Free

LEMMA TypeStep == TypeInv /\ [Next]_vars => TypeInv'
<1> SUFFICES ASSUME TypeInv, [Next]_vars PROVE TypeInv'
  OBVIOUS
<1> USE ConstantsAssumption DEF TypeInv
<1>0. /\ save \in [Threads -> SaveRecord] /\ NoSave \in SaveRecord
      /\ NoTmp \in [value : Contents, shared : BOOLEAN]
  BY ContentsFacts DEF TypeOK, SaveRecord, NoSave, NoTmp
<1>1. ASSUME NEW t \in Threads, EmitEvent(t) PROVE TypeInv'
  <2>1. save' \in [Threads -> SaveRecord] /\ save'[t].at = "append"
        /\ \A u \in Threads : u # t => save'[u] = save[u]
    BY <1>0, <1>1 DEF EmitEvent, Starts, SaveRecord, Places
  <2>2. mem' \in Versions
    BY <1>1 DEF EmitEvent, TypeOK, Versions
  <2> QED BY <1>1, <2>1, <2>2 DEF EmitEvent, Starts, TypeOK, SaveRecord, Free, files
<1>2. ASSUME NEW t \in Threads, SaveUnlocked(t) \/ (t = Poller /\ Poll) PROVE TypeInv'
  <2>1. save' \in [Threads -> SaveRecord] /\ save'[t].at = "capture"
        /\ \A u \in Threads : u # t => save'[u] = save[u]
    BY <1>0, <1>2 DEF SaveUnlocked, Poll, Starts, SaveRecord, Places
  <2>2. lock' \in Threads \cup {Free} /\ (lock' # Free => save'[lock'].at # "idle")
    BY <1>2, <2>1 DEF SaveUnlocked, Poll, Starts, TypeOK, Free
  <2> QED BY <1>2, <2>1, <2>2 DEF SaveUnlocked, Poll, Starts, TypeOK, SaveRecord, files
<1>3. ASSUME NEW t \in Threads, AppendTransition(t) \/ Capture(t) \/ Open(t) \/ Close(t)
                                \/ Backup(t) \/ Copied(t)
      PROVE  TypeInv'
  <2>1. /\ save' \in [Threads -> SaveRecord] /\ save'[t].at # "idle" /\ save[t].at # "idle"
        /\ \A u \in Threads : u # t => save'[u] = save[u]
    BY <1>0, <1>3 DEF AppendTransition, Capture, Open, Close, Backup, Copied, SaveRecord,
       Places, TypeOK
  <2>2. /\ tmp' \in [value : Contents, shared : BOOLEAN] /\ bak' \in Contents
        /\ journal' \subseteq Versions
    <3>1. save[t].value \in Versions
      BY <1>0 DEF SaveRecord
    <3>2. (Writers # {}) \in BOOLEAN
      OBVIOUS
    <3>3. CASE Open(t)
      BY <3>2, <3>3, ContentsFacts DEF Open, TypeOK, history
    <3>4. CASE Close(t)
      <4>1. tmp.value \in Contents /\ tmp.shared \in BOOLEAN /\ Whole(save[t].value) \in Contents
        BY <3>1, ContentsFacts DEF TypeOK
      <4> QED BY <3>4, <4>1, ContentsFacts DEF Close, TypeOK, history
    <3> QED BY <1>3, <3>3, <3>4, ContentsFacts
         DEF AppendTransition, Capture, Backup, Copied, TypeOK, files, history
  <2>3. up
    BY <2>1 DEF TypeOK, NoSave
  <2>4. /\ mem' = mem /\ main' = main /\ lock' = lock /\ up' = up /\ boots' = boots
        /\ kept' = kept /\ overlapped' = overlapped /\ damaged' = damaged
    BY <1>3 DEF AppendTransition, Capture, Open, Close, Backup, Copied, files, history
  <2> QED BY <2>1, <2>2, <2>3, <2>4 DEF TypeOK, SaveRecord
<1>4. ASSUME NEW t \in Threads, Replace(t) \/ Raise(t) \/ Retry(t) PROVE TypeInv'
  <2>1. /\ save' \in [Threads -> SaveRecord] /\ save[t].at = "replace"
        /\ \A u \in Threads : u # t => save'[u] = save[u]
        /\ (lock' = lock /\ save'[t].at = "replace") \/ lock' = Released(t)
    <3>1. NoSave \in SaveRecord /\ save \in [Threads -> SaveRecord] /\ save[t].at = "replace"
      BY <1>0, <1>4 DEF Replace, Raise, Retry
    <3>2. CASE Ends(t)
      BY <3>1, <3>2 DEF Ends
    <3>3. CASE save' = [save EXCEPT ![t].tries = @ + 1] /\ lock' = lock
               /\ save[t].tries + 1 < Attempts
      BY <3>1, <3>3, ConstantsAssumption DEF SaveRecord, Places
    <3> QED BY <1>4, <3>2, <3>3 DEF Replace, Raise, Retry
  <2>2. lock' \in Threads \cup {Free} /\ (lock' # Free => save'[lock'].at # "idle")
    BY <2>1 DEF TypeOK, Released, Free
  <2>3. up
    BY <2>1 DEF TypeOK, NoSave
  <2>4. /\ main' \in Contents /\ tmp' \in [value : Contents, shared : BOOLEAN]
        /\ kept' \subseteq Versions
    <3>1. tmp.value \in Contents
      BY DEF TypeOK
    <3> QED BY <1>0, <1>4, <3>1, ContentsFacts
         DEF Replace, Raise, Retry, TypeOK, files, history
  <2>5. /\ mem' = mem /\ bak' = bak /\ up' = up /\ boots' = boots /\ journal' = journal
        /\ overlapped' = overlapped /\ damaged' = damaged
    BY <1>4 DEF Replace, Raise, Retry, files, history
  <2> QED BY <2>1, <2>2, <2>3, <2>4, <2>5 DEF TypeOK, SaveRecord
<1>5. CASE Crash
  BY <1>0, <1>5 DEF Crash, TypeOK, SaveRecord, Free, NoSave, files, history
<1>6. CASE Damage
  BY <1>6, ContentsFacts DEF Damage, TypeOK
<1>7. CASE Load
  <2>1. mem' \in Versions
    BY <1>7, RecoveredFacts DEF Load
  <2>2. main' \in Contents
    BY <1>7, ContentsFacts DEF Load, TypeOK
  <2>3. boots' \in 1..(Crashes + 1)
    BY <1>7 DEF Load, TypeOK
  <2> QED BY <1>7, <2>1, <2>2, <2>3 DEF Load, TypeOK, history
<1>8. CASE UNCHANGED vars
  BY <1>8 DEF vars, files, history, TypeOK
<1> QED BY <1>1, <1>2, <1>3, <1>4, <1>5, <1>6, <1>7, <1>8 DEF Next, SaveStep

\* Whatever the interleaving, the stores of the program have the types of TypeOK.
THEOREM TypeCorrect == Spec => []TypeOK
<1>1. TypeInv => TypeOK
  BY DEF TypeInv
<1> QED BY <1>1, TypeInit, TypeStep, PTL DEF Spec

-----------------------------------------------------------------------------
(* One save at a time *)

\* A step of the save of t, and what it leaves alone.
Within(t) ==
    /\ save[t].at # "idle" /\ \A u \in Threads : u # t => save'[u] = save[u]
    /\ mem' = mem /\ up /\ up' /\ boots' = boots
    /\ overlapped' = overlapped /\ damaged' = damaged

LEMMA SaveStepsAreWithin ==
    ASSUME TypeInv, NEW t \in Threads, SaveStep(t) \/ Retry(t)
    PROVE  Within(t)
<1>1. save[t].at # "idle"
  BY DEF SaveStep, AppendTransition, Capture, Open, Close, Backup, Copied, Replace, Raise, Retry
<1>2. up
  BY <1>1 DEF TypeInv, TypeOK, NoSave
<1>3. save \in [Threads -> SaveRecord]
  BY DEF TypeInv, TypeOK, SaveRecord
<1>4. \A u \in Threads : u # t => save'[u] = save[u]
  BY <1>3 DEF SaveStep, AppendTransition, Capture, Open, Close, Backup, Copied, Replace,
     Raise, Retry, Ends
<1>5. mem' = mem /\ up' = up /\ boots' = boots /\ overlapped' = overlapped /\ damaged' = damaged
  BY DEF SaveStep, AppendTransition, Capture, Open, Close, Backup, Copied, Replace, Raise,
     Retry, files, history
<1> QED BY <1>1, <1>2, <1>4, <1>5 DEF Within

\* The start of the save of t.
Begun(t) ==
    /\ up /\ up' /\ save[t] = NoSave
    /\ save'[t].at \in {"append", "capture"}
    /\ \A u \in Threads : u # t => save'[u] = save[u]
    /\ ~overlapped' => ~overlapped /\ \A u \in Threads : save[u] = NoSave
    /\ UNCHANGED <<main, bak, tmp, boots, journal, kept, damaged>>

LEMMA StartsAreBegun ==
    ASSUME TypeInv, NEW t \in Threads, NEW place \in {"append", "capture"}, Starts(t, place)
    PROVE  Begun(t) /\ save'[t].at = place
BY DEF TypeInv, TypeOK, Starts, Begun, files

\* The cases of a step.
LEMMA StepCases ==
    ASSUME TypeInv, [Next]_vars
    PROVE  \/ \E t \in Threads : Within(t) /\ (SaveStep(t) \/ Retry(t))
           \/ \E t \in Threads : Begun(t) /\ save'[t].at = "append" /\ EmitEvent(t)
           \/ \E t \in Threads : Begun(t) /\ save'[t].at = "capture" /\ mem' = mem
           \/ Crash \/ Damage \/ Load \/ UNCHANGED vars
BY SaveStepsAreWithin, StartsAreBegun, ConstantsAssumption DEF Next, EmitEvent, SaveUnlocked, Poll

LEMMA AloneStep == TypeInv /\ Alone /\ [Next]_vars => Alone'
<1> SUFFICES ASSUME TypeInv, Alone, [Next]_vars, ~overlapped',
                    NEW t \in Threads, NEW u \in Threads,
                    save'[t].at # "idle", save'[u].at # "idle"
             PROVE  t = u
  BY DEF Alone
<1>1. ASSUME NEW v \in Threads, Within(v) PROVE t = u
  BY <1>1 DEF Within, Alone
<1>2. ASSUME NEW v \in Threads, Begun(v) PROVE t = u
  BY <1>2 DEF Begun, Alone, NoSave
<1>3. CASE Crash \/ Damage \/ Load \/ UNCHANGED vars
  BY <1>3 DEF Crash, Damage, Load, vars, files, history, NoSave, Alone
<1> QED BY <1>1, <1>2, <1>3, StepCases

LEMMA InOrderStep == TypeInv /\ Alone /\ InOrder /\ [Next]_vars => InOrder'
<1> DEFINE Carries(t) ==
        /\ save[t].at = "idle" => save[t] = NoSave
        /\ save[t].at \in {"open", "write", "backup", "copy", "replace"} => save[t].value = mem
        /\ save[t].at = "write" => ~tmp.shared
        /\ save[t].at \in {"backup", "copy", "replace"} => tmp.value = Whole(mem)
<1> SUFFICES ASSUME TypeInv, Alone, InOrder, [Next]_vars, ~overlapped', NEW t \in Threads
             PROVE  Carries(t)'
  BY DEF InOrder
<1>0. save \in [Threads -> SaveRecord]
  BY DEF TypeInv, TypeOK, SaveRecord
<1>1. ASSUME NEW v \in Threads, Within(v), SaveStep(v) \/ Retry(v) PROVE Carries(t)'
  <2>1. Carries(v) /\ Carries(t) /\ ~overlapped
    BY <1>1 DEF InOrder, Within
  <2>2. CASE t # v
    <3>1. save'[t] = NoSave
      BY <1>1, <2>1, <2>2 DEF Within, Alone
    <3> QED BY <3>1 DEF NoSave
  <2>3. CASE t = v
    <3>1. mem' = mem
      BY <1>1 DEF Within
    <3>2. CASE Open(v)
      <4>1. Writers = {}
        BY <1>1, <2>1, <3>2 DEF Alone, Writers, Within, Open
      <4>2. save'[v].at = "write" /\ save'[v].value = save[v].value /\ tmp'.shared = FALSE
        BY <1>0, <3>2, <4>1 DEF Open, SaveRecord
      <4>3. save[v].at = "open"
        BY <3>2 DEF Open
      <4> QED BY <2>1, <2>3, <3>1, <4>2, <4>3
    <3>3. CASE Close(v)
      <4>1. tmp.shared \in BOOLEAN /\ tmp \in [value : Contents, shared : BOOLEAN]
        BY DEF TypeInv, TypeOK
      <4> QED BY <1>0, <2>1, <2>3, <3>1, <3>3, <4>1 DEF Close
    <3>4. CASE AppendTransition(v) \/ Capture(v)
      BY <1>0, <2>1, <2>3, <3>1, <3>4 DEF AppendTransition, Capture, files, SaveRecord
    <3>5. CASE Backup(v) \/ Copied(v)
      BY <1>0, <2>1, <2>3, <3>1, <3>5 DEF Backup, Copied, SaveRecord
    <3>6. CASE Replace(v) \/ Raise(v)
      BY <1>0, <2>3, <3>6 DEF Replace, Raise, Ends, NoSave
    <3>7. CASE Retry(v)
      <4>1. save'[v] = NoSave \/ (save'[v].at = "replace" /\ save'[v].value = save[v].value)
        BY <1>0, <3>7 DEF Retry, Ends, SaveRecord
      <4>2. tmp' = tmp /\ save[v].at = "replace"
        BY <3>7 DEF Retry, files
      <4> QED BY <2>1, <2>3, <3>1, <4>1, <4>2 DEF NoSave
    <3> QED BY <1>1, <3>2, <3>3, <3>4, <3>5, <3>6, <3>7 DEF SaveStep
  <2> QED BY <2>2, <2>3
<1>2. ASSUME NEW v \in Threads, Begun(v) PROVE Carries(t)'
  BY <1>2 DEF Begun, NoSave
<1>3. CASE Crash
  BY <1>3 DEF Crash, NoSave
<1>4. CASE Load
  <2>1. save[t] = NoSave
    BY <1>4 DEF Load, TypeInv, TypeOK
  <2> QED BY <1>4, <2>1 DEF Load, NoSave
<1>5. CASE Damage \/ UNCHANGED vars
  BY <1>5 DEF Damage, vars, files, history, InOrder
<1> QED BY <1>1, <1>2, <1>3, <1>4, <1>5, StepCases

-----------------------------------------------------------------------------
(* What is on disk *)

\* A replace puts the state in memory into state.json.
LEMMA Replaced ==
    ASSUME TypeInv, InOrder, ~overlapped, NEW t \in Threads, Replace(t)
    PROVE  main' = Whole(mem) /\ kept' = kept \cup {mem}
<1>1. tmp.value = Whole(mem)
  BY DEF InOrder, Replace
<1>2. Whole(mem).is = "whole" /\ Whole(mem).of = mem
  BY ContentsFacts DEF TypeInv, TypeOK
<1> QED BY <1>1, <1>2 DEF Replace

LEMMA FilesStep == TypeInv /\ InOrder /\ FilesKept /\ [Next]_vars => FilesKept'
<1> SUFFICES ASSUME TypeInv, InOrder, FilesKept, [Next]_vars, ~overlapped'
             PROVE  FilesKept'
  BY DEF FilesKept
<1> USE ContentsFacts DEF FilesKept
<1>0. main \in Contents /\ bak \in Contents /\ mem \in Versions
  BY DEF TypeInv, TypeOK
<1>1. ASSUME NEW v \in Threads, Within(v), SaveStep(v) \/ Retry(v) PROVE FilesKept'
  <2>1. up /\ up' /\ ~overlapped /\ damaged' = damaged
    BY <1>1 DEF Within
  <2>2. CASE Replace(v)
    <3>1. main' = Whole(mem) /\ kept' = kept \cup {mem} /\ bak' = bak
      BY <2>1, <2>2, Replaced DEF Replace
    <3> QED BY <1>0, <2>1, <3>1
  <2>3. CASE Backup(v)
    BY <1>0, <2>1, <2>3 DEF Backup, history
  <2>4. CASE Copied(v)
    BY <1>0, <2>1, <2>4 DEF Copied, history
  <2>5. CASE AppendTransition(v) \/ Capture(v) \/ Open(v) \/ Close(v) \/ Raise(v) \/ Retry(v)
    <3>1. main' = main /\ bak' = bak /\ kept' = kept
      BY <2>5 DEF AppendTransition, Capture, Open, Close, Raise, Retry, files, history
    <3> QED BY <2>1, <3>1
  <2> QED BY <1>1, <2>2, <2>3, <2>4, <2>5 DEF SaveStep
<1>2. ASSUME NEW v \in Threads, Begun(v) PROVE FilesKept'
  BY <1>2 DEF Begun
<1>3. CASE Crash \/ UNCHANGED vars
  BY <1>3 DEF Crash, vars, files, history
<1>4. CASE Damage
  BY <1>0, <1>4 DEF Damage
<1>5. CASE Load
  BY <1>0, <1>5 DEF Load, history
<1> QED BY <1>1, <1>2, <1>3, <1>4, <1>5, StepCases

-----------------------------------------------------------------------------
(* Event ids *)

LEMMA IdsStep ==
    TypeInv /\ Alone /\ InOrder /\ FilesKept /\ IdsGrow /\ NoSavedIdReused /\ [Next]_vars
        => IdsGrow' /\ NoSavedIdReused'
<1> SUFFICES ASSUME TypeInv, Alone, InOrder, FilesKept, IdsGrow, NoSavedIdReused, [Next]_vars,
                    ~overlapped', ~damaged'
             PROVE  IdsGrow' /\ NoSavedIdReused'
  BY DEF IdsGrow, NoSavedIdReused
<1> USE DEF IdsGrow, NoSavedIdReused
<1>0. /\ mem \in Versions /\ boots \in Nat /\ Recovered \in Versions
      /\ kept \subseteq Versions /\ journal \subseteq Versions
      /\ \A v \in Versions : v.id \in Nat /\ v.boot \in Nat
  BY RecoveredFacts, ConstantsAssumption DEF TypeInv, TypeOK, Versions
<1>1. ASSUME NEW v \in Threads, Within(v), SaveStep(v) \/ Retry(v)
      PROVE  IdsGrow' /\ NoSavedIdReused'
  <2>1. up /\ up' /\ ~overlapped /\ ~damaged /\ mem' = mem /\ boots' = boots
        /\ \A u \in Threads : u # v => save'[u] = save[u]
    BY <1>1 DEF Within
  <2>2. save \in [Threads -> SaveRecord]
    BY DEF TypeInv, TypeOK, SaveRecord
  <2>3. CASE Replace(v)
    <3>1. main' = Whole(mem) /\ kept' = kept \cup {mem} /\ journal' = journal
      BY <2>1, <2>3, Replaced DEF Replace
    <3>2. Recovered' = mem
      BY <1>0, <3>1, ContentsFacts DEF Recovered
    <3>3. \A u \in Threads : save'[u].at # "append"
      <4>1. \A u \in Threads : u # v => save[u].at = "idle"
        BY <2>1, <2>3 DEF Alone, Replace
      <4> QED BY <2>1, <2>2, <2>3, <4>1 DEF Replace, Ends, NoSave
    <3> QED BY <1>0, <2>1, <3>1, <3>2, <3>3
  <2>4. CASE AppendTransition(v)
    <3>1. /\ journal' = journal \cup {mem} /\ kept' = kept /\ Recovered' = Recovered
          /\ save'[v].at = "capture" /\ save[v].at = "append"
      BY <2>2, <2>4 DEF AppendTransition, files, Recovered
    <3> QED BY <1>0, <2>1, <3>1
  <2>5. CASE Capture(v) \/ Open(v) \/ Close(v) \/ Backup(v) \/ Copied(v) \/ Raise(v) \/ Retry(v)
    <3>1. journal' = journal /\ kept' = kept /\ save'[v].at # "append" /\ main' = main
      <4>1. CASE Capture(v) \/ Open(v) \/ Close(v) \/ Backup(v) \/ Copied(v)
        <5>1. CASE Capture(v) \/ Open(v)
          BY <2>2, <5>1 DEF Capture, Open, files, history, SaveRecord
        <5>2. CASE Close(v) \/ Copied(v)
          BY <2>2, <5>2 DEF Close, Copied, history, SaveRecord
        <5>3. CASE Backup(v)
          BY <2>2, <5>3 DEF Backup, history, SaveRecord
        <5> QED BY <4>1, <5>1, <5>2, <5>3
      <4>2. CASE Raise(v) \/ Retry(v)
        BY <2>2, <4>2 DEF Raise, Retry, Ends, NoSave, files, history, SaveRecord
      <4> QED BY <2>5, <4>1, <4>2
    <3>2. main.is # "torn"
      BY <2>1 DEF FilesKept
    <3>3. Recovered' = Recovered
      BY <3>1, <3>2 DEF Recovered
    <3> QED BY <1>0, <2>1, <3>1, <3>3
  <2> QED BY <1>1, <2>3, <2>4, <2>5 DEF SaveStep
<1>2. ASSUME NEW v \in Threads, Begun(v), save'[v].at = "append", EmitEvent(v)
      PROVE  IdsGrow' /\ NoSavedIdReused'
  <2>1. /\ ~overlapped /\ ~damaged /\ up /\ up' /\ boots' = boots /\ kept' = kept
        /\ journal' = journal /\ \A u \in Threads : u # v => save'[u].at = "idle"
    BY <1>2 DEF Begun, NoSave
  <2>2. mem' = [boot |-> boots, id |-> mem.id + 1]
    BY <1>2 DEF EmitEvent
  <2>3. Recovered' = Recovered
    BY <1>2 DEF Begun, Recovered
  <2>4. mem'.boot = boots /\ mem'.id = mem.id + 1
    BY <2>2
  <2> QED BY <1>0, <2>1, <2>3, <2>4
<1>3. ASSUME NEW v \in Threads, Begun(v), save'[v].at = "capture", mem' = mem
      PROVE  IdsGrow' /\ NoSavedIdReused'
  <2>1. /\ ~overlapped /\ ~damaged /\ up /\ up' /\ boots' = boots /\ kept' = kept
        /\ journal' = journal /\ \A u \in Threads : u # v => save'[u].at = "idle"
    BY <1>3 DEF Begun, NoSave
  <2>2. Recovered' = Recovered
    BY <1>3 DEF Begun, Recovered
  <2> QED BY <1>0, <1>3, <2>1, <2>2
<1>4. CASE Crash
  <2>1. Recovered' = Recovered
    BY <1>4 DEF Crash, files, Recovered
  <2> QED BY <1>0, <1>4, <2>1 DEF Crash, history, NoSave
<1>5. CASE Load
  <2>1. ~overlapped /\ ~damaged /\ kept' = kept /\ journal' = journal /\ save' = save
    BY <1>5 DEF Load, history
  <2>2. main.is # "torn" /\ main' = main
    <3>1. main.is # "torn"
      BY <2>1 DEF FilesKept
    <3> QED BY <1>5, <3>1 DEF Load
  <2>3. Recovered' = Recovered /\ mem' = Recovered
    BY <1>5, <2>2 DEF Load, Recovered
  <2>4. Recovered \in kept \/ (kept = {} /\ Recovered = Fresh)
    BY <2>1, <2>2, RecoveredFacts, ContentsFacts DEF FilesKept, TypeInv, TypeOK
  <2>5. \A u \in Threads : save[u].at = "idle"
    BY <1>5 DEF Load, TypeInv, TypeOK, NoSave
  <2>6. boots' = boots + 1 /\ up'
    BY <1>5 DEF Load
  <2>7. Recovered.boot <= boots
    BY <1>0, <2>1, <2>4 DEF Fresh
  <2>8. \A e \in journal : e.boot > Recovered.boot => e.id > Recovered.id
    BY <1>0, <2>1, <2>4 DEF Fresh
  <2> QED BY <1>0, <2>1, <2>3, <2>5, <2>6, <2>7, <2>8
<1>6. CASE Damage \/ UNCHANGED vars
  BY <1>6 DEF Damage, vars, files, history, Recovered
<1> QED BY <1>1, <1>2, <1>3, <1>4, <1>5, <1>6, StepCases

-----------------------------------------------------------------------------
(* The theorems *)

LEMMA IInvInit == Init => IInv
<1> SUFFICES ASSUME Init PROVE IInv
  OBVIOUS
<1>1. TypeInv
  BY TypeInit
<1>2. \A t \in Threads : save[t] = NoSave
  BY DEF Init
<1>3. Alone /\ InOrder
  BY <1>2 DEF Alone, InOrder, NoSave
<1>4. FilesKept
  BY ContentsFacts DEF Init, FilesKept
<1>5. IdsGrow /\ NoSavedIdReused
  BY <1>2 DEF Init, IdsGrow, NoSavedIdReused, NoSave, Fresh
<1> QED BY <1>1, <1>3, <1>4, <1>5 DEF IInv

LEMMA IInvStep == IInv /\ [Next]_vars => IInv'
BY TypeStep, AloneStep, InOrderStep, FilesStep, IdsStep DEF IInv

LEMMA IInvAlways == Spec => []IInv
BY IInvInit, IInvStep, PTL DEF Spec

\* Wherever the process dies, and also if state.json was damaged once, it finds
\* a state that was saved, whole, once anything was, unless two saves overlapped.
THEOREM FindsWhatWasSaved == Spec => []SavedOrNothing
<1>1. IInv => SavedOrNothing
  <2> SUFFICES ASSUME IInv, ~overlapped, kept # {} PROVE Recovered \in kept
    BY DEF SavedOrNothing
  <2>1. TypeOK /\ main \in Contents
    BY DEF IInv, TypeInv, TypeOK
  <2>2. main.is # "absent"
    BY DEF IInv, FilesKept
  <2>3. main.is = "whole" \/ main.is = "torn"
    BY <2>1, <2>2, ContentsFacts
  <2> QED BY <2>1, <2>3, RecoveredFacts DEF IInv, FilesKept
<1> QED BY <1>1, IInvAlways, PTL

\* No later run gives the id of a saved event to another one.
THEOREM SavedIdsAreSpent == Spec => []NoSavedIdReused
<1>1. IInv => NoSavedIdReused
  BY DEF IInv
<1> QED BY <1>1, IInvAlways, PTL

\* The files, copies and renames implement "atomically write state to disk".
THEOREM StoreRefinement == Spec => ImplementsDurableState
<1> DEFINE Sure == ~(overlapped \/ damaged)
<1>1. Init => Durable!Init
  BY ContentsFacts DEF Init, Durable!Init, Recovered
<1>2. IInv /\ [Next]_vars => [Durable!Next]_(Durable!vars)
  <2> SUFFICES ASSUME IInv, [Next]_vars PROVE [Durable!Next]_(Durable!vars)
    OBVIOUS
  <2>0. TypeInv /\ InOrder /\ FilesKept /\ mem \in Versions
    BY DEF IInv, TypeInv, TypeOK
  <2>1. CASE ~Sure'
    BY <2>1 DEF Durable!Next
  <2>2. CASE Sure'
    <3>1. ASSUME NEW t \in Threads, Within(t), SaveStep(t) \/ Retry(t)
          PROVE  Durable!Next \/ UNCHANGED Durable!vars
      <4>1. /\ up /\ up' /\ mem' = mem /\ overlapped' = overlapped /\ damaged' = damaged /\ Sure
        BY <2>2, <3>1 DEF Within
      <4>2. CASE Replace(t)
        <5>1. main' = Whole(mem)
          BY <2>0, <4>1, <4>2, Replaced
        <5>2. Recovered' = mem
          BY <2>0, <5>1, ContentsFacts DEF Recovered
        <5> QED BY <2>2, <4>1, <5>2 DEF Durable!Next, Durable!Save
      <4>3. CASE ~Replace(t)
        <5>1. main' = main
          BY <3>1, <4>3 DEF SaveStep, AppendTransition, Capture, Open, Close, Backup, Copied,
             Raise, Retry, files
        <5>2. main.is # "torn"
          BY <2>0, <4>1 DEF FilesKept
        <5>3. Recovered' = Recovered
          BY <5>1, <5>2 DEF Recovered
        <5> QED BY <4>1, <5>3 DEF Durable!vars
      <4> QED BY <4>2, <4>3
    <3>2. ASSUME NEW t \in Threads, Begun(t), EmitEvent(t) \/ mem' = mem
          PROVE  Durable!Next \/ UNCHANGED Durable!vars
      <4>1. up /\ up' /\ Sure /\ Recovered' = Recovered
        BY <2>2, <3>2 DEF Begun, Recovered
      <4>2. CASE mem' = mem
        BY <2>2, <4>1, <4>2 DEF Durable!vars
      <4>3. CASE mem' # mem
        BY <2>2, <4>1, <4>3 DEF Durable!Next, Durable!Change
      <4> QED BY <4>2, <4>3
    <3>3. CASE Crash
      <4>1. Recovered' = Recovered /\ up /\ ~up' /\ Sure
        BY <2>2, <3>3 DEF Crash, files, history, Recovered
      <4> QED BY <2>2, <4>1 DEF Durable!Next, Durable!Recover
    <3>4. CASE Load
      <4>1. ~up /\ up' /\ Sure /\ mem' = Recovered
        BY <2>2, <3>4 DEF Load, history
      <4>2. main.is # "torn"
        BY <2>0, <4>1 DEF FilesKept
      <4>3. Recovered' = Recovered
        BY <3>4, <4>2 DEF Load, Recovered
      <4> QED BY <2>2, <4>1, <4>3 DEF Durable!vars
    <3>5. CASE Damage
      BY <2>2, <3>5 DEF Damage
    <3>6. CASE UNCHANGED vars
      BY <3>6 DEF vars, files, history, Durable!vars, Recovered
    <3> QED BY <2>0, <3>1, <3>2, <3>3, <3>4, <3>5, <3>6, StepCases
  <2> QED BY <2>1, <2>2
<1> QED BY <1>1, <1>2, IInvAlways, PTL DEF Spec, ImplementsDurableState, Durable!Spec
=============================================================================
