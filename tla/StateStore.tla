----------------------------- MODULE StateStore ------------------------------
(***************************************************************************)
(* The state file (runtime/state_store.py) as the runtime uses it: every   *)
(* event gets the next id, is appended to the journal and is saved with    *)
(* the state; the process may die at any step and starts again from what   *)
(* is on disk.                                                             *)
(*                                                                         *)
(* A save is made of the steps save_state makes: it takes a copy of the    *)
(* state, writes state.json.tmp, copies state.json to state.json.bak, and  *)
(* renames the temporary file over state.json.  Most callers hold the      *)
(* state lock; _handle_welcome_transition and _cleanup do not.             *)
(*                                                                         *)
(* The state is abstracted to its event id and to the run of the process   *)
(* it was made in.  As on the Windows machine the code is written for, a   *)
(* file that somebody has open cannot be replaced.  Left out: the 500      *)
(* lines the journal is cut to, and what a power failure does to files     *)
(* that were never flushed.                                                *)
(***************************************************************************)
EXTENDS Naturals

CONSTANTS
    Threads,      \* threads of the runtime
    Poller,       \* the one that saves with every poll
    Unlocked,     \* the ones that may also save without the state lock
    Attempts,     \* SAVE_ATTEMPTS
    Faults,       \* what can go wrong: "busy", "damage"
    MaxId,        \* bound: the events that are emitted
    Crashes       \* bound: how often the process may die

ASSUME ConstantsAssumption ==
    /\ Poller \in Threads /\ Unlocked \subseteq Threads /\ "free" \notin Threads
    /\ Attempts \in Nat \ {0} /\ MaxId \in Nat /\ Crashes \in Nat

VARIABLES
    mem,          \* Runtime._state
    main,         \* state.json
    bak,          \* state.json.bak
    tmp,          \* state.json.tmp, and whether two saves have it open
    save,         \* the save each thread is in
    lock,         \* _state_lock: who holds it
    up,           \* the process runs
    boots,        \* how often it was started
    journal,      \* history: the events that were published, and appended
    kept,         \* history: the states that were saved
    overlapped,   \* history: two saves ran at the same time
    damaged       \* history: a file was damaged from outside

files == <<main, bak, tmp>>
history == <<journal, kept, overlapped, damaged>>
vars == <<mem, files, save, lock, up, boots, history>>

-----------------------------------------------------------------------------
(* Values *)

Free     == "free"
Fresh    == [boot |-> 0, id |-> 0]
Versions == [boot : 0..(Crashes + 1), id : 0..MaxId]
Whole(v) == [is |-> "whole", of |-> v]
Absent   == [is |-> "absent", of |-> Fresh]
Torn     == [is |-> "torn", of |-> Fresh]
Contents == {Whole(v) : v \in Versions} \cup {Absent, Torn}
NoTmp    == [value |-> Absent, shared |-> FALSE]
NoSave   == [at |-> "idle", value |-> Fresh, tries |-> 0]
Places   == {"append", "capture", "open", "write", "backup", "copy", "replace"}

TypeOK ==
    /\ mem \in Versions
    /\ main \in Contents /\ bak \in Contents
    /\ tmp \in [value : Contents, shared : BOOLEAN]
    /\ save \in [Threads -> [at : Places \cup {"idle"}, value : Versions, tries : 0..Attempts]]
    /\ lock \in Threads \cup {Free}
    /\ up \in BOOLEAN /\ overlapped \in BOOLEAN /\ damaged \in BOOLEAN
    /\ boots \in 1..(Crashes + 1)
    /\ journal \subseteq Versions /\ kept \subseteq Versions
    /\ lock # Free => save[lock].at # "idle"
    /\ ~up => \A t \in Threads : save[t] = NoSave

\* Mutant: a state.json that cannot be read is put away at once.
MainOnly == IF main.is = "whole" THEN main.of ELSE Fresh

\* Mutant: the backup is tried first.
BackupFirst ==
    CASE main.is # "absent" /\ bak.is = "whole" -> bak.of
      [] main.is = "whole" /\ bak.is # "whole" -> main.of
      [] OTHER -> Fresh

\* What load_state returns for what is on disk.
Recovered ==
    CASE main.is = "whole" -> main.of
      [] main.is = "torn" /\ bak.is = "whole" -> bak.of
      [] OTHER -> Fresh

-----------------------------------------------------------------------------
(* The callers *)

\* A call that ends in a save, and whether another one is under way.
Starts(t, place) ==
    /\ up /\ save[t] = NoSave
    /\ save' = [save EXCEPT ![t].at = place]
    /\ overlapped' = (overlapped \/ \E u \in Threads : save[u] # NoSave)
    /\ UNCHANGED <<files, up, boots, journal, kept, damaged>>

\* _emit_event: the change and its event, appended before the save.
EmitEvent(t) ==
    /\ Starts(t, "append")
    /\ lock = Free /\ lock' = t
    /\ mem.id < MaxId /\ mem' = [boot |-> boots, id |-> mem.id + 1]

AppendTransition(t) ==
    /\ save[t].at = "append"
    /\ journal' = journal \cup {mem}
    /\ save' = [save EXCEPT ![t].at = "capture"]
    /\ UNCHANGED <<mem, files, lock, up, boots, kept, overlapped, damaged>>

\* Mutant: the poll saves only while there is no file.
PollOnce ==
    main = Absent /\ Starts(Poller, "capture") /\ lock = Free /\ lock' = Poller /\ UNCHANGED mem

\* _poll_devices saves what no event tells of.
Poll == Starts(Poller, "capture") /\ lock = Free /\ lock' = Poller /\ UNCHANGED mem

\* _handle_welcome_transition, after the poll or an arrival released the lock.
SaveUnlocked(t) == t \in Unlocked /\ Starts(t, "capture") /\ UNCHANGED <<mem, lock>>

-----------------------------------------------------------------------------
(* save_state *)

Capture(t) ==
    /\ save[t].at = "capture"
    /\ save' = [save EXCEPT ![t].at = "open", ![t].value = mem]
    /\ UNCHANGED <<mem, files, lock, up, boots, history>>

Writers == {t \in Threads : save[t].at = "write"}

\* Mutant: state.json is written in place.
OpenInPlace(t) ==
    /\ save[t].at = "open"
    /\ tmp' = [value |-> Torn, shared |-> Writers # {}] /\ main' = Torn
    /\ save' = [save EXCEPT ![t].at = "write"]
    /\ UNCHANGED <<mem, bak, lock, up, boots, history>>

\* write_text: the file is emptied, then filled.
Open(t) ==
    /\ save[t].at = "open"
    /\ tmp' = [value |-> Torn, shared |-> Writers # {}]
    /\ save' = [save EXCEPT ![t].at = "write"]
    /\ UNCHANGED <<mem, main, bak, lock, up, boots, history>>

\* What two threads wrote at the same time may be the one's, the other's or a mixture.
Close(t) ==
    /\ save[t].at = "write"
    /\ \E c \in {Whole(save[t].value)} \cup (IF tmp.shared THEN {Torn} ELSE {}) :
           tmp' = [tmp EXCEPT !.value = c]
    /\ save' = [save EXCEPT ![t].at = "backup"]
    /\ UNCHANGED <<mem, main, bak, lock, up, boots, history>>

\* shutil.copy2, if there is a state.json
Backup(t) ==
    /\ save[t].at = "backup"
    /\ IF main = Absent
       THEN save' = [save EXCEPT ![t].at = "replace"] /\ UNCHANGED bak
       ELSE save' = [save EXCEPT ![t].at = "copy"] /\ bak' = Torn
    /\ UNCHANGED <<mem, main, tmp, lock, up, boots, history>>

Copied(t) ==
    /\ save[t].at = "copy"
    /\ bak' = main
    /\ save' = [save EXCEPT ![t].at = "replace"]
    /\ UNCHANGED <<mem, main, tmp, lock, up, boots, history>>

\* Mutant: the lock is not given back.
NeverReleased(t) == lock

\* with self._state_lock ends, if the save was in it.
Released(t) == IF lock = t THEN Free ELSE lock

\* The end of a save, whether it worked, gave up or raised.
Ends(t) ==
    /\ save' = [save EXCEPT ![t] = NoSave]
    /\ lock' = Released(t)

InUse(t) == \E u \in Threads \ {t} : save[u].at \in {"write", "copy"}

\* tmp.replace(p)
Replace(t) ==
    /\ save[t].at = "replace" /\ tmp.value # Absent /\ ~InUse(t)
    /\ main' = tmp.value /\ tmp' = NoTmp
    /\ kept' = kept \cup (IF main'.is = "whole" THEN {main'.of} ELSE {})
    /\ Ends(t)
    /\ UNCHANGED <<mem, bak, up, boots, journal, overlapped, damaged>>

\* Another save has renamed the temporary file: FileNotFoundError.
Raise(t) ==
    /\ save[t].at = "replace" /\ tmp.value = Absent
    /\ Ends(t)
    /\ UNCHANGED <<mem, files, up, boots, history>>

\* PermissionError: tried again, and given up after Attempts.
Retry(t) ==
    /\ save[t].at = "replace" /\ tmp.value # Absent
    /\ InUse(t) \/ "busy" \in Faults
    /\ IF save[t].tries + 1 < Attempts
       THEN save' = [save EXCEPT ![t].tries = @ + 1] /\ UNCHANGED lock
       ELSE Ends(t)
    /\ UNCHANGED <<mem, files, up, boots, history>>

-----------------------------------------------------------------------------
(* The process *)

\* The process dies; a file that was being written is left half written.
Crash ==
    /\ up /\ boots <= Crashes
    /\ up' = FALSE /\ lock' = Free
    /\ save' = [t \in Threads |-> NoSave]
    /\ UNCHANGED <<mem, files, boots, history>>

\* state.json is damaged while nobody looks, once, and its backup is not.
Damage ==
    /\ "damage" \in Faults /\ ~up /\ ~damaged
    /\ main.is = "whole" /\ bak.is = "whole"
    /\ main' = Torn /\ damaged' = TRUE
    /\ UNCHANGED <<mem, bak, tmp, save, lock, up, boots, journal, kept, overlapped>>

\* load_state: the backup is copied back, or what cannot be read is put away.
Load ==
    /\ ~up /\ up' = TRUE
    /\ boots' = boots + 1
    /\ mem' = Recovered
    /\ main' = CASE main.is # "torn" -> main
                 [] main.is = "torn" /\ bak.is = "whole" -> bak
                 [] OTHER -> Absent
    /\ UNCHANGED <<bak, tmp, save, lock, history>>

-----------------------------------------------------------------------------
(* The specification *)

Init ==
    /\ mem = Fresh /\ main = Absent /\ bak = Absent /\ tmp = NoTmp
    /\ save = [t \in Threads |-> NoSave] /\ lock = Free
    /\ up = TRUE /\ boots = 1
    /\ journal = {} /\ kept = {} /\ overlapped = FALSE /\ damaged = FALSE

SaveStep(t) ==
    \/ AppendTransition(t) \/ Capture(t) \/ Open(t) \/ Close(t) \/ Backup(t) \/ Copied(t)
    \/ Replace(t) \/ Raise(t)

Next ==
    \/ \E t \in Threads : EmitEvent(t) \/ SaveUnlocked(t) \/ SaveStep(t) \/ Retry(t)
    \/ Poll \/ Crash \/ Damage \/ Load

Spec == Init /\ [][Next]_vars

\* A save goes on, and the poll comes round again, whoever else wants the lock.
Fairness == SF_vars(Poll) /\ \A t \in Threads : WF_vars(SaveStep(t) \/ Retry(t))

FairSpec == Spec /\ Fairness

-----------------------------------------------------------------------------
(* Properties *)

\* Wherever the process dies, what it finds again is a state that was saved,
\* whole, once anything was; also if state.json was damaged and the backup
\* has to do.
SavedOrNothing == ~overlapped /\ kept # {} => Recovered \in kept

\* models.py calls the event id a monotonic counter for those who remember
\* how far they have read: an id that was saved is never given to another
\* event by a later run.
NoSavedIdReused ==
    ~overlapped /\ ~damaged =>
        \A k \in kept, e \in journal : e.boot > k.boot => e.id > k.id

\* A save writes the state of that moment, and a crash goes back to the last.
Durable == INSTANCE DurableState WITH
    mem  <- IF up THEN mem ELSE Recovered,
    disk <- Recovered,
    sure <- ~(overlapped \/ damaged)
ImplementsDurableState == Durable!Spec

\* "The next tick writes the same state again": when changes stop and the file
\* is free, disk and memory agree at last, whatever raced or was lost before.
Quiet == mem' = mem /\ up /\ up' /\ \A t \in Threads : save'[t].tries <= save[t].tries
CatchesUp == <>[][Quiet]_vars => <>[](up => main = Whole(mem))

=============================================================================
