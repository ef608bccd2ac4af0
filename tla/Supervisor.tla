------------------------------ MODULE Supervisor ------------------------------
(***************************************************************************)
(* The lifecycle of the runtime process (process_manager.py): start, stop, *)
(* restart, start_supervisor, stop_supervisor and the crash monitor, run   *)
(* by the threads of one or more host processes (Desktop, gateway, tests)  *)
(* that share a record of the running process (.runtime.json), the token   *)
(* that authenticates calls to it (.rpc-token) and a start lock.           *)
(*                                                                         *)
(* A host thread is a stack of operations, as in RoomControl; it is inside *)
(* `with _lock` while an "unlock" is pending in it, and inside             *)
(* `with _start_lock()` while an "unflock" is.  A runtime process binds    *)
(* the RPC port or exits; it answers a call only if it listens, is not     *)
(* busy, and the token file holds the token it was started with, which is  *)
(* identified here with its process id.  Left out: configuration, secrets, *)
(* the number of failures (it only lengthens the backoff), log files.      *)
(***************************************************************************)
EXTENDS Naturals, Sequences, FiniteSets

CONSTANTS
    Hosts,        \* host processes
    Callers,      \* names of the host threads that call the manager
    Monitors,     \* bound: names of the monitor threads a host can have at once
    Pids,         \* bound: process ids in use at once
    Calls,        \* what callers do: "start_supervisor", "stop_supervisor", "restart"
    Faults,       \* what goes wrong: "die", "busy", "hang", "slow", "crash", "reuse"
    LockTimesOut  \* msvcrt.LK_LOCK gives up after ten seconds (flock never does)

ASSUME NamesAssumption ==
    /\ Callers \cap Monitors = {}
    /\ "none" \notin Pids \cup Callers \cup Monitors
    /\ LockTimesOut \in BOOLEAN

Threads == Hosts \X (Callers \cup Monitors)

VARIABLES
    todo,         \* what each host thread has still to execute
    process,      \* _process of each host
    stopSet,      \* _supervisor_stop of each host
    monitor,      \* _supervisor_thread of each host
    rooted,       \* _supervisor_root of each host is set
    record,       \* the pid in .runtime.json
    fresh,        \* its started_at is less than five seconds ago
    token,        \* the content of .rpc-token, named by the process it was made for
    proc,         \* the state of each process
    port          \* the process that listens on the RPC port

hostVars == <<process, stopSet, monitor, rooted>>
fileVars == <<record, fresh, token>>
procVars == <<proc, port>>
vars == <<todo, hostVars, fileVars, procVars>>

Op(name) == [op |-> name, pid |-> "none", answered |-> FALSE]
AwaitStop(p, answered) == [op |-> "awaitStop", pid |-> p, answered |-> answered]
OpNames == {"enterSup", "launch", "unlock", "flock", "unflock", "enterStart", "check",
            "awaitOld", "clearOld", "token", "spawn", "record", "ready", "join", "stopLock",
            "read", "shutdown", "awaitStop", "clearRecord", "clearToken", "forget", "look", "lookSilent", "backoff"}

TypeOK ==
    /\ todo \in [Threads -> Seq([op : OpNames, pid : Pids \cup Monitors \cup {"none"},
                         answered : BOOLEAN])]
    /\ process \in [Hosts -> Pids \cup {"none"}]
    /\ stopSet \in [Hosts -> BOOLEAN]
    /\ monitor \in [Hosts -> Monitors \cup {"none"}]
    /\ rooted \in [Hosts -> BOOLEAN]
    /\ record \in Pids \cup {"none"} /\ token \in Pids \cup {"none"}
    /\ proc \in [Pids -> {"dead", "boot", "serving", "busy", "hung", "stopping", "alien"}]
    /\ fresh \in BOOLEAN
    /\ port \in Pids \cup {"none"}
    \* _process.pid and _process.poll() are never taken of None.
    /\ \A t \in Threads : Head(todo[t] \o <<Op("look")>>).op \in {"record", "ready"}
                            => process[t[1]] \in Pids

Init ==
    /\ todo = [t \in Threads |-> <<>>]
    /\ process = [h \in Hosts |-> "none"]
    /\ stopSet = [h \in Hosts |-> FALSE]
    /\ monitor = [h \in Hosts |-> "none"]
    /\ rooted = [h \in Hosts |-> FALSE]
    /\ record = "none" /\ token = "none"
    /\ proc = [p \in Pids |-> "dead"] /\ port = "none" /\ fresh = FALSE

-----------------------------------------------------------------------------
(* Threads, locks, calls *)

Idle(t) == todo[t] = <<>>
At(t, name) == todo[t] # <<>> /\ Head(todo[t]).op = name
Pending(t, name) == \E i \in DOMAIN todo[t] : todo[t][i].op = name
Continue(t, ops) == todo' = [todo EXCEPT ![t] = ops \o Tail(@)]

\* _lock is an RLock of the host, the start lock a file lock of the machine
\* that not even the same process can take twice.
LockFree(t) == \A u \in Threads \ {t} : u[1] = t[1] => ~Pending(u, "unlock")
FileFreeAlways == TRUE    \* mutant: no start lock
FileFree == \A u \in Threads : ~Pending(u, "unflock")

\* Mutant: an exception ends the monitor, as it once did.
RaiseEnds(t) == todo' = [todo EXCEPT ![t] = <<>>]
\* An exception leaves every `with`; the monitor survives it, a call ends.
Raise(t) == todo' = [todo EXCEPT ![t] = IF t[2] \in Monitors THEN <<Op("look")>> ELSE <<>>]

Alive(p) == p # "none" /\ proc[p] # "dead"
\* An authenticated call (ping, shutdown) that is answered.
Answers == port # "none" /\ proc[port] = "serving" /\ token = port
\* _managed_runtime_alive
Managed(h) ==
    /\ Alive(record)
    /\ Answers \/ (process[h] = record /\ fresh)

-----------------------------------------------------------------------------
(* start *)

\* start_supervisor takes _lock first; restart and the monitor do not.
EnterSup(t) ==
    /\ At(t, "enterSup") /\ LockFree(t)
    /\ rooted' = [rooted EXCEPT ![t[1]] = TRUE]
    /\ Continue(t, <<Op("flock"), Op("launch"), Op("unlock")>>)
    /\ UNCHANGED <<process, stopSet, monitor, fileVars, procVars>>

TakeStartLock(t) ==
    /\ At(t, "flock") /\ FileFree
    /\ Continue(t, <<Op("enterStart"), Op("unflock")>>)
    /\ UNCHANGED <<hostVars, fileVars, procVars>>

\* Mutant: the file lock is waited for without end, as flock does.
StartLockNever(t) == At(t, "flock") /\ ~FileFree /\ UNCHANGED vars
StartLockGivesUp(t) ==
    /\ LockTimesOut
    /\ At(t, "flock") /\ ~FileFree
    /\ Raise(t)
    /\ UNCHANGED <<hostVars, fileVars, procVars>>

EnterStart(t) ==
    /\ At(t, "enterStart") /\ LockFree(t)
    /\ Continue(t, <<Op("check"), Op("unlock")>>)
    /\ UNCHANGED <<hostVars, fileVars, procVars>>

SpawnSteps == <<Op("token"), Op("record"), Op("ready")>>

\* Mutant: whatever process was recorded is terminated.
TerminatesAnyOld(t) == Alive(record)
TerminatesOld(t) == process[t[1]] = record /\ Alive(record)

\* A live runtime is kept.  A recorded one that does not answer is terminated
\* if it is a child of this host, and forgotten otherwise.
Check(t) ==
    /\ At(t, "check")
    /\ IF Managed(t[1]) THEN Continue(t, <<>>) /\ UNCHANGED proc
       ELSE IF record = "none" THEN Continue(t, SpawnSteps) /\ UNCHANGED proc
       ELSE IF TerminatesOld(t)
       THEN /\ proc' = [proc EXCEPT ![record] = "stopping"]
            /\ Continue(t, <<Op("awaitOld"), Op("clearOld")>> \o SpawnSteps)
       ELSE Continue(t, <<Op("clearOld")>> \o SpawnSteps) /\ UNCHANGED proc
    /\ UNCHANGED <<hostVars, fileVars, port>>

\* Two seconds for the old process.
AwaitOld(t) ==
    /\ At(t, "awaitOld")
    /\ ~Alive(process[t[1]]) \/ "slow" \in Faults
    /\ Continue(t, <<>>)
    /\ UNCHANGED <<hostVars, fileVars, procVars>>

\* A new token, for the process that is about to be made.
WriteToken(t) ==
    /\ At(t, "token")
    /\ \E p \in Pids :
        /\ proc[p] = "dead" /\ p # record
        /\ \A h \in Hosts \ {t[1]} : process[h] # p
        /\ \A u \in Threads : \A i \in DOMAIN todo[u] : todo[u][i].pid # p
        /\ token' = p
        /\ Continue(t, <<[Op("spawn") EXCEPT !.pid = p]>>)
    /\ UNCHANGED <<hostVars, record, fresh, procVars>>

Spawn(t) ==
    /\ At(t, "spawn")
    /\ LET p == Head(todo[t]).pid
       IN /\ proc' = [proc EXCEPT ![p] = "boot"]
          /\ process' = [process EXCEPT ![t[1]] = p]
    /\ Continue(t, <<>>)
    /\ UNCHANGED <<stopSet, monitor, rooted, fileVars, port>>

WriteRecord(t) ==
    /\ At(t, "record")
    /\ record' = process[t[1]] /\ fresh' = TRUE
    /\ Continue(t, <<>>)
    /\ UNCHANGED <<hostVars, token, procVars>>

\* The first ping that is answered.
Ready(t) ==
    /\ At(t, "ready") /\ Answers
    /\ Continue(t, <<>>)
    /\ UNCHANGED <<hostVars, fileVars, procVars>>

\* The process has exited, or ten seconds are over without an answer.
NotReady(t) ==
    /\ At(t, "ready") /\ ~Answers
    /\ LET p == process[t[1]]
       IN /\ ~Alive(p) \/ token # p \/ proc[p] = "hung" \/ "slow" \in Faults
          /\ proc' = IF Alive(p) THEN [proc EXCEPT ![p] = "stopping"] ELSE proc
    /\ process' = [process EXCEPT ![t[1]] = "none"]
    /\ record' = "none" /\ token' = "none" /\ fresh' = FALSE
    /\ Raise(t)
    /\ UNCHANGED <<stopSet, monitor, rooted, port>>

\* Leaving a `with`.
Release(t) ==
    /\ At(t, "unlock") \/ At(t, "unflock")
    /\ Continue(t, <<>>)
    /\ UNCHANGED <<hostVars, fileVars, procVars>>

\* The rest of start_supervisor: a monitor thread, unless one is alive.
Launch(t) ==
    /\ At(t, "launch")
    /\ LET h == t[1]
       IN IF monitor[h] # "none" /\ ~Idle(<<h, monitor[h]>>)
          THEN Continue(t, <<>>) /\ UNCHANGED <<stopSet, monitor>>
          ELSE \E m \in Monitors :
                /\ Idle(<<h, m>>)
                /\ stopSet' = [stopSet EXCEPT ![h] = FALSE]
                /\ monitor' = [monitor EXCEPT ![h] = m]
                /\ todo' = [todo EXCEPT ![t] = Tail(@), ![<<h, m>>] = <<Op("look")>>]
    /\ UNCHANGED <<process, rooted, fileVars, procVars>>

-----------------------------------------------------------------------------
(* stop *)

\* join(timeout=4): a monitor in the middle of a start, or of a ping that takes
\* long, is left alone, and so is one that was told to go on after all.
Join(t) ==
    /\ At(t, "join")
    /\ LET m == <<t[1], Head(todo[t]).pid>>
       IN \/ m[2] = "none" \/ ~stopSet[t[1]] \/ "slow" \in Faults
          \/ m[2] # "none" /\ (Idle(m) \/ Pending(m, "flock") \/ Pending(m, "unflock"))
    /\ monitor' = [monitor EXCEPT ![t[1]] = "none"]
    /\ Continue(t, <<>>)
    /\ UNCHANGED <<process, stopSet, rooted, fileVars, procVars>>

EnterStop(t) ==
    /\ At(t, "stopLock") /\ LockFree(t)
    /\ Continue(t, <<Op("read"), Op("unlock")>>)
    /\ UNCHANGED <<hostVars, fileVars, procVars>>

\* The process that stop goes on about is the one on record by now.
Read(t) ==
    /\ At(t, "read")
    /\ IF record = "none"
       THEN process' = [process EXCEPT ![t[1]] = "none"] /\ Continue(t, <<>>)
       ELSE Continue(t, <<[Op("shutdown") EXCEPT !.pid = record]>>) /\ UNCHANGED process
    /\ UNCHANGED <<stopSet, monitor, rooted, fileVars, procVars>>

\* The shutdown call reaches whoever listens with the token of the file by then.
Shutdown(t) ==
    /\ At(t, "shutdown")
    /\ proc' = IF Answers THEN [proc EXCEPT ![port] = "stopping"] ELSE proc
    /\ Continue(t, <<AwaitStop(Head(todo[t]).pid, Answers), Op("clearRecord"), Op("clearToken")>>)
    /\ UNCHANGED <<hostVars, fileVars, port>>

\* owned_locally (_process is set under _lock only) or authenticated.
MaySignal(t) == process[t[1]] = Head(todo[t]).pid \/ Head(todo[t]).answered

\* Five seconds for the process, then SIGTERM to whoever has its id.
AwaitStopped(t) ==
    /\ At(t, "awaitStop")
    /\ LET p == Head(todo[t]).pid
       IN \/ (~MaySignal(t) \/ ~Alive(p)) /\ UNCHANGED proc
          \/ /\ MaySignal(t) /\ Alive(p)
             /\ proc[p] # "stopping" \/ "slow" \in Faults
             /\ proc' = [proc EXCEPT ![p] = "stopping"]
    /\ Continue(t, <<>>)
    /\ UNCHANGED <<hostVars, fileVars, port>>

\* The two files go one after the other; another host may start in between.
ClearRecord(t) ==
    /\ At(t, "clearRecord") \/ At(t, "clearOld")
    /\ record' = "none" /\ fresh' = FALSE
    /\ Continue(t, <<>>)
    /\ UNCHANGED <<hostVars, token, procVars>>

ClearToken(t) ==
    /\ At(t, "clearToken")
    /\ token' = "none"
    /\ process' = [process EXCEPT ![t[1]] = "none"]
    /\ Continue(t, <<>>)
    /\ UNCHANGED <<stopSet, monitor, rooted, record, fresh, procVars>>

Forget(t) ==
    /\ At(t, "forget")
    /\ rooted' = [rooted EXCEPT ![t[1]] = FALSE]
    /\ Continue(t, <<>>)
    /\ UNCHANGED <<process, stopSet, monitor, fileVars, procVars>>

-----------------------------------------------------------------------------
(* The monitor: _supervise_loop *)

MonitorEnds(t) ==
    /\ At(t, "look") \/ At(t, "lookSilent") \/ At(t, "backoff")
    /\ stopSet[t[1]]
    /\ todo' = [todo EXCEPT ![t] = <<>>]
    /\ UNCHANGED <<hostVars, fileVars, procVars>>

\* A runtime that is alive but silent is given twenty seconds.
Look(t) ==
    /\ At(t, "look") \/ At(t, "lookSilent")
    /\ ~stopSet[t[1]]
    /\ \/ Managed(t[1]) /\ Continue(t, <<Op("look")>>)
       \/ ~Managed(t[1]) /\ Alive(record) /\ Continue(t, <<Op("lookSilent")>>)
       \/ /\ ~Managed(t[1]) /\ (Alive(record) => At(t, "lookSilent"))
          /\ Continue(t, <<Op("backoff")>>)
    /\ UNCHANGED <<hostVars, fileVars, procVars>>

GraceOver(t) == Look(t) /\ Head(todo'[t]).op = "backoff"

Backoff(t) ==
    /\ At(t, "backoff") /\ ~stopSet[t[1]]
    /\ Continue(t, <<Op("flock"), Op("look")>>)
    /\ UNCHANGED <<hostVars, fileVars, procVars>>

-----------------------------------------------------------------------------
(* The runtime process *)

\* It binds the port, or stops again when somebody else has it.
Bind(p) ==
    /\ proc[p] = "boot"
    /\ IF port = "none"
       THEN port' = p /\ proc' = [proc EXCEPT ![p] = "serving"]
       ELSE UNCHANGED port /\ proc' = [proc EXCEPT ![p] = "stopping"]
    /\ UNCHANGED <<todo, hostVars, fileVars>>

Exit(p) ==
    /\ proc[p] = "stopping" \/ ("die" \in Faults /\ proc[p] \in {"serving", "busy", "hung"})
    /\ proc' = [proc EXCEPT ![p] = "dead"]
    /\ port' = IF port = p THEN "none" ELSE port
    /\ UNCHANGED <<todo, hostVars, fileVars>>

GetsBusy(p) ==
    /\ proc[p] = "serving"
    /\ \/ "busy" \in Faults /\ proc' = [proc EXCEPT ![p] = "busy"]
       \/ "hang" \in Faults /\ proc' = [proc EXCEPT ![p] = "hung"]
    /\ UNCHANGED <<todo, hostVars, fileVars, port>>

BusyEnds(p) ==
    /\ proc[p] = "busy"
    /\ proc' = [proc EXCEPT ![p] = "serving"]
    /\ UNCHANGED <<todo, hostVars, fileVars, port>>

\* Five seconds after started_at of the record.
Ages ==
    /\ fresh /\ fresh' = FALSE
    /\ UNCHANGED <<todo, hostVars, record, token, procVars>>

\* Another program gets the id of a runtime nobody holds a handle of any more
\* and that nobody is about to make, be a stop waiting for its exit or not.
PidReused(p) ==
    /\ "reuse" \in Faults /\ proc[p] = "dead"
    /\ \A h \in Hosts : process[h] # p
    /\ \A u \in Threads : ~(At(u, "spawn") /\ Head(todo[u]).pid = p)
    /\ proc' = [proc EXCEPT ![p] = "alien"]
    /\ UNCHANGED <<todo, hostVars, fileVars, port>>

\* A host process dies: its threads and locks go, the runtime stays.
Crash(h) ==
    /\ "crash" \in Faults
    /\ \E t \in Threads : t[1] = h /\ ~Idle(t)
    /\ todo' = [t \in Threads |-> IF t[1] = h THEN <<>> ELSE todo[t]]
    /\ process' = [process EXCEPT ![h] = "none"]
    /\ stopSet' = [stopSet EXCEPT ![h] = FALSE]
    /\ monitor' = [monitor EXCEPT ![h] = "none"]
    /\ rooted' = [rooted EXCEPT ![h] = FALSE]
    /\ UNCHANGED <<fileVars, procVars>>

-----------------------------------------------------------------------------
Begin(t, name, ops) ==
    /\ name \in Calls
    /\ t[2] \in Callers /\ Idle(t)
    /\ todo' = [todo EXCEPT ![t] = ops]

Call(t) ==
    \/ /\ \E m \in Monitors : Idle(<<t[1], m>>) \/ m = monitor[t[1]]    \* bound
       /\ Begin(t, "start_supervisor", <<Op("enterSup")>>)
       /\ UNCHANGED stopSet
    \/ Begin(t, "restart", <<Op("stopLock"), Op("flock")>>) /\ UNCHANGED stopSet
    \/ /\ monitor[t[1]] # "none" \/ process[t[1]] # "none" \/ rooted[t[1]]
       /\ stopSet' = [stopSet EXCEPT ![t[1]] = TRUE]
       /\ Begin(t, "stop_supervisor", <<[Op("join") EXCEPT !.pid = monitor[t[1]]],
                                         Op("stopLock"), Op("forget")>>)

Request(t) == Call(t) /\ UNCHANGED <<process, monitor, rooted, fileVars, procVars>>

Step(t) ==
    \/ EnterSup(t) \/ TakeStartLock(t) \/ StartLockGivesUp(t) \/ EnterStart(t) \/ Check(t)
    \/ AwaitOld(t) \/ WriteToken(t) \/ Spawn(t) \/ WriteRecord(t)
    \/ Ready(t) \/ NotReady(t) \/ Release(t) \/ Launch(t)
    \/ Join(t) \/ EnterStop(t) \/ Read(t) \/ Shutdown(t) \/ AwaitStopped(t) \/ ClearRecord(t) \/ ClearToken(t) \/ Forget(t)
    \/ MonitorEnds(t) \/ Look(t) \/ Backoff(t)

ProcessStep(p) == Bind(p) \/ (proc[p] = "stopping" /\ Exit(p)) \/ BusyEnds(p)

Next ==
    \/ \E t \in Threads : Request(t) \/ Step(t)
    \/ \E p \in Pids : Bind(p) \/ Exit(p) \/ GetsBusy(p) \/ BusyEnds(p) \/ PidReused(p)
    \/ Ages \/ \E h \in Hosts : Crash(h)

Spec == Init /\ [][Next]_vars

\* Threads run, get a lock that is free again and again, processes boot, stop
\* and become responsive, time passes.
TakesLock(t) == EnterSup(t) \/ TakeStartLock(t) \/ EnterStart(t) \/ EnterStop(t)

Fairness ==
    /\ \A t \in Threads : WF_vars(Step(t)) /\ SF_vars(TakesLock(t)) /\ WF_vars(GraceOver(t))
    /\ WF_vars(Ages) /\ \A p \in Pids : WF_vars(ProcessStep(p))

FairSpec == Spec /\ Fairness

-----------------------------------------------------------------------------
(* Properties *)

\* Hosts start and stop the runtime at the same time, and stops take no file
\* lock.  Whatever files that leaves behind, the token is never that of another
\* runtime than the one on record: with it, a caller would stop a process that
\* is not the one whose id it then signals.
TokenIsTheRecorded == record # "none" => token \in {record, "none"}

\* A program that merely has the id of an old runtime is signalled by no start,
\* by no stop of the host's own child and by no stop that nobody answered; and no
\* answer counts for it while its id is on record.  So a stop hits it in two cases
\* only, which the code has no guard against: its id changed hands after the old
\* runtime had answered, or another host started a runtime, which answered, between
\* the stop's look at the record and its call.
StrangersLeftAlone ==
    [][\A p \in Pids : proc[p] = "alien" =>
        /\ proc'[p] = "stopping" =>
             \E t \in Threads : AwaitStopped(t) /\ Head(todo[t]) = AwaitStop(p, TRUE)
        /\ \A t \in Threads : Shutdown(t) /\ Head(todo[t]).pid = p /\ Answers => record # p]_vars

\* Calls return, although start_supervisor takes the two locks in the other
\* order than the monitor does.
CallsReturn == \A t \in Threads : t[2] \in Callers => (~Idle(t) ~> Idle(t))

Watched(h) == monitor[h] # "none" /\ ~stopSet[h]

\* A host that started its monitor has a runtime that answers, again and again
\* until it stops the monitor, however often the runtime dies.
RuntimeComesBack == \A h \in Hosts : Watched(h) ~> (Answers \/ ~Watched(h))

(* Statements of the code's comments that it does not keep. *)

\* stop: "Never signal a merely recorded PID unless it is this manager's child or
\* answered the authenticated runtime RPC. PIDs are reusable."  Somebody answers,
\* but it need not be the process on record any more.
OnlyWhoAnswered == [][\A p \in Pids : proc[p] = "alien" => proc'[p] # "stopping"]_vars

\* start_supervisor: "Start the runtime and one gateway-lifetime crash monitor."
OneMonitor ==
    \A h \in Hosts : ~stopSet[h] => Cardinality({m \in Monitors : ~Idle(<<h, m>>)}) <= 1

\* _supervise_loop: "Running, just not answering. Busy until proven hung."  Only
\* the monitor, after its twenty seconds, drops a runtime that is busy.
BusyUntilProvenHung ==
    [][\A t \in Threads : At(t, "clearOld") /\ ClearRecord(t) /\ proc[record] = "busy"
            => t[2] \in Monitors]_vars
=============================================================================
