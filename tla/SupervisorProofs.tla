--------------------------- MODULE SupervisorProofs ---------------------------
(***************************************************************************)
(* Proofs about Supervisor, for any hosts, threads, process ids, faults:   *)
(* the token is never that of another runtime than the one on record, and  *)
(* what a host signals on the strength of its own handle, or of an answer  *)
(* of the process on record, is no stranger that merely has an old id.     *)
(*                                                                         *)
(* The argument.  Everything a start does it does under the start lock and *)
(* its host's lock (Guarded), each of which has one holder (OneStart,      *)
(* OneInside), and in order (Ordered).  So from the moment the old record  *)
(* is gone until the new one is written, there is none (NoRecordYet), and  *)
(* the token, unless a stop has cleared it, is that of the process the new *)
(* record will name (TokenOfMade).  A process is signalled because this    *)
(* host holds a handle of it, which keeps its id from being used again, or *)
(* because somebody answered; and what answers has the token of the        *)
(* record, so as long as the record is the one that was read, it is the    *)
(* process on record that answered (WhoAnswers).                           *)
(*                                                                         *)
(* Types hang together with the handle: a start that has made its process  *)
(* and still has to record it or to wait for it finds the handle           *)
(* (HandleHeld), because stop and NotReady drop the handle of their host   *)
(* inside the host's lock only, where the start is.                        *)
(***************************************************************************)
EXTENDS Supervisor, SequenceTheorems, TLAPS

Ops == [op : OpNames, pid : Pids \cup Monitors \cup {"none"}, answered : BOOLEAN]
States == {"dead", "boot", "serving", "busy", "hung", "stopping", "alien"}

-----------------------------------------------------------------------------
(* Stacks *)

\* The operations of a start come in this order; 8 stands for all others.
Rank(name) ==
    CASE name = "spawn" -> 0
      [] name = "awaitOld" -> 1
      [] name = "clearOld" -> 2
      [] name = "token" -> 3
      [] name = "record" -> 5
      [] name = "ready" -> 6
      [] name = "check" -> 7
      [] OTHER -> 8

NeedsFile(name) == Rank(name) < 8 \/ name = "enterStart"
NeedsLock(name) ==
    Rank(name) < 8 \/ name \in {"read", "shutdown", "awaitStop", "clearRecord", "clearToken"}

Ordered(s) == \A i, j \in DOMAIN s : i < j /\ Rank(s[j].op) < 8 => Rank(s[i].op) < Rank(s[j].op)

Below(s, i, name) == \E j \in DOMAIN s : i < j /\ s[j].op = name

Guarded(s) ==
    \A i \in DOMAIN s : /\ NeedsFile(s[i].op) => Below(s, i, "unflock")
                        /\ NeedsLock(s[i].op) => Below(s, i, "unlock")

Stack(s) == s \in Seq(Ops) /\ Ordered(s) /\ Guarded(s)

Has(s, name) == \E i \in DOMAIN s : s[i].op = name

\* What may be done instead of head: nothing that comes later than it, and
\* nothing that needs a lock it does not have.
Instead(ops, head) ==
    /\ ops \in Seq(Ops) /\ Ordered(ops)
    /\ \A i \in DOMAIN ops :
        /\ Rank(ops[i].op) <= Rank(head)
        /\ NeedsFile(ops[i].op) => NeedsFile(head) \/ Below(ops, i, "unflock")
        /\ NeedsLock(ops[i].op) => NeedsLock(head) \/ Below(ops, i, "unlock")

LEMMA RankType == \A name : Rank(name) \in 0..8
BY DEF Rank

LEMMA StackFacts ==
    ASSUME NEW s, Stack(s)
    PROVE  /\ Len(s) \in Nat /\ DOMAIN s = 1..Len(s)
           /\ \A i \in DOMAIN s : s[i] \in Ops
           /\ s # <<>> => /\ Len(s) >= 1 /\ 1 \in DOMAIN s /\ Head(s) = s[1] /\ Head(s) \in Ops
                          /\ Tail(s) \in Seq(Ops) /\ Len(Tail(s)) = Len(s) - 1
                          /\ DOMAIN Tail(s) = 1..(Len(s) - 1)
                          /\ \A i \in 1..(Len(s) - 1) : Tail(s)[i] = s[i + 1]
<1>1. Len(s) \in Nat /\ DOMAIN s = 1..Len(s) /\ \A i \in 1..Len(s) : s[i] \in Ops
  BY LenProperties, ElementOfSeq DEF Stack
<1>2. s # <<>> => /\ Len(s) >= 1 /\ Head(s) = s[1]
                  /\ Tail(s) \in Seq(Ops) /\ Len(Tail(s)) = Len(s) - 1
                  /\ \A i \in 1..(Len(s) - 1) : Tail(s)[i] = s[i + 1]
  BY HeadTailProperties, EmptySeq, LenProperties DEF Stack
<1>3. s # <<>> => DOMAIN Tail(s) = 1..(Len(s) - 1)
  BY <1>1, <1>2, LenProperties
<1> QED BY <1>1, <1>2, <1>3

\* What is below the first operation of a start comes later, and nothing of a
\* start is below anything else.
LEMMA TailRank ==
    ASSUME NEW s, Stack(s), s # <<>>, NEW name, Has(Tail(s), name), Rank(name) < 8
    PROVE  Rank(Head(s).op) < Rank(name)
<1>1. PICK i \in DOMAIN Tail(s) : Tail(s)[i].op = name
  BY DEF Has
<1>2. i + 1 \in DOMAIN s /\ 1 \in DOMAIN s /\ 1 < i + 1 /\ s[i + 1].op = name /\ Head(s) = s[1]
  BY <1>1, StackFacts
<1> QED BY <1>2 DEF Stack, Ordered

LEMMA HasParts ==
    ASSUME NEW s, Stack(s), s # <<>>, NEW name
    PROVE  Has(s, name) <=> Head(s).op = name \/ Has(Tail(s), name)
<1>1. \A i \in DOMAIN s : i = 1 \/ (i - 1 \in DOMAIN Tail(s) /\ s[i] = Tail(s)[i - 1])
  BY StackFacts
<1>2. \A i \in DOMAIN Tail(s) : i + 1 \in DOMAIN s /\ s[i + 1] = Tail(s)[i]
  BY StackFacts
<1>3. 1 \in DOMAIN s /\ Head(s) = s[1]
  BY StackFacts
<1> QED BY <1>1, <1>2, <1>3 DEF Has

LEMMA GuardedPending ==
    ASSUME NEW s, Stack(s), NEW name, Has(s, name)
    PROVE  /\ NeedsFile(name) => Has(s, "unflock")
           /\ NeedsLock(name) => Has(s, "unlock")
BY DEF Has, Stack, Guarded, Below

LEMMA EmptyStack == Stack(<<>>) /\ \A name : ~Has(<<>>, name)
<1>1. <<>> \in Seq(Ops) /\ DOMAIN <<>> = {}
  BY EmptySeq
<1> QED BY <1>1 DEF Stack, Ordered, Guarded, Has

LEMMA ReplacedStack ==
    ASSUME NEW s, Stack(s), s # <<>>, NEW ops, Instead(ops, Head(s).op)
    PROVE  /\ Stack(ops \o Tail(s))
           /\ \A name : Has(ops \o Tail(s), name) <=> Has(ops, name) \/ Has(Tail(s), name)
           /\ \A i \in DOMAIN (ops \o Tail(s)) :
                \/ \E j \in DOMAIN ops : (ops \o Tail(s))[i] = ops[j]
                \/ \E j \in DOMAIN s : (ops \o Tail(s))[i] = s[j]
<1> DEFINE t == Tail(s)
           r == ops \o Tail(s)
           n == Len(ops)
<1>1. /\ Len(s) \in Nat /\ Len(s) >= 1 /\ DOMAIN s = 1..Len(s) /\ Head(s) = s[1]
      /\ t \in Seq(Ops) /\ Len(t) = Len(s) - 1 /\ DOMAIN t = 1..(Len(s) - 1)
      /\ \A i \in 1..(Len(s) - 1) : t[i] = s[i + 1]
  BY StackFacts
<1>2. ops \in Seq(Ops) /\ n \in Nat /\ DOMAIN ops = 1..n
  BY LenProperties DEF Instead
<1> HIDE DEF t, n
<1>3. /\ r \in Seq(Ops) /\ Len(r) = n + (Len(s) - 1)
      /\ \A i \in 1..(n + (Len(s) - 1)) : r[i] = IF i <= n THEN ops[i] ELSE t[i - n]
  BY <1>1, <1>2, ConcatProperties DEF t, n
<1>4. DOMAIN r = 1..(n + (Len(s) - 1))
  BY <1>3, LenProperties
<1> HIDE DEF r
<1>5. \A i \in 1..n : i \in DOMAIN r /\ i \in DOMAIN ops /\ r[i] = ops[i]
  BY <1>1, <1>2, <1>3, <1>4
<1>6. \A i \in 1..(Len(s) - 1) : n + i \in DOMAIN r /\ i + 1 \in DOMAIN s /\ r[n + i] = s[i + 1]
  BY <1>1, <1>2, <1>3, <1>4
<1>7. \A i \in DOMAIN r : i \in 1..n \/ (i - n \in 1..(Len(s) - 1) /\ n + (i - n) = i)
  BY <1>1, <1>2, <1>4
<1>8. Ordered(r)
  <2> SUFFICES ASSUME NEW i \in DOMAIN r, NEW j \in DOMAIN r, i < j, Rank(r[j].op) < 8
               PROVE  Rank(r[i].op) < Rank(r[j].op)
    BY DEF Ordered
  <2>1. CASE j \in 1..n
    <3>1. i \in 1..n
      BY <1>2, <1>4, <2>1
    <3> QED BY <1>5, <2>1, <3>1 DEF Instead, Ordered
  <2>2. CASE j \notin 1..n
    <3>1. (j - n) + 1 \in DOMAIN s /\ r[j] = s[(j - n) + 1] /\ 1 \in DOMAIN s /\ 1 < (j - n) + 1
      BY <1>1, <1>2, <1>4, <1>6, <1>7, <2>2
    <3>2. Rank(s[1].op) < Rank(r[j].op)
      BY <3>1 DEF Stack, Ordered
    <3>3. CASE i \in 1..n
      <4>1. Rank(r[i].op) <= Rank(s[1].op)
        BY <1>1, <1>5, <3>3 DEF Instead
      <4> QED BY <3>2, <4>1, RankType
    <3>4. CASE i \notin 1..n
      <4>1. (i - n) + 1 \in DOMAIN s /\ r[i] = s[(i - n) + 1] /\ (i - n) + 1 < (j - n) + 1
        BY <1>1, <1>2, <1>4, <1>6, <1>7, <3>4
      <4> QED BY <3>1, <4>1 DEF Stack, Ordered
    <3> QED BY <3>3, <3>4
  <2> QED BY <2>1, <2>2
\* What guards an operation of the old stack, the first included, is below the
\* new ones still.
<1>9. ASSUME NEW k \in DOMAIN s, NEW name, Below(s, k, name), NEW i \in DOMAIN r, i < n + k
      PROVE  Below(r, i, name)
  <2>1. PICK j \in DOMAIN s : k < j /\ s[j].op = name
    BY <1>9 DEF Below
  <2>2. j - 1 \in 1..(Len(s) - 1) /\ (j - 1) + 1 = j /\ i < n + (j - 1)
    BY <1>1, <1>2, <1>4, <1>9, <2>1
  <2>3. n + (j - 1) \in DOMAIN r /\ r[n + (j - 1)].op = name
    BY <1>6, <2>1, <2>2
  <2> QED BY <2>2, <2>3 DEF Below
<1>10. Guarded(r)
  <2> SUFFICES ASSUME NEW i \in DOMAIN r
               PROVE  /\ NeedsFile(r[i].op) => Below(r, i, "unflock")
                      /\ NeedsLock(r[i].op) => Below(r, i, "unlock")
    BY DEF Guarded
  <2>1. CASE i \in 1..n
    <3>1. \A name : Below(ops, i, name) => Below(r, i, name)
      BY <1>2, <1>5 DEF Below
    <3>2. 1 \in DOMAIN s /\ i < n + 1
      BY <1>1, <1>2, <2>1
    <3>3. \A name : Below(s, 1, name) => Below(r, i, name)
      BY <1>9, <3>2
    <3>4. /\ NeedsFile(s[1].op) => Below(s, 1, "unflock")
          /\ NeedsLock(s[1].op) => Below(s, 1, "unlock")
      BY <3>2 DEF Stack, Guarded
    <3>5. /\ NeedsFile(ops[i].op) => NeedsFile(s[1].op) \/ Below(ops, i, "unflock")
          /\ NeedsLock(ops[i].op) => NeedsLock(s[1].op) \/ Below(ops, i, "unlock")
      BY <1>1, <1>5, <2>1 DEF Instead
    <3> QED BY <1>5, <2>1, <3>1, <3>3, <3>4, <3>5
  <2>2. CASE i \notin 1..n
    <3>1. (i - n) + 1 \in DOMAIN s /\ r[i] = s[(i - n) + 1] /\ i < n + ((i - n) + 1)
      BY <1>1, <1>2, <1>4, <1>6, <1>7, <2>2
    <3> QED BY <1>9, <3>1 DEF Stack, Guarded
  <2> QED BY <2>1, <2>2
<1>11. ASSUME NEW name PROVE Has(r, name) <=> Has(ops, name) \/ Has(t, name)
  <2>1. Has(ops, name) => Has(r, name)
    BY <1>2, <1>5 DEF Has
  <2>2. Has(t, name) => Has(r, name)
    BY <1>1, <1>6 DEF Has
  <2>3. ASSUME NEW i \in DOMAIN r, r[i].op = name PROVE Has(ops, name) \/ Has(t, name)
    <3>1. CASE i \in 1..n
      BY <1>5, <2>3, <3>1 DEF Has
    <3>2. CASE i \notin 1..n
      <4>1. i - n \in DOMAIN t /\ r[i] = t[i - n]
        BY <1>1, <1>2, <1>4, <1>6, <1>7, <3>2
      <4> QED BY <2>3, <4>1 DEF Has
    <3> QED BY <3>1, <3>2
  <2> QED BY <2>1, <2>2, <2>3 DEF Has
<1>12. ASSUME NEW i \in DOMAIN r
       PROVE  (\E j \in DOMAIN ops : r[i] = ops[j]) \/ (\E j \in DOMAIN s : r[i] = s[j])
  <2>1. CASE i \in 1..n
    BY <1>5, <2>1
  <2>2. CASE i \notin 1..n
    <3>1. (i - n) + 1 \in DOMAIN s /\ r[i] = s[(i - n) + 1]
      BY <1>1, <1>2, <1>4, <1>6, <1>7, <2>2
    <3> QED BY <3>1
  <2> QED BY <2>1, <2>2
<1> QED BY <1>3, <1>8, <1>10, <1>11, <1>12 DEF Stack, r, t

-----------------------------------------------------------------------------
(* The lists of operations that steps put in place of one *)

LEMMA OpFacts ==
    /\ \A name \in OpNames : Op(name) \in Ops /\ Op(name).op = name
    /\ \A name \in OpNames : \A p \in Pids \cup Monitors \cup {"none"} :
           LET o == [Op(name) EXCEPT !.pid = p]
           IN o \in Ops /\ o.op = name /\ o.pid = p /\ o.answered = FALSE
    /\ \A p \in Pids : \A answered \in BOOLEAN :
           LET o == AwaitStop(p, answered)
           IN o \in Ops /\ o.op = "awaitStop" /\ o.pid = p /\ o.answered = answered
<1>1. ASSUME NEW name \in OpNames, NEW p \in Pids \cup Monitors \cup {"none"},
             NEW answered \in BOOLEAN
      PROVE  [op |-> name, pid |-> p, answered |-> answered] \in Ops
  BY DEF Ops
<1>2. ASSUME NEW name \in OpNames
      PROVE  Op(name) \in Ops /\ Op(name).op = name
  BY <1>1 DEF Op
<1>3. ASSUME NEW name \in OpNames, NEW p \in Pids \cup Monitors \cup {"none"}
      PROVE  LET o == [Op(name) EXCEPT !.pid = p]
             IN o \in Ops /\ o.op = name /\ o.pid = p /\ o.answered = FALSE
  <2>1. PICK r \in Ops : r = Op(name) /\ r.op = name /\ r.answered = FALSE
    BY <1>2 DEF Op
  <2>2. [r EXCEPT !.pid = p] \in Ops
    BY DEF Ops
  <2>3. [r EXCEPT !.pid = p].op = r.op /\ [r EXCEPT !.pid = p].answered = r.answered
    BY DEF Ops
  <2>4. [r EXCEPT !.pid = p].pid = p
    BY DEF Ops
  <2> QED BY <2>1, <2>2, <2>3, <2>4
<1>4. ASSUME NEW p \in Pids, NEW answered \in BOOLEAN
      PROVE  LET o == AwaitStop(p, answered)
             IN o \in Ops /\ o.op = "awaitStop" /\ o.pid = p /\ o.answered = answered
  <2>1. "awaitStop" \in OpNames
    BY DEF OpNames
  <2> QED BY <1>1, <2>1 DEF AwaitStop
<1> QED BY <1>2, <1>3, <1>4

\* Operations that need no lock, hold none and belong to no start.
Common == {"enterSup", "launch", "flock", "join", "stopLock", "forget", "look", "lookSilent", "backoff"}
Plain(s) == s \in Seq(Ops) /\ \A i \in DOMAIN s : s[i].op \in Common

LEMMA PlainFacts ==
    ASSUME NEW s, Plain(s)
    PROVE  /\ Stack(s) /\ \A head : Rank(head) = 8 => Instead(s, head)
           /\ \A name : name \notin Common => ~Has(s, name)
<1>1. \A name \in Common : Rank(name) = 8 /\ ~NeedsFile(name) /\ ~NeedsLock(name)
  BY DEF Common, Rank, NeedsFile, NeedsLock
<1> QED BY <1>1 DEF Plain, Stack, Ordered, Guarded, Instead, Has

LEMMA PlainLists ==
    /\ Plain(<<>>) /\ Plain(<<Op("look")>>) /\ Plain(<<Op("lookSilent")>>)
    /\ Plain(<<Op("backoff")>>) /\ Plain(<<Op("flock"), Op("look")>>)
    /\ Plain(<<Op("enterSup")>>) /\ Plain(<<Op("stopLock"), Op("flock")>>)
    /\ \A m \in Monitors \cup {"none"} :
         Plain(<<[Op("join") EXCEPT !.pid = m], Op("stopLock"), Op("forget")>>)
<1>1. \A name \in Common : name \in OpNames
  BY DEF Common, OpNames
<1>2. \A name \in Common : Op(name) \in Ops /\ Op(name).op = name
  BY <1>1, OpFacts
<1>3. Plain(<<>>)
  BY EmptySeq DEF Plain
<1>4. ASSUME NEW a \in Ops, a.op \in Common PROVE Plain(<<a>>)
  BY <1>4 DEF Plain
<1>5. ASSUME NEW a \in Ops, NEW b \in Ops, a.op \in Common, b.op \in Common PROVE Plain(<<a, b>>)
  BY <1>5 DEF Plain
<1>6. ASSUME NEW a \in Ops, NEW b \in Ops, NEW c \in Ops,
             a.op \in Common, b.op \in Common, c.op \in Common
      PROVE Plain(<<a, b, c>>)
  BY <1>6 DEF Plain
<1>7. {"look", "lookSilent", "backoff", "flock", "enterSup", "stopLock", "forget", "join"} \subseteq Common
  BY DEF Common
<1>8. \A m \in Monitors \cup {"none"} :
         [Op("join") EXCEPT !.pid = m] \in Ops /\ [Op("join") EXCEPT !.pid = m].op = "join"
  BY <1>1, <1>7, OpFacts
<1>9. \A m \in Monitors \cup {"none"} :
         Plain(<<[Op("join") EXCEPT !.pid = m], Op("stopLock"), Op("forget")>>)
  BY <1>2, <1>6, <1>7, <1>8
<1> QED BY <1>2, <1>3, <1>4, <1>5, <1>7, <1>9

LEMMA LockLists ==
    /\ Instead(<<Op("flock"), Op("launch"), Op("unlock")>>, "enterSup")
    /\ Instead(<<Op("enterStart"), Op("unflock")>>, "flock")
    /\ Instead(<<Op("check"), Op("unlock")>>, "enterStart")
    /\ Instead(<<Op("read"), Op("unlock")>>, "stopLock")
    /\ \A p \in Pids : Instead(<<[Op("shutdown") EXCEPT !.pid = p]>>, "read")
    /\ \A p \in Pids : \A answered \in BOOLEAN :
         Instead(<<AwaitStop(p, answered), Op("clearRecord"), Op("clearToken")>>, "shutdown")
<1>1. \A name \in OpNames : Op(name) \in Ops /\ Op(name).op = name
  BY OpFacts
<1>2. {"flock", "launch", "unlock", "enterStart", "unflock", "check", "read", "shutdown", "clearRecord",
       "clearToken", "enterSup", "stopLock"} \subseteq OpNames
  BY DEF OpNames
<1>3. Instead(<<Op("flock"), Op("launch"), Op("unlock")>>, "enterSup")
  BY <1>1, <1>2 DEF Instead, Ordered, Rank, NeedsFile, NeedsLock
<1>4. ASSUME NEW a \in Ops, NEW b \in Ops, NEW head,
             Rank(head) = 8, Rank(b.op) = 8, ~NeedsFile(b.op), ~NeedsLock(b.op),
             NeedsFile(a.op) => NeedsFile(head) \/ b.op = "unflock",
             NeedsLock(a.op) => NeedsLock(head) \/ b.op = "unlock"
      PROVE  Instead(<<a, b>>, head)
  <2>1. <<a, b>> \in Seq(Ops) /\ DOMAIN <<a, b>> = 1..2 /\ <<a, b>>[1] = a /\ <<a, b>>[2] = b
    OBVIOUS
  <2>2. \A i \in DOMAIN <<a, b>> : i = 1 \/ i = 2
    BY <2>1
  <2>3. Rank(a.op) <= Rank(head)
    BY <1>4, RankType
  <2>4. Below(<<a, b>>, 1, b.op)
    BY <2>1 DEF Below
  <2> QED BY <1>4, <2>1, <2>2, <2>3, <2>4 DEF Instead, Ordered
<1>5. Instead(<<Op("enterStart"), Op("unflock")>>, "flock")
  BY <1>1, <1>2, <1>4 DEF Rank, NeedsFile, NeedsLock
<1>6. Instead(<<Op("check"), Op("unlock")>>, "enterStart")
  BY <1>1, <1>2, <1>4 DEF Rank, NeedsFile, NeedsLock
<1>7. Instead(<<Op("read"), Op("unlock")>>, "stopLock")
  BY <1>1, <1>2, <1>4 DEF Rank, NeedsFile, NeedsLock
<1>8. ASSUME NEW p \in Pids, NEW answered \in BOOLEAN
      PROVE Instead(<<AwaitStop(p, answered), Op("clearRecord"), Op("clearToken")>>, "shutdown")
  <2>1. AwaitStop(p, answered) \in Ops /\ AwaitStop(p, answered).op = "awaitStop"
    BY OpFacts
  <2> QED BY <1>1, <1>2, <2>1 DEF Instead, Ordered, Rank, NeedsFile, NeedsLock
<1>9. ASSUME NEW p \in Pids PROVE Instead(<<[Op("shutdown") EXCEPT !.pid = p]>>, "read")
  <2>1. PICK a : a = [Op("shutdown") EXCEPT !.pid = p]
    OBVIOUS
  <2>2. a \in Ops /\ a.op = "shutdown"
    BY <1>2, <2>1, OpFacts
  <2>3. Instead(<<a>>, "read")
    BY <2>2 DEF Instead, Ordered, Rank, NeedsFile, NeedsLock
  <2> QED BY <2>1, <2>3
<1> QED BY <1>3, <1>5, <1>6, <1>7, <1>8, <1>9

LEMMA StartLists ==
    /\ Instead(SpawnSteps, "check") /\ Instead(<<Op("clearOld")>> \o SpawnSteps, "check")
    /\ Instead(<<Op("awaitOld"), Op("clearOld")>> \o SpawnSteps, "check")
    /\ \A p \in Pids : Instead(<<[Op("spawn") EXCEPT !.pid = p]>>, "token")
    /\ \A name : Has(SpawnSteps, name) <=> name \in {"token", "record", "ready"}
    /\ \A name : Has(<<Op("clearOld")>> \o SpawnSteps, name)
                   <=> name \in {"clearOld", "token", "record", "ready"}
    /\ \A name : Has(<<Op("awaitOld"), Op("clearOld")>> \o SpawnSteps, name)
                   <=> name \in {"awaitOld", "clearOld", "token", "record", "ready"}
<1>1. \A name \in OpNames : Op(name) \in Ops /\ Op(name).op = name
  BY OpFacts
<1>2. {"awaitOld", "clearOld", "token", "record", "ready"} \subseteq OpNames
  BY DEF OpNames
<1>3. /\ <<Op("clearOld")>> \o SpawnSteps = <<Op("clearOld"), Op("token"), Op("record"), Op("ready")>>
      /\ <<Op("awaitOld"), Op("clearOld")>> \o SpawnSteps
           = <<Op("awaitOld"), Op("clearOld"), Op("token"), Op("record"), Op("ready")>>
  <2> DEFINE a == <<Op("clearOld")>>
             b == <<Op("awaitOld"), Op("clearOld")>>
             c == <<Op("clearOld"), Op("token"), Op("record"), Op("ready")>>
             d == <<Op("awaitOld"), Op("clearOld"), Op("token"), Op("record"), Op("ready")>>
  <2>1. /\ a \in Seq(Ops) /\ Len(a) = 1 /\ a[1] = Op("clearOld")
        /\ b \in Seq(Ops) /\ Len(b) = 2 /\ b[1] = Op("awaitOld") /\ b[2] = Op("clearOld")
        /\ SpawnSteps \in Seq(Ops) /\ Len(SpawnSteps) = 3 /\ SpawnSteps[1] = Op("token")
        /\ SpawnSteps[2] = Op("record") /\ SpawnSteps[3] = Op("ready")
    BY <1>1, <1>2 DEF SpawnSteps
  <2>2. /\ c \in Seq(Ops) /\ Len(c) = 4 /\ c[1] = Op("clearOld") /\ c[2] = Op("token")
        /\ c[3] = Op("record") /\ c[4] = Op("ready")
    BY <1>1, <1>2
  <2>3. /\ d \in Seq(Ops) /\ Len(d) = 5 /\ d[1] = Op("awaitOld") /\ d[2] = Op("clearOld")
        /\ d[3] = Op("token") /\ d[4] = Op("record") /\ d[5] = Op("ready")
    BY <1>1, <1>2
  <2> HIDE DEF a, b, c, d
  <2>4. /\ a \o SpawnSteps \in Seq(Ops) /\ Len(a \o SpawnSteps) = 4
        /\ \A i \in 1..4 : (a \o SpawnSteps)[i] = IF i <= 1 THEN a[i] ELSE SpawnSteps[i - 1]
    <3>1. /\ a \o SpawnSteps \in Seq(Ops) /\ Len(a \o SpawnSteps) = Len(a) + Len(SpawnSteps)
          /\ \A i \in 1..(Len(a) + Len(SpawnSteps)) :
               (a \o SpawnSteps)[i] = IF i <= Len(a) THEN a[i] ELSE SpawnSteps[i - Len(a)]
      BY <2>1, ConcatProperties, Zenon
    <3>2. Len(a) + Len(SpawnSteps) = 4
      BY <2>1
    <3> QED BY <2>1, <3>1, <3>2
  <2>5. /\ b \o SpawnSteps \in Seq(Ops) /\ Len(b \o SpawnSteps) = 5
        /\ \A i \in 1..5 : (b \o SpawnSteps)[i] = IF i <= 2 THEN b[i] ELSE SpawnSteps[i - 2]
    <3>1. /\ b \o SpawnSteps \in Seq(Ops) /\ Len(b \o SpawnSteps) = Len(b) + Len(SpawnSteps)
          /\ \A i \in 1..(Len(b) + Len(SpawnSteps)) :
               (b \o SpawnSteps)[i] = IF i <= Len(b) THEN b[i] ELSE SpawnSteps[i - Len(b)]
      BY <2>1, ConcatProperties, Zenon
    <3>2. Len(b) + Len(SpawnSteps) = 5
      BY <2>1
    <3> QED BY <2>1, <3>1, <3>2
  <2>6. \A i \in 1..4 : (a \o SpawnSteps)[i] = c[i]
    BY <2>1, <2>2, <2>4
  <2>7. \A i \in 1..5 : (b \o SpawnSteps)[i] = d[i]
    BY <2>1, <2>3, <2>5
  <2>8. a \o SpawnSteps = c
    BY <2>2, <2>4, <2>6, SeqEqual
  <2>9. b \o SpawnSteps = d
    BY <2>3, <2>5, <2>7, SeqEqual
  <2> QED BY <2>8, <2>9 DEF a, b, c, d
<1>4. Instead(SpawnSteps, "check")
  BY <1>1, <1>2 DEF SpawnSteps, Instead, Ordered, Rank, NeedsFile, NeedsLock
\* Such a list, from its facts.
<1>5. ASSUME NEW ops \in Seq(Ops), NEW head, Rank(head) = 7,
             \A i \in DOMAIN ops : Rank(ops[i].op) < 7,
             \A i, j \in DOMAIN ops : i < j => Rank(ops[i].op) < Rank(ops[j].op)
      PROVE  Instead(ops, head)
  BY <1>5 DEF Instead, Ordered, NeedsFile, NeedsLock, Rank
<1>6. Rank("check") = 7
  BY DEF Rank
<1>7. ASSUME NEW a \in Ops, NEW b \in Ops, NEW c \in Ops, NEW d \in Ops,
             a.op = "clearOld", b.op = "token", c.op = "record", d.op = "ready"
      PROVE  Instead(<<a, b, c, d>>, "check")
  <2>1. /\ Rank(a.op) = 2 /\ Rank(b.op) = 3 /\ Rank(c.op) = 5 /\ Rank(d.op) = 6
    BY <1>7 DEF Rank
  <2>2. <<a, b, c, d>> \in Seq(Ops)
    OBVIOUS
  <2>3. \A i \in DOMAIN <<a, b, c, d>> : Rank(<<a, b, c, d>>[i].op) < 7
    BY <2>1
  <2>4. \A i, j \in DOMAIN <<a, b, c, d>> :
           i < j => Rank(<<a, b, c, d>>[i].op) < Rank(<<a, b, c, d>>[j].op)
    BY <2>1
  <2> QED BY <1>5, <1>6, <2>2, <2>3, <2>4
<1>8. ASSUME NEW z \in Ops, NEW a \in Ops, NEW b \in Ops, NEW c \in Ops, NEW d \in Ops,
             z.op = "awaitOld", a.op = "clearOld", b.op = "token", c.op = "record", d.op = "ready"
      PROVE  Instead(<<z, a, b, c, d>>, "check")
  <2>1. Rank(z.op) = 1 /\ Rank(a.op) = 2 /\ Rank(b.op) = 3 /\ Rank(c.op) = 5 /\ Rank(d.op) = 6
    BY <1>8 DEF Rank
  <2>2. <<z, a, b, c, d>> \in Seq(Ops)
    OBVIOUS
  <2>3. \A i \in DOMAIN <<z, a, b, c, d>> : Rank(<<z, a, b, c, d>>[i].op) < 7
    BY <2>1
  <2>4. \A i, j \in DOMAIN <<z, a, b, c, d>> :
           i < j => Rank(<<z, a, b, c, d>>[i].op) < Rank(<<z, a, b, c, d>>[j].op)
    BY <2>1
  <2> QED BY <1>5, <1>6, <2>2, <2>3, <2>4
<1>9. Instead(<<Op("clearOld")>> \o SpawnSteps, "check")
  <2>1. Instead(<<Op("clearOld"), Op("token"), Op("record"), Op("ready")>>, "check")
    BY <1>1, <1>2, <1>7
  <2> QED BY <1>3, <2>1, Zenon
<1>10. Instead(<<Op("awaitOld"), Op("clearOld")>> \o SpawnSteps, "check")
  <2>1. Instead(<<Op("awaitOld"), Op("clearOld"), Op("token"), Op("record"), Op("ready")>>, "check")
    BY <1>1, <1>2, <1>8
  <2> QED BY <1>3, <2>1, Zenon
<1>11. ASSUME NEW p \in Pids PROVE Instead(<<[Op("spawn") EXCEPT !.pid = p]>>, "token")
  <2>1. [Op("spawn") EXCEPT !.pid = p] \in Ops /\ [Op("spawn") EXCEPT !.pid = p].op = "spawn"
    BY OpFacts DEF OpNames
  <2>2. ASSUME NEW a \in Ops, a.op = "spawn" PROVE Instead(<<a>>, "token")
    <3>1. Rank(a.op) = 0 /\ Rank("token") = 3 /\ NeedsFile("token") /\ NeedsLock("token")
      BY <2>2 DEF Rank, NeedsFile, NeedsLock
    <3> QED BY <3>1 DEF Instead, Ordered
  <2> QED BY <2>1, <2>2
<1>12. \A name : Has(SpawnSteps, name) <=> name \in {"token", "record", "ready"}
  BY <1>1, <1>2 DEF SpawnSteps, Has
<1>13. \A name : Has(<<Op("clearOld")>> \o SpawnSteps, name)
                   <=> name \in {"clearOld", "token", "record", "ready"}
  <2>1. ASSUME NEW a, NEW b, NEW c, NEW d, NEW name
        PROVE  Has(<<a, b, c, d>>, name) <=> name \in {a.op, b.op, c.op, d.op}
    BY DEF Has
  <2>2. \A name : Has(<<Op("clearOld"), Op("token"), Op("record"), Op("ready")>>, name)
                   <=> name \in {"clearOld", "token", "record", "ready"}
    BY <1>1, <1>2, <2>1
  <2> QED BY <1>3, <2>2, Zenon
<1>14. \A name : Has(<<Op("awaitOld"), Op("clearOld")>> \o SpawnSteps, name)
                   <=> name \in {"awaitOld", "clearOld", "token", "record", "ready"}
  <2>1. ASSUME NEW z, NEW a, NEW b, NEW c, NEW d, NEW name
        PROVE  Has(<<z, a, b, c, d>>, name) <=> name \in {z.op, a.op, b.op, c.op, d.op}
    BY DEF Has
  <2>2. \A name : Has(<<Op("awaitOld"), Op("clearOld"), Op("token"), Op("record"), Op("ready")>>, name)
                   <=> name \in {"awaitOld", "clearOld", "token", "record", "ready"}
    BY <1>1, <1>2, <2>1
  <2> QED BY <1>3, <2>2, Zenon
<1> QED BY <1>4, <1>9, <1>10, <1>11, <1>12, <1>13, <1>14

-----------------------------------------------------------------------------
(* The inductive invariant *)

Types ==
    /\ todo = [t \in Threads |-> todo[t]]
    /\ \A t \in Threads : Stack(todo[t])
    /\ process \in [Hosts -> Pids \cup {"none"}]
    /\ monitor \in [Hosts -> Monitors \cup {"none"}]
    /\ record \in Pids \cup {"none"} /\ token \in Pids \cup {"none"}
    /\ port \in Pids \cup {"none"}
    /\ proc \in [Pids -> States]

OneStart == \A t, u \in Threads : Has(todo[t], "unflock") /\ Has(todo[u], "unflock") => t = u
OneInside ==
    \A t, u \in Threads : t[1] = u[1] /\ Has(todo[t], "unlock") /\ Has(todo[u], "unlock") => t = u
Locks == OneStart /\ OneInside

\* A start still has to write the token or the record.
Starting(s) == Has(s, "token") \/ Has(s, "record")

NoRecordYet ==
    \A t \in Threads : Starting(todo[t]) /\ ~Has(todo[t], "clearOld") => record = "none"

\* The process that the record is going to name.
Made(t) == IF At(t, "spawn") THEN Head(todo[t]).pid ELSE process[t[1]]
TokenOfMade ==
    \A t \in Threads : Has(todo[t], "record") /\ ~Has(todo[t], "token")
                          => token \in {"none", Made(t)}
Files == TokenIsTheRecorded /\ NoRecordYet /\ TokenOfMade

\* What an operation says of the process it names.
Sound(o) == o.op \in {"spawn", "shutdown", "awaitStop"} => o.pid \in Pids
AllSound(s) == \A i \in DOMAIN s : Sound(s[i])

NoStrangers ==
    /\ \A h \in Hosts : process[h] # "none" => proc[process[h]] # "alien"
    /\ \A t \in Threads : AllSound(todo[t])

IInv == Types /\ Locks /\ Files /\ NoStrangers

LEMMA InitIInv == Init => IInv
<1> SUFFICES ASSUME Init PROVE IInv
  OBVIOUS
<1>1. /\ todo = [t \in Threads |-> <<>>] /\ record = "none" /\ token = "none" /\ port = "none"
      /\ process = [h \in Hosts |-> "none"] /\ monitor = [h \in Hosts |-> "none"]
      /\ proc = [p \in Pids |-> "dead"]
  BY DEF Init
<1>2. todo = [t \in Threads |-> todo[t]] /\ \A t \in Threads : todo[t] = <<>>
  BY <1>1
<1>3. Types
  BY <1>1, <1>2, EmptyStack DEF Types, States
<1>4. Locks /\ Files
  BY <1>1, <1>2, EmptyStack DEF Locks, OneStart, OneInside, Files, TokenIsTheRecorded,
     NoRecordYet, TokenOfMade
<1>5. NoStrangers
  <2>1. DOMAIN <<>> = {}
    OBVIOUS
  <2> QED BY <1>1, <1>2, <2>1 DEF NoStrangers, AllSound
<1> QED BY <1>3, <1>4, <1>5 DEF IInv

\* What a step of one thread does to the stacks.
LEMMA ContinueStacks ==
    ASSUME IInv, NEW t \in Threads, todo[t] # <<>>, NEW ops, Continue(t, ops),
           Instead(ops, Head(todo[t]).op)
    PROVE  /\ todo' = [u \in Threads |-> todo'[u]] /\ \A u \in Threads : Stack(todo'[u])
           /\ \A u \in Threads : u # t => todo'[u] = todo[u]
           /\ todo'[t] = ops \o Tail(todo[t])
           /\ \A name : Has(todo'[t], name) <=> Has(ops, name) \/ Has(Tail(todo[t]), name)
           /\ AllSound(ops) => AllSound(todo'[t])
<1>1. /\ todo' = [u \in Threads |-> todo'[u]]
      /\ \A u \in Threads : u # t => todo'[u] = todo[u]
      /\ todo'[t] = ops \o Tail(todo[t])
  BY DEF Continue, IInv, Types
<1>2. Stack(todo[t])
  BY DEF IInv, Types
<1>3. /\ Stack(ops \o Tail(todo[t]))
      /\ \A name : Has(ops \o Tail(todo[t]), name) <=> Has(ops, name) \/ Has(Tail(todo[t]), name)
      /\ \A i \in DOMAIN (ops \o Tail(todo[t])) :
            \/ \E j \in DOMAIN ops : (ops \o Tail(todo[t]))[i] = ops[j]
            \/ \E j \in DOMAIN todo[t] : (ops \o Tail(todo[t]))[i] = todo[t][j]
  BY <1>2, ReplacedStack
<1>4. \A u \in Threads : Stack(todo'[u])
  BY <1>1, <1>3 DEF IInv, Types
<1>5. ASSUME AllSound(ops) PROVE AllSound(todo'[t])
  <2>1. AllSound(todo[t])
    BY DEF IInv, NoStrangers
  <2> QED BY <1>1, <1>3, <1>5, <2>1 DEF AllSound
<1> QED BY <1>1, <1>3, <1>4, <1>5

LEMMA ContinueLocks ==
    ASSUME IInv, NEW t \in Threads, todo[t] # <<>>, NEW ops, Continue(t, ops),
           Instead(ops, Head(todo[t]).op),
           Has(ops, "unflock") => FileFree, Has(ops, "unlock") => LockFree(t)
    PROVE  Locks'
<1>1. /\ \A u \in Threads : u # t => todo'[u] = todo[u]
      /\ \A name : Has(todo'[t], name) => Has(ops, name) \/ Has(todo[t], name)
  BY ContinueStacks, HasParts DEF IInv, Types
<1>2. FileFree => \A u \in Threads : ~Has(todo[u], "unflock")
  BY DEF FileFree, Pending, Has
<1>3. LockFree(t) => \A u \in Threads \ {t} : u[1] = t[1] => ~Has(todo[u], "unlock")
  BY DEF LockFree, Pending, Has
<1>4. OneStart'
  BY <1>1, <1>2 DEF IInv, Locks, OneStart
<1>5. OneInside'
  BY <1>1, <1>3 DEF IInv, Locks, OneInside
<1> QED BY <1>4, <1>5 DEF Locks

\* A step that begins no start and writes nothing but "none".
LEMMA AsideFiles ==
    ASSUME IInv, NEW T \in SUBSET Threads,
           \A u \in Threads \ T : todo'[u] = todo[u],
           \A u \in T : ~Starting(todo'[u]),
           record' \in {record, "none"}, token' \in {token, "none"},
           \A u \in Threads \ T : Has(todo[u], "record") => process'[u[1]] = process[u[1]]
    PROVE  Files'
<1>1. TokenIsTheRecorded'
  BY DEF IInv, Files, TokenIsTheRecorded
<1>2. NoRecordYet'
  BY DEF IInv, Files, NoRecordYet
<1>3. TokenOfMade'
  <2> SUFFICES ASSUME NEW u \in Threads, Has(todo'[u], "record"), ~Has(todo'[u], "token")
               PROVE  token' \in {"none", Made(u)'}
    BY DEF TokenOfMade
  <2>1. todo'[u] = todo[u] /\ process'[u[1]] = process[u[1]]
    BY DEF Starting
  <2>2. Made(u)' = Made(u)
    BY <2>1 DEF Made, At
  <2>3. token \in {"none", Made(u)}
    BY <2>1 DEF IInv, Files, TokenOfMade
  <2> QED BY <2>2, <2>3
<1> QED BY <1>1, <1>2, <1>3 DEF Files

\* No process becomes somebody else's, and no handle is made.
LEMMA AsideStrangers ==
    ASSUME IInv, proc' \in [Pids -> States],
           \A h \in Hosts : process'[h] \in {process[h], "none"},
           \A p \in Pids : proc'[p] = "alien" => proc[p] = "alien",
           \A u \in Threads : AllSound(todo'[u])
    PROVE  NoStrangers'
<1>1. ASSUME NEW h \in Hosts, process'[h] # "none" PROVE proc'[process'[h]] # "alien"
  <2>1. process'[h] = process[h] /\ process[h] \in Pids /\ proc[process[h]] # "alien"
    BY <1>1 DEF IInv, Types, NoStrangers
  <2> QED BY <2>1
<1> QED BY <1>1 DEF NoStrangers

-----------------------------------------------------------------------------
(* Steps that are no part of a start *)

LEMMA ShedLocks ==
    ASSUME IInv,
           \A u \in Threads : \A name \in {"unflock", "unlock"} :
               Has(todo'[u], name) => Has(todo[u], name)
    PROVE  Locks'
<1>1. OneStart /\ OneInside
  BY DEF IInv, Locks
<1>2. OneStart'
  <2> SUFFICES ASSUME NEW t \in Threads, NEW u \in Threads,
                      Has(todo'[t], "unflock"), Has(todo'[u], "unflock")
               PROVE  t = u
    BY DEF OneStart
  <2>1. Has(todo[t], "unflock") /\ Has(todo[u], "unflock")
    OBVIOUS
  <2> QED BY <1>1, <2>1 DEF OneStart
<1>3. OneInside'
  <2> SUFFICES ASSUME NEW t \in Threads, NEW u \in Threads, t[1] = u[1],
                      Has(todo'[t], "unlock"), Has(todo'[u], "unlock")
               PROVE  t = u
    BY DEF OneInside
  <2>1. Has(todo[t], "unlock") /\ Has(todo[u], "unlock")
    OBVIOUS
  <2> QED BY <1>1, <2>1 DEF OneInside
<1> QED BY <1>2, <1>3 DEF Locks

LEMMA Aside ==
    ASSUME IInv, NEW T \in SUBSET Threads,
           todo' = [u \in Threads |-> todo'[u]], Locks',
           \A u \in Threads \ T : todo'[u] = todo[u],
           \A u \in T : Stack(todo'[u]) /\ ~Starting(todo'[u]) /\ AllSound(todo'[u]),
           record' \in {record, "none"}, token' \in {token, "none"}, port' \in Pids \cup {"none"},
           monitor' \in [Hosts -> Monitors \cup {"none"}],
           process' \in [Hosts -> Pids \cup {"none"}], proc' \in [Pids -> States],
           \A h \in Hosts : process'[h] \in {process[h], "none"},
           \A p \in Pids : proc'[p] = "alien" => proc[p] = "alien",
           \A u \in Threads \ T : Has(todo[u], "record") => process'[u[1]] = process[u[1]]
    PROVE  IInv'
<1>1. Types'
  BY DEF IInv, Types
<1>2. Files'
  BY AsideFiles
<1>3. \A u \in Threads \ T : AllSound(todo'[u])
  BY DEF IInv, NoStrangers
<1>4. NoStrangers'
  BY <1>3, AsideStrangers
<1> QED BY <1>1, <1>2, <1>4 DEF IInv

LEMMA NothingStarts ==
    ASSUME IInv, NEW t \in Threads, todo[t] # <<>>, Rank(Head(todo[t]).op) >= 5
    PROVE  ~Starting(Tail(todo[t]))
<1>1. Stack(todo[t]) /\ Rank("token") = 3 /\ Rank("record") = 5
  BY DEF IInv, Types, Rank
<1>2. Rank(Head(todo[t]).op) \in 0..8
  BY RankType
<1> QED BY <1>1, <1>2, TailRank DEF Starting

LEMMA AsideStep ==
    ASSUME IInv, NEW t \in Threads, todo[t] # <<>>, Rank(Head(todo[t]).op) >= 5,
           NEW ops, Continue(t, ops), Instead(ops, Head(todo[t]).op),
           ~Starting(ops), AllSound(ops),
           Has(ops, "unflock") => FileFree, Has(ops, "unlock") => LockFree(t),
           record' \in {record, "none"}, token' \in {token, "none"}, port' = port,
           monitor' \in [Hosts -> Monitors \cup {"none"}],
           process' \in [Hosts -> Pids \cup {"none"}], proc' \in [Pids -> States],
           \A h \in Hosts : process'[h] \in {process[h], "none"},
           \A p \in Pids : proc'[p] = "alien" => proc[p] = "alien",
           \A u \in Threads \ {t} : Has(todo[u], "record") => process'[u[1]] = process[u[1]]
    PROVE  IInv'
<1>1. /\ todo' = [u \in Threads |-> todo'[u]] /\ Stack(todo'[t])
      /\ \A u \in Threads \ {t} : todo'[u] = todo[u]
      /\ \A name : Has(todo'[t], name) <=> Has(ops, name) \/ Has(Tail(todo[t]), name)
      /\ AllSound(todo[t]) => AllSound(todo'[t])
  BY ContinueStacks
<1>2. ~Starting(todo'[t])
  BY <1>1, NothingStarts DEF Starting
<1>3. AllSound(todo[t])
  BY DEF IInv, NoStrangers
<1>4. Locks'
  BY ContinueLocks
<1>5. port' \in Pids \cup {"none"} /\ {t} \in SUBSET Threads
  BY DEF IInv, Types
<1>6. \A u \in {t} : Stack(todo'[u]) /\ ~Starting(todo'[u]) /\ AllSound(todo'[u])
  BY <1>1, <1>2, <1>3
<1> QED BY <1>1, <1>4, <1>5, <1>6, Aside

\* Most steps leave the processes and the files alone.
LEMMA QuietStep ==
    ASSUME IInv, NEW t \in Threads, todo[t] # <<>>, Rank(Head(todo[t]).op) >= 5,
           NEW ops, Continue(t, ops), Instead(ops, Head(todo[t]).op),
           \A name \in {"token", "record", "spawn", "shutdown", "awaitStop"} : ~Has(ops, name),
           Has(ops, "unflock") => FileFree, Has(ops, "unlock") => LockFree(t),
           monitor' \in [Hosts -> Monitors \cup {"none"}],
           UNCHANGED <<process, proc, port, token>>, record' \in {record, "none"}
    PROVE  IInv'
<1>1. ~Starting(ops) /\ AllSound(ops)
  BY DEF Starting, AllSound, Sound, Has
<1>2. /\ process' \in [Hosts -> Pids \cup {"none"}] /\ proc' \in [Pids -> States]
      /\ proc' = proc /\ process' = process /\ port' = port /\ token' = token
  BY DEF IInv, Types
<1> QED BY <1>1, <1>2, AsideStep

LEMMA NoOps == \A head : Instead(<<>>, head) /\ Plain(<<>>)
<1>1. <<>> \in Seq(Ops) /\ DOMAIN <<>> = {}
  BY EmptySeq
<1> QED BY <1>1 DEF Instead, Ordered, Plain

LEMMA AtFacts ==
    ASSUME IInv, NEW t \in Threads, NEW name, At(t, name)
    PROVE  /\ todo[t] # <<>> /\ Stack(todo[t]) /\ Head(todo[t]).op = name /\ Has(todo[t], name)
           /\ Head(todo[t]) \in Ops /\ Sound(Head(todo[t])) /\ t[1] \in Hosts
<1>1. Stack(todo[t]) /\ todo[t] # <<>> /\ Head(todo[t]).op = name
  BY DEF IInv, Types, At
<1>2. 1 \in DOMAIN todo[t] /\ Head(todo[t]) = todo[t][1] /\ Head(todo[t]) \in Ops
  BY <1>1, StackFacts
<1>3. Sound(Head(todo[t]))
  BY <1>2 DEF IInv, NoStrangers, AllSound
<1> QED BY <1>1, <1>2, <1>3 DEF Has, Threads

LEMMA QuietKeeps ==
    ASSUME IInv, NEW t \in Threads,
           \/ EnterSup(t) \/ TakeStartLock(t) \/ EnterStart(t) \/ Ready(t) \/ Release(t)
           \/ Join(t) \/ EnterStop(t) \/ Forget(t) \/ Look(t) \/ Backoff(t)
           \/ (ClearRecord(t) /\ At(t, "clearRecord"))
    PROVE  IInv'
<1>1. monitor \in [Hosts -> Monitors \cup {"none"}] /\ t[1] \in Hosts
  BY DEF IInv, Types, Threads
<1>2. \A name \in OpNames : Op(name).op = name
  BY OpFacts
<1>3. \A a, b : \A name : Has(<<a, b>>, name) <=> name \in {a.op, b.op}
  BY DEF Has
<1>4. \A a, b, c : \A name : Has(<<a, b, c>>, name) <=> name \in {a.op, b.op, c.op}
  BY DEF Has
<1>5. CASE EnterSup(t)
  <2> DEFINE ops == <<Op("flock"), Op("launch"), Op("unlock")>>
  <2>1. /\ At(t, "enterSup") /\ LockFree(t) /\ Continue(t, ops)
        /\ UNCHANGED <<process, proc, port, token, record, monitor>>
    BY <1>5 DEF EnterSup, fileVars, procVars
  <2>2. \A name : Has(ops, name) <=> name \in {"flock", "launch", "unlock"}
    BY <1>2, <1>4 DEF OpNames
  <2>3. Instead(ops, "enterSup") /\ Rank("enterSup") = 8
    BY LockLists DEF Rank
  <2> HIDE DEF ops
  <2> QED BY <1>1, <2>1, <2>2, <2>3, AtFacts, QuietStep
<1>6. CASE TakeStartLock(t)
  <2> DEFINE ops == <<Op("enterStart"), Op("unflock")>>
  <2>1. /\ At(t, "flock") /\ FileFree /\ Continue(t, ops)
        /\ UNCHANGED <<process, proc, port, token, record, monitor>>
    BY <1>6 DEF TakeStartLock, hostVars, fileVars, procVars
  <2>2. \A name : Has(ops, name) <=> name \in {"enterStart", "unflock"}
    BY <1>2, <1>3 DEF OpNames
  <2>3. Instead(ops, "flock") /\ Rank("flock") = 8
    BY LockLists DEF Rank
  <2> HIDE DEF ops
  <2> QED BY <1>1, <2>1, <2>2, <2>3, AtFacts, QuietStep
<1>7. CASE EnterStart(t)
  <2> DEFINE ops == <<Op("check"), Op("unlock")>>
  <2>1. /\ At(t, "enterStart") /\ LockFree(t) /\ Continue(t, ops)
        /\ UNCHANGED <<process, proc, port, token, record, monitor>>
    BY <1>7 DEF EnterStart, hostVars, fileVars, procVars
  <2>2. \A name : Has(ops, name) <=> name \in {"check", "unlock"}
    BY <1>2, <1>3 DEF OpNames
  <2>3. Instead(ops, "enterStart") /\ Rank("enterStart") = 8
    BY LockLists DEF Rank
  <2> HIDE DEF ops
  <2> QED BY <1>1, <2>1, <2>2, <2>3, AtFacts, QuietStep
<1>8. CASE EnterStop(t)
  <2> DEFINE ops == <<Op("read"), Op("unlock")>>
  <2>1. /\ At(t, "stopLock") /\ LockFree(t) /\ Continue(t, ops)
        /\ UNCHANGED <<process, proc, port, token, record, monitor>>
    BY <1>8 DEF EnterStop, hostVars, fileVars, procVars
  <2>2. \A name : Has(ops, name) <=> name \in {"read", "unlock"}
    BY <1>2, <1>3 DEF OpNames
  <2>3. Instead(ops, "stopLock") /\ Rank("stopLock") = 8
    BY LockLists DEF Rank
  <2> HIDE DEF ops
  <2> QED BY <1>1, <2>1, <2>2, <2>3, AtFacts, QuietStep
\* The rest put nothing in the way of a start.
<1>9. ASSUME NEW name, At(t, name), Rank(name) = 8, NEW ops, Plain(ops), Continue(t, ops),
             UNCHANGED <<process, proc, port, token>>, record' \in {record, "none"},
             monitor' \in [Hosts -> Monitors \cup {"none"}]
      PROVE  IInv'
  <2>1. todo[t] # <<>> /\ Head(todo[t]).op = name
    BY <1>9, AtFacts
  <2>2. Instead(ops, name) /\ \A other : other \notin Common => ~Has(ops, other)
    BY <1>9, PlainFacts
  <2>3. \A other \in {"token", "record", "spawn", "shutdown", "awaitStop", "unlock", "unflock"} : ~Has(ops, other)
    BY <2>2 DEF Common
  <2> QED BY <1>9, <2>1, <2>2, <2>3, QuietStep
<1>10. \A name \in {"unlock", "unflock", "join", "forget", "look", "lookSilent", "backoff", "clearRecord"} :
          Rank(name) = 8
  BY DEF Rank
<1>11. CASE Release(t) \/ Forget(t) \/ (ClearRecord(t) /\ At(t, "clearRecord"))
  <2>1. /\ \E name \in {"unlock", "unflock", "forget", "clearRecord"} : At(t, name)
        /\ Continue(t, <<>>) /\ record' \in {record, "none"}
        /\ UNCHANGED <<process, proc, port, token, monitor>>
    BY <1>11 DEF Release, Forget, ClearRecord, hostVars, fileVars, procVars
  <2> QED BY <1>1, <1>9, <1>10, <2>1, NoOps
<1>12. CASE Join(t)
  <2>1. /\ At(t, "join") /\ Continue(t, <<>>) /\ monitor' = [monitor EXCEPT ![t[1]] = "none"]
        /\ UNCHANGED <<process, proc, port, token, record>>
    BY <1>12 DEF Join, fileVars, procVars
  <2>2. monitor' \in [Hosts -> Monitors \cup {"none"}]
    BY <1>1, <2>1
  <2> QED BY <1>9, <1>10, <2>1, <2>2, NoOps
<1>13. CASE Look(t)
  <2>1. /\ At(t, "look") \/ At(t, "lookSilent")
        /\ \/ Continue(t, <<Op("look")>>) \/ Continue(t, <<Op("lookSilent")>>)
           \/ Continue(t, <<Op("backoff")>>)
        /\ UNCHANGED <<process, proc, port, token, record, monitor>>
    BY <1>13 DEF Look, hostVars, fileVars, procVars
  <2> QED BY <1>1, <1>9, <1>10, <2>1, PlainLists
<1>14. CASE Backoff(t)
  <2>1. /\ At(t, "backoff") /\ Continue(t, <<Op("flock"), Op("look")>>)
        /\ UNCHANGED <<process, proc, port, token, record, monitor>>
    BY <1>14 DEF Backoff, hostVars, fileVars, procVars
  <2> QED BY <1>1, <1>9, <1>10, <2>1, PlainLists
<1>15. CASE Ready(t)
  <2>1. /\ At(t, "ready") /\ Continue(t, <<>>)
        /\ UNCHANGED <<process, proc, port, token, record, monitor>>
    BY <1>15 DEF Ready, hostVars, fileVars, procVars
  <2>2. Rank("ready") = 6 /\ Instead(<<>>, "ready") /\ \A name : ~Has(<<>>, name)
    BY NoOps, EmptyStack DEF Rank
  <2> QED BY <1>1, <2>1, <2>2, AtFacts, QuietStep
<1> QED BY <1>5, <1>6, <1>7, <1>8, <1>11, <1>12, <1>13, <1>14, <1>15

\* Threads of one host that are both inside its lock are one thread.
LEMMA AloneInHost ==
    ASSUME IInv, NEW t \in Threads, NEW u \in Threads \ {t}, t[1] = u[1],
           NEW a, NEW b, NeedsLock(a), NeedsLock(b), Has(todo[t], a), Has(todo[u], b)
    PROVE  FALSE
<1>1. Has(todo[t], "unlock") /\ Has(todo[u], "unlock")
  BY GuardedPending DEF IInv, Types
<1> QED BY <1>1 DEF IInv, Locks, OneInside

LEMMA AloneInStart ==
    ASSUME IInv, NEW t \in Threads, NEW u \in Threads \ {t},
           NEW a, NEW b, NeedsFile(a), NeedsFile(b), Has(todo[t], a), Has(todo[u], b)
    PROVE  FALSE
<1>1. Has(todo[t], "unflock") /\ Has(todo[u], "unflock")
  BY GuardedPending DEF IInv, Types
<1> QED BY <1>1 DEF IInv, Locks, OneStart

\* With the token of the file, it is the process on record that answers.
LEMMA WhoAnswers ==
    ASSUME IInv, Answers, record # "none"
    PROVE  port = record /\ port \in Pids /\ proc[port] = "serving"
BY DEF IInv, Types, Files, TokenIsTheRecorded, Answers

LEMMA ReadKeeps == ASSUME IInv, NEW t \in Threads, Read(t) PROVE IInv'
<1>1. /\ At(t, "read") /\ t[1] \in Hosts /\ todo[t] # <<>> /\ Head(todo[t]).op = "read"
      /\ Has(todo[t], "read") /\ Rank("read") = 8
      /\ UNCHANGED <<record, token, port, monitor, proc>>
  BY AtFacts DEF Read, fileVars, procVars, Rank
<1>2. /\ process \in [Hosts -> Pids \cup {"none"}] /\ proc \in [Pids -> States]
      /\ record \in Pids \cup {"none"} /\ monitor' \in [Hosts -> Monitors \cup {"none"}]
  BY <1>1 DEF IInv, Types
<1>3. CASE record = "none"
  <2>1. process' = [process EXCEPT ![t[1]] = "none"] /\ Continue(t, <<>>)
    BY <1>3 DEF Read
  <2>2. ASSUME NEW u \in Threads \ {t}, Has(todo[u], "record") PROVE process'[u[1]] = process[u[1]]
    <3>1. NeedsLock("record") /\ NeedsLock("read")
      BY DEF NeedsLock, Rank
    <3>2. t[1] # u[1]
      BY <1>1, <2>2, <3>1, AloneInHost
    <3> QED BY <1>1, <1>2, <2>1, <3>2
  <2>3. Instead(<<>>, "read") /\ ~Starting(<<>>) /\ AllSound(<<>>)
        /\ ~Has(<<>>, "unflock") /\ ~Has(<<>>, "unlock")
    BY NoOps, EmptyStack DEF Starting, AllSound
  <2>4. /\ process' \in [Hosts -> Pids \cup {"none"}]
        /\ \A h \in Hosts : process'[h] \in {process[h], "none"}
    BY <1>1, <1>2, <2>1
  <2> QED BY <1>1, <1>2, <2>1, <2>2, <2>3, <2>4, AsideStep
<1>4. CASE record # "none"
  <2>1. PICK o : o = [Op("shutdown") EXCEPT !.pid = record]
    OBVIOUS
  <2>2. Continue(t, <<o>>) /\ UNCHANGED process
    BY <1>4, <2>1 DEF Read
  <2>3. record \in Pids /\ "shutdown" \in OpNames
    BY <1>2, <1>4 DEF OpNames
  <2>4. o.op = "shutdown" /\ o.pid = record
    BY <2>1, <2>3, OpFacts
  <2>5. Instead(<<o>>, "read")
    BY <2>1, <2>3, LockLists
  <2>6. AllSound(<<o>>) /\ \A name : Has(<<o>>, name) <=> name = "shutdown"
    BY <2>3, <2>4 DEF AllSound, Sound, Has
  <2>7. ~Starting(<<o>>) /\ ~Has(<<o>>, "unlock") /\ ~Has(<<o>>, "unflock")
    BY <2>6 DEF Starting
  <2>8. /\ process' \in [Hosts -> Pids \cup {"none"}] /\ process' = process
        /\ \A h \in Hosts : process'[h] \in {process[h], "none"}
    BY <1>2, <2>2
  <2>9. PICK list : list = <<o>>
    OBVIOUS
  <2>10. /\ Continue(t, list) /\ Instead(list, Head(todo[t]).op) /\ AllSound(list)
         /\ ~Starting(list) /\ ~Has(list, "unlock") /\ ~Has(list, "unflock")
    BY <1>1, <2>2, <2>5, <2>6, <2>7, <2>9
  <2> QED BY <1>1, <1>2, <2>8, <2>10, AsideStep
<1> QED BY <1>3, <1>4

LEMMA ShutdownKeeps == ASSUME IInv, NEW t \in Threads, Shutdown(t) PROVE IInv'
<1> DEFINE p == Head(todo[t]).pid
<1>1. /\ At(t, "shutdown") /\ t[1] \in Hosts /\ todo[t] # <<>> /\ Head(todo[t]).op = "shutdown"
      /\ Rank("shutdown") = 8 /\ p \in Pids
      /\ UNCHANGED <<record, token, port, monitor, process>>
  BY AtFacts DEF Shutdown, fileVars, hostVars, Rank, Sound
<1>2. /\ process \in [Hosts -> Pids \cup {"none"}] /\ proc \in [Pids -> States]
      /\ monitor' \in [Hosts -> Monitors \cup {"none"}]
  BY <1>1 DEF IInv, Types
<1>3. proc' = IF Answers THEN [proc EXCEPT ![port] = "stopping"] ELSE proc
  BY DEF Shutdown
<1>4. proc' \in [Pids -> States] /\ \A q \in Pids : proc'[q] = "alien" => proc[q] = "alien"
  BY <1>2, <1>3 DEF States
<1>5. PICK answered \in BOOLEAN :
        Continue(t, <<AwaitStop(p, answered), Op("clearRecord"), Op("clearToken")>>)
  BY DEF Shutdown, Answers
<1> HIDE DEF p
<1>6. PICK ops : ops = <<AwaitStop(p, answered), Op("clearRecord"), Op("clearToken")>>
  OBVIOUS
<1>7. /\ AwaitStop(p, answered).op = "awaitStop" /\ AwaitStop(p, answered).pid = p
      /\ Op("clearRecord").op = "clearRecord" /\ Op("clearToken").op = "clearToken"
  BY <1>1, OpFacts DEF OpNames
<1>8. \A name : Has(ops, name) <=> name \in {"awaitStop", "clearRecord", "clearToken"}
  BY <1>6, <1>7 DEF Has
<1>9. AllSound(ops)
  <2>1. ASSUME NEW a, NEW b, NEW c, Sound(a), Sound(b), Sound(c) PROVE AllSound(<<a, b, c>>)
    BY <2>1 DEF AllSound
  <2>2. Sound(AwaitStop(p, answered)) /\ Sound(Op("clearRecord")) /\ Sound(Op("clearToken"))
    BY <1>1, <1>7 DEF Sound
  <2> QED BY <1>6, <2>1, <2>2
<1>10. Instead(ops, Head(todo[t]).op) /\ Continue(t, ops)
  BY <1>1, <1>5, <1>6, LockLists
<1>11. ~Starting(ops) /\ ~Has(ops, "unlock") /\ ~Has(ops, "unflock")
  BY <1>8 DEF Starting
<1>12. /\ process' \in [Hosts -> Pids \cup {"none"}] /\ process' = process
       /\ \A h \in Hosts : process'[h] \in {process[h], "none"}
  BY <1>1, <1>2
<1> QED BY <1>1, <1>2, <1>4, <1>9, <1>10, <1>11, <1>12, AsideStep

LEMMA AwaitStoppedKeeps == ASSUME IInv, NEW t \in Threads, AwaitStopped(t) PROVE IInv'
<1>1. /\ At(t, "awaitStop") /\ Continue(t, <<>>)
      /\ UNCHANGED <<record, token, port, monitor, process>>
      /\ proc' = proc \/ proc' = [proc EXCEPT ![Head(todo[t]).pid] = "stopping"]
  BY DEF AwaitStopped, fileVars, hostVars
<1>2. /\ process \in [Hosts -> Pids \cup {"none"}] /\ proc \in [Pids -> States]
      /\ monitor \in [Hosts -> Monitors \cup {"none"}]
  BY DEF IInv, Types
<1>3. proc' \in [Pids -> States] /\ \A p \in Pids : proc'[p] = "alien" => proc[p] = "alien"
  BY <1>1, <1>2 DEF States
<1>4. /\ Instead(<<>>, "awaitStop") /\ ~Starting(<<>>) /\ AllSound(<<>>)
      /\ ~Has(<<>>, "unflock") /\ ~Has(<<>>, "unlock") /\ Rank("awaitStop") = 8
  BY NoOps, EmptyStack DEF Starting, AllSound, Rank
<1>5. todo[t] # <<>> /\ Head(todo[t]).op = "awaitStop"
  BY <1>1, AtFacts
<1> QED BY <1>1, <1>2, <1>3, <1>4, <1>5, AsideStep

LEMMA ClearTokenKeeps == ASSUME IInv, NEW t \in Threads, ClearToken(t) PROVE IInv'
<1>1. /\ At(t, "clearToken") /\ Continue(t, <<>>) /\ token' = "none"
      /\ process' = [process EXCEPT ![t[1]] = "none"]
      /\ UNCHANGED <<record, port, monitor, proc>>
  BY DEF ClearToken, procVars
<1>2. /\ process \in [Hosts -> Pids \cup {"none"}] /\ proc \in [Pids -> States]
      /\ monitor \in [Hosts -> Monitors \cup {"none"}]
  BY DEF IInv, Types
<1>3. /\ todo[t] # <<>> /\ Head(todo[t]).op = "clearToken" /\ t[1] \in Hosts
      /\ Has(todo[t], "clearToken") /\ NeedsLock("clearToken") /\ NeedsLock("record")
      /\ Rank("clearToken") = 8
  BY <1>1, AtFacts DEF NeedsLock, Rank
<1>4. ASSUME NEW u \in Threads \ {t}, Has(todo[u], "record") PROVE process'[u[1]] = process[u[1]]
  <2>1. t[1] # u[1]
    BY <1>3, <1>4, AloneInHost
  <2> QED BY <1>1, <1>2, <1>3, <2>1
<1>5. /\ Instead(<<>>, "clearToken") /\ ~Starting(<<>>) /\ AllSound(<<>>)
      /\ ~Has(<<>>, "unflock") /\ ~Has(<<>>, "unlock")
  BY NoOps, EmptyStack DEF Starting, AllSound
<1>6. /\ process' \in [Hosts -> Pids \cup {"none"}]
      /\ \A h \in Hosts : process'[h] \in {process[h], "none"}
  BY <1>1, <1>2, <1>3
<1> QED BY <1>1, <1>2, <1>3, <1>4, <1>5, <1>6, AsideStep

\* Threads whose stack becomes one of calls that have only begun.
LEMMA Afresh ==
    ASSUME IInv, NEW T \in SUBSET Threads,
           todo' = [u \in Threads |-> todo'[u]],
           \A u \in Threads \ T : todo'[u] = todo[u],
           \A u \in T : Plain(todo'[u]),
           record' \in {record, "none"}, token' \in {token, "none"}, port' = port,
           monitor' \in [Hosts -> Monitors \cup {"none"}],
           process' \in [Hosts -> Pids \cup {"none"}], proc' \in [Pids -> States],
           \A h \in Hosts : process'[h] \in {process[h], "none"},
           \A p \in Pids : proc'[p] = "alien" => proc[p] = "alien",
           \A u \in Threads \ T : Has(todo[u], "record") => process'[u[1]] = process[u[1]]
    PROVE  IInv'
<1>1. ASSUME NEW u \in T
      PROVE  /\ Stack(todo'[u]) /\ ~Starting(todo'[u]) /\ AllSound(todo'[u])
             /\ ~Has(todo'[u], "unflock") /\ ~Has(todo'[u], "unlock")
  <2>1. /\ Stack(todo'[u])
        /\ \A name \in {"token", "record", "unlock", "unflock"} : ~Has(todo'[u], name)
    BY PlainFacts DEF Common
  <2>2. AllSound(todo'[u])
    BY DEF AllSound, Sound, Plain, Common
  <2> QED BY <2>1, <2>2 DEF Starting
<1>2. \A u \in Threads : \A name \in {"unflock", "unlock"} : Has(todo'[u], name) => Has(todo[u], name)
  BY <1>1
<1>3. Locks'
  BY <1>2, ShedLocks
<1>4. port' \in Pids \cup {"none"}
  BY DEF IInv, Types
<1> QED BY <1>1, <1>3, <1>4, Aside

LEMMA RaiseKeeps ==
    ASSUME IInv, NEW t \in Threads, NotReady(t) \/ StartLockGivesUp(t) \/ MonitorEnds(t)
    PROVE  IInv'
<1>1. /\ process \in [Hosts -> Pids \cup {"none"}] /\ proc \in [Pids -> States]
      /\ monitor \in [Hosts -> Monitors \cup {"none"}]
      /\ todo = [u \in Threads |-> todo[u]] /\ t[1] \in Hosts
  BY DEF IInv, Types, Threads
<1>2. /\ todo' = [u \in Threads |-> todo'[u]] /\ \A u \in Threads \ {t} : todo'[u] = todo[u]
      /\ todo'[t] = <<>> \/ todo'[t] = <<Op("look")>>
  BY <1>1 DEF NotReady, StartLockGivesUp, MonitorEnds, Raise
<1>3. {t} \in SUBSET Threads /\ \A u \in {t} : Plain(todo'[u])
  BY <1>2, PlainLists
<1>4. CASE NotReady(t)
  <2>1. /\ record' = "none" /\ token' = "none" /\ UNCHANGED <<port, monitor>>
        /\ process' = [process EXCEPT ![t[1]] = "none"] /\ At(t, "ready")
        /\ proc' = proc \/ proc' = [proc EXCEPT ![process[t[1]]] = "stopping"]
    BY <1>4 DEF NotReady
  <2>2. proc' \in [Pids -> States] /\ \A p \in Pids : proc'[p] = "alien" => proc[p] = "alien"
    BY <1>1, <2>1 DEF States
  <2>3. /\ process' \in [Hosts -> Pids \cup {"none"}]
        /\ \A h \in Hosts : process'[h] \in {process[h], "none"}
    BY <1>1, <2>1
  <2>4. ASSUME NEW u \in Threads \ {t}, Has(todo[u], "record") PROVE process'[u[1]] = process[u[1]]
    <3>1. Has(todo[t], "ready") /\ NeedsLock("ready") /\ NeedsLock("record")
      BY <2>1, AtFacts DEF NeedsLock, Rank
    <3>2. t[1] # u[1]
      BY <2>4, <3>1, AloneInHost
    <3> QED BY <1>1, <2>1, <3>2
  <2> QED BY <1>1, <1>2, <1>3, <2>1, <2>2, <2>3, <2>4, Afresh
<1>5. CASE StartLockGivesUp(t) \/ MonitorEnds(t)
  <2>1. UNCHANGED <<process, monitor, record, token, proc, port>>
    BY <1>5 DEF StartLockGivesUp, MonitorEnds, hostVars, fileVars, procVars
  <2> QED BY <1>1, <1>2, <1>3, <2>1, Afresh
<1> QED BY <1>4, <1>5

LEMMA RequestKeeps == ASSUME IInv, NEW t \in Threads, Request(t) PROVE IInv'
<1>1. /\ process \in [Hosts -> Pids \cup {"none"}] /\ proc \in [Pids -> States]
      /\ monitor \in [Hosts -> Monitors \cup {"none"}]
      /\ todo = [u \in Threads |-> todo[u]] /\ t[1] \in Hosts
  BY DEF IInv, Types, Threads
<1>2. PICK ops : Plain(ops) /\ todo' = [todo EXCEPT ![t] = ops]
  <2>1. monitor[t[1]] \in Monitors \cup {"none"}
    BY <1>1
  <2> QED BY <2>1, PlainLists DEF Request, Call, Begin
<1>3. /\ todo' = [u \in Threads |-> todo'[u]] /\ \A u \in Threads \ {t} : todo'[u] = todo[u]
      /\ {t} \in SUBSET Threads /\ \A u \in {t} : Plain(todo'[u])
  BY <1>1, <1>2
<1>4. UNCHANGED <<process, monitor, record, token, proc, port>>
  BY DEF Request, fileVars, procVars
<1> QED BY <1>1, <1>3, <1>4, Afresh

LEMMA CrashKeeps == ASSUME IInv, NEW h \in Hosts, Crash(h) PROVE IInv'
<1> DEFINE T == {u \in Threads : u[1] = h}
<1>1. /\ process \in [Hosts -> Pids \cup {"none"}] /\ proc \in [Pids -> States]
      /\ monitor \in [Hosts -> Monitors \cup {"none"}]
  BY DEF IInv, Types
<1>2. /\ todo' = [u \in Threads |-> IF u[1] = h THEN <<>> ELSE todo[u]]
      /\ process' = [process EXCEPT ![h] = "none"] /\ monitor' = [monitor EXCEPT ![h] = "none"]
      /\ UNCHANGED <<record, token, proc, port>>
  BY DEF Crash, fileVars, procVars
<1>3. /\ todo' = [u \in Threads |-> todo'[u]] /\ \A u \in Threads \ T : todo'[u] = todo[u]
      /\ \A u \in T : Plain(todo'[u])
  BY <1>2, NoOps
<1>4. /\ process' \in [Hosts -> Pids \cup {"none"}] /\ monitor' \in [Hosts -> Monitors \cup {"none"}]
      /\ \A g \in Hosts : process'[g] \in {process[g], "none"}
  BY <1>1, <1>2
<1>5. \A u \in Threads \ T : process'[u[1]] = process[u[1]]
  BY <1>1, <1>2 DEF Threads
<1>6. T \in SUBSET Threads
  OBVIOUS
<1> HIDE DEF T
<1>7. proc' \in [Pids -> States] /\ \A p \in Pids : proc'[p] = "alien" => proc[p] = "alien"
  BY <1>1, <1>2
<1>8. UNCHANGED <<record, token, port>>
  BY <1>2
<1> QED BY <1>3, <1>4, <1>5, <1>6, <1>7, <1>8, Afresh

LEMMA LaunchKeeps == ASSUME IInv, NEW t \in Threads, Launch(t) PROVE IInv'
<1>1. /\ process \in [Hosts -> Pids \cup {"none"}] /\ proc \in [Pids -> States]
      /\ monitor \in [Hosts -> Monitors \cup {"none"}] /\ port \in Pids \cup {"none"}
      /\ todo = [u \in Threads |-> todo[u]] /\ t[1] \in Hosts
  BY DEF IInv, Types, Threads
<1>2. /\ At(t, "launch") /\ UNCHANGED <<process, record, token, proc, port>>
  BY DEF Launch, fileVars, procVars
<1>3. todo[t] # <<>> /\ Head(todo[t]).op = "launch" /\ Rank("launch") = 8
  BY <1>2, AtFacts DEF Rank
<1>4. CASE Continue(t, <<>>) /\ UNCHANGED monitor
  <2>1. Instead(<<>>, "launch") /\ \A name : ~Has(<<>>, name)
    BY NoOps, EmptyStack
  <2> QED BY <1>1, <1>2, <1>3, <1>4, <2>1, QuietStep
<1>5. ASSUME NEW m \in Monitors, Idle(<<t[1], m>>), monitor' = [monitor EXCEPT ![t[1]] = m],
             todo' = [todo EXCEPT ![t] = Tail(@), ![<<t[1], m>>] = <<Op("look")>>]
      PROVE  IInv'
  <2> DEFINE n == <<t[1], m>>
  <2>1. n \in Threads /\ n # t
    BY <1>1, <1>3, <1>5 DEF Threads, Idle
  <2>2. /\ todo' = [u \in Threads |-> todo'[u]] /\ todo'[t] = Tail(todo[t])
        /\ todo'[n] = <<Op("look")>>
        /\ \A u \in Threads \ {t, n} : todo'[u] = todo[u]
    BY <1>1, <1>5, <2>1
  <2> HIDE DEF n
  <2>3. /\ Stack(Tail(todo[t])) /\ \A name : Has(Tail(todo[t]), name) => Has(todo[t], name)
        /\ AllSound(Tail(todo[t]))
    <3>1. Stack(todo[t]) /\ AllSound(todo[t])
      BY DEF IInv, Types, NoStrangers
    <3>2. \A i \in DOMAIN Tail(todo[t]) : i + 1 \in DOMAIN todo[t] /\ Tail(todo[t])[i] = todo[t][i + 1]
      BY <1>3, <3>1, StackFacts
    <3>3. AllSound(Tail(todo[t])) /\ \A name : Has(Tail(todo[t]), name) => Has(todo[t], name)
      BY <3>1, <3>2 DEF AllSound, Has
    <3>4. Stack(<<>> \o Tail(todo[t]))
      BY <1>3, <3>1, NoOps, ReplacedStack
    <3>5. Tail(todo[t]) \in Seq(Ops)
      BY <1>3, <3>1, StackFacts
    <3>6. <<>> \o Tail(todo[t]) = Tail(todo[t])
      BY <3>5, ConcatEmptySeq
    <3> QED BY <3>3, <3>4, <3>6
  <2>4. Plain(<<Op("look")>>)
    BY PlainLists
  <2>5. /\ Stack(todo'[n]) /\ ~Starting(todo'[n])
        /\ ~Has(todo'[n], "unlock") /\ ~Has(todo'[n], "unflock")
    BY <2>2, <2>4, PlainFacts DEF Starting, Common
  <2>6. AllSound(todo'[n])
    BY <2>2, <2>4 DEF AllSound, Sound, Plain, Common
  <2>7. ~Starting(todo'[t])
    BY <1>3, <2>2, NothingStarts
  <2>8. \A u \in Threads : \A name \in {"unflock", "unlock"} : Has(todo'[u], name) => Has(todo[u], name)
    BY <2>2, <2>3, <2>5
  <2>9. Locks'
    BY <2>8, ShedLocks
  <2>10. monitor' \in [Hosts -> Monitors \cup {"none"}]
    BY <1>1, <1>5
  <2>11. PICK T : T = {t, n}
    OBVIOUS
  <2>12. \A u \in T : Stack(todo'[u]) /\ ~Starting(todo'[u]) /\ AllSound(todo'[u])
    BY <1>2, <2>2, <2>3, <2>5, <2>6, <2>7, <2>11
  <2>13. T \in SUBSET Threads /\ \A u \in Threads \ T : todo'[u] = todo[u]
    BY <2>1, <2>2, <2>11
  <2> QED BY <1>1, <1>2, <2>2, <2>9, <2>10, <2>12, <2>13, Aside
<1> QED BY <1>4, <1>5 DEF Launch

LEMMA WorldKeeps ==
    ASSUME IInv,
           \/ \E p \in Pids : Bind(p) \/ Exit(p) \/ GetsBusy(p) \/ BusyEnds(p) \/ PidReused(p)
           \/ Ages \/ UNCHANGED vars
    PROVE  IInv'
<1>1. UNCHANGED <<todo, process, monitor, record, token>>
  BY DEF Bind, Exit, GetsBusy, BusyEnds, PidReused, Ages, vars, hostVars, fileVars
<1>2. Types /\ Locks /\ Files /\ NoStrangers
  BY DEF IInv
<1>3. Locks' /\ Files'
  BY <1>1, <1>2 DEF Locks, OneStart, OneInside, Files, TokenIsTheRecorded, NoRecordYet,
     TokenOfMade, Made, At
<1>4. Types'
  <2>1. proc \in [Pids -> States] /\ port \in Pids \cup {"none"}
    BY <1>2 DEF Types
  <2>2. port' \in Pids \cup {"none"}
    BY <2>1 DEF Bind, Exit, GetsBusy, BusyEnds, PidReused, Ages, vars, procVars
  <2>3. proc' \in [Pids -> States]
    BY <2>1 DEF Bind, Exit, GetsBusy, BusyEnds, PidReused, Ages, vars, procVars, States
  <2> QED BY <1>1, <1>2, <2>2, <2>3 DEF Types
<1>5. CASE \E p \in Pids : PidReused(p)
  <2>1. PICK p \in Pids : PidReused(p)
    BY <1>5
  <2>2. /\ \A h \in Hosts : process[h] # p
        /\ proc' = [proc EXCEPT ![p] = "alien"]
    BY <2>1 DEF PidReused
  <2>3. \A q \in Pids : q # p => proc'[q] = proc[q]
    BY <1>2, <2>2 DEF Types
  <2>4. ASSUME NEW h \in Hosts, process'[h] # "none" PROVE proc'[process'[h]] # "alien"
    <3>1. process[h] \in Pids /\ process[h] # p /\ proc[process[h]] # "alien"
      BY <1>1, <1>2, <2>2, <2>4 DEF Types, NoStrangers
    <3> QED BY <1>1, <2>3, <3>1
  <2>6. NoStrangers'
    BY <1>1, <1>2, <2>4 DEF NoStrangers
  <2> QED BY <1>3, <1>4, <2>6 DEF IInv
<1>6. CASE \/ \E p \in Pids : Bind(p) \/ Exit(p) \/ GetsBusy(p) \/ BusyEnds(p)
           \/ Ages \/ UNCHANGED vars
  <2>1. \A q \in Pids : proc'[q] = "alien" => proc[q] = "alien"
    BY <1>2, <1>6 DEF Types, Bind, Exit, GetsBusy, BusyEnds, Ages, vars, procVars, States
  <2>2. \A u \in Threads : AllSound(todo'[u])
    BY <1>1, <1>2 DEF NoStrangers
  <2>3. proc' \in [Pids -> States]
    BY <1>4 DEF Types
  <2>4. NoStrangers'
    BY <1>1, <2>1, <2>2, <2>3, AsideStrangers
  <2> QED BY <1>3, <1>4, <2>4 DEF IInv
<1> QED BY <1>5, <1>6

-----------------------------------------------------------------------------
(* The steps of a start *)

LEMMA Popped ==
    ASSUME IInv, NEW t \in Threads, NEW name, At(t, name), Continue(t, <<>>)
    PROVE  /\ todo' = [u \in Threads |-> todo'[u]] /\ \A u \in Threads : Stack(todo'[u])
           /\ \A u \in Threads : u # t => todo'[u] = todo[u]
           /\ Locks' /\ ~At(t, "spawn")'
           /\ \A other : Has(todo'[t], other) => Has(todo[t], other)
           /\ \A other : Has(todo[t], other) => other = name \/ Has(todo'[t], other)
           /\ \A other : Rank(other) < 8 /\ Rank(other) <= Rank(name) => ~Has(todo'[t], other)
           /\ AllSound(todo'[t])
<1>1. todo[t] # <<>> /\ Stack(todo[t]) /\ Head(todo[t]).op = name
  BY AtFacts
<1>2. Instead(<<>>, Head(todo[t]).op) /\ \A other : ~Has(<<>>, other)
  BY NoOps, EmptyStack
<1>3. /\ todo' = [u \in Threads |-> todo'[u]] /\ \A u \in Threads : Stack(todo'[u])
      /\ \A u \in Threads : u # t => todo'[u] = todo[u]
      /\ \A other : Has(todo'[t], other) <=> Has(<<>>, other) \/ Has(Tail(todo[t]), other)
      /\ AllSound(<<>>) => AllSound(todo'[t])
  BY <1>1, <1>2, ContinueStacks
<1>4. Locks'
  BY <1>1, <1>2, ContinueLocks
<1>5. \A other : Has(todo[t], other) <=> name = other \/ Has(Tail(todo[t]), other)
  BY <1>1, HasParts
<1>6. ASSUME NEW other, Rank(other) < 8, Rank(other) <= Rank(name), Has(todo'[t], other) PROVE FALSE
  <2>1. Rank(Head(todo[t]).op) < Rank(other)
    BY <1>1, <1>2, <1>3, <1>6, TailRank
  <2> QED BY <1>1, <1>6, <2>1, RankType
<1>7. ~At(t, "spawn")'
  <2>1. Rank("spawn") = 0 /\ Rank(name) \in 0..8
    BY RankType DEF Rank
  <2>2. ~Has(todo'[t], "spawn")
    BY <1>6, <2>1
  <2>3. ASSUME todo'[t] # <<>>, Head(todo'[t]).op = "spawn" PROVE FALSE
    BY <1>3, <2>2, <2>3, StackFacts DEF Has
  <2> QED BY <2>3 DEF At
<1>8. AllSound(<<>>)
  BY EmptyStack DEF AllSound, Stack
<1> QED BY <1>2, <1>3, <1>4, <1>5, <1>6, <1>7, <1>8

\* The operations of a start need both locks.
LEMMA NeedBoth == \A name : Rank(name) < 8 => NeedsFile(name) /\ NeedsLock(name)
BY DEF NeedsFile, NeedsLock

LEMMA CheckKeeps == ASSUME IInv, NEW t \in Threads, Check(t) PROVE IInv'
<1>1. /\ At(t, "check") /\ UNCHANGED <<process, monitor, record, token, port>>
  BY DEF Check, hostVars, fileVars
<1>2. todo[t] # <<>> /\ Head(todo[t]).op = "check" /\ Rank("check") = 7
  BY <1>1, AtFacts DEF Rank
<1>3. Types /\ Files /\ NoStrangers
  BY DEF IInv
<1>4. PICK ops : /\ Continue(t, ops)
                 /\ \/ ops = <<>>
                    \/ ops = SpawnSteps /\ record = "none"
                    \/ ops = <<Op("clearOld")>> \o SpawnSteps
                    \/ ops = <<Op("awaitOld"), Op("clearOld")>> \o SpawnSteps
  BY DEF Check
<1>5. proc' = proc \/ proc' = [proc EXCEPT ![record] = "stopping"]
  BY DEF Check
<1>6. Instead(ops, "check")
  BY <1>4, NoOps, StartLists
<1>7. /\ \A name : Has(ops, name) => name \in {"awaitOld", "clearOld", "token", "record", "ready"}
      /\ Has(ops, "record") => Has(ops, "token")
      /\ Starting(ops) /\ ~Has(ops, "clearOld") => record = "none"
  <2>1. CASE ops = <<>>
    BY <2>1, EmptyStack DEF Starting
  <2>2. CASE ops = SpawnSteps /\ record = "none"
    BY <2>2, StartLists
  <2>3. CASE ops = <<Op("clearOld")>> \o SpawnSteps
    BY <2>3, StartLists, Zenon
  <2>4. CASE ops = <<Op("awaitOld"), Op("clearOld")>> \o SpawnSteps
    BY <2>4, StartLists, Zenon
  <2> QED BY <1>4, <2>1, <2>2, <2>3, <2>4
<1>8. /\ todo' = [u \in Threads |-> todo'[u]] /\ \A u \in Threads : Stack(todo'[u])
      /\ \A u \in Threads : u # t => todo'[u] = todo[u]
      /\ \A name : Has(todo'[t], name) <=> Has(ops, name) \/ Has(Tail(todo[t]), name)
      /\ AllSound(ops) /\ AllSound(todo[t]) => AllSound(todo'[t])
  BY <1>2, <1>4, <1>6, ContinueStacks
<1>9. Locks'
  <2>1. ~Has(ops, "unlock") /\ ~Has(ops, "unflock")
    BY <1>7
  <2> QED BY <1>2, <1>4, <1>6, <2>1, ContinueLocks
<1>10. ~Starting(Tail(todo[t]))
  BY <1>2, NothingStarts
<1>11. proc' \in [Pids -> States] /\ \A p \in Pids : proc'[p] = "alien" => proc[p] = "alien"
  BY <1>3, <1>5 DEF Types, States
<1>12. Types'
  BY <1>1, <1>3, <1>8, <1>11 DEF Types
<1>13. NoRecordYet'
  BY <1>1, <1>3, <1>7, <1>8, <1>10 DEF Files, NoRecordYet, Starting
<1>14. TokenOfMade'
  <2> SUFFICES ASSUME NEW u \in Threads, Has(todo'[u], "record"), ~Has(todo'[u], "token")
               PROVE  token' \in {"none", Made(u)'}
    BY DEF TokenOfMade
  <2>1. u # t
    BY <1>7, <1>8, <1>10 DEF Starting
  <2>2. todo'[u] = todo[u] /\ Made(u)' = Made(u)
    BY <1>1, <1>8, <2>1 DEF Made, At
  <2> QED BY <1>1, <1>3, <2>2 DEF Files, TokenOfMade
<1>15. Files'
  BY <1>1, <1>3, <1>13, <1>14 DEF Files, TokenIsTheRecorded
<1>16. \A u \in Threads : AllSound(todo'[u])
  <2>1. \A u \in Threads : AllSound(todo[u])
    BY <1>3 DEF NoStrangers
  <2>2. AllSound(ops)
    BY <1>7 DEF AllSound, Sound, Has
  <2> QED BY <1>8, <2>1, <2>2
<1>17. NoStrangers'
  BY <1>1, <1>11, <1>16, AsideStrangers
<1> QED BY <1>9, <1>12, <1>15, <1>17 DEF IInv

\* While one thread starts, no other does.
LEMMA OnlyOneStarts ==
    ASSUME IInv, NEW t \in Threads, NEW name, At(t, name), Rank(name) < 8
    PROVE  \A u \in Threads \ {t} : ~Starting(todo[u])
<1>1. Rank("token") = 3 /\ Rank("record") = 5
  BY DEF Rank
<1>2. Has(todo[t], name)
  BY AtFacts
<1> QED BY <1>1, <1>2, NeedBoth, AloneInStart DEF Starting

LEMMA AwaitOldKeeps ==
    ASSUME IInv, NEW t \in Threads, AwaitOld(t) \/ (ClearRecord(t) /\ At(t, "clearOld"))
    PROVE  IInv'
<1>1. /\ Continue(t, <<>>) /\ UNCHANGED <<process, monitor, token, proc, port>>
      /\ \/ At(t, "awaitOld") /\ record' = record
         \/ At(t, "clearOld") /\ record' = "none"
  BY DEF AwaitOld, ClearRecord, hostVars, fileVars, procVars
<1>2. PICK name \in {"awaitOld", "clearOld"} : At(t, name) /\ (name = "clearOld" => record' = "none")
  BY <1>1
<1>3. Rank(name) < 8
  BY DEF Rank
<1>4. /\ todo' = [u \in Threads |-> todo'[u]] /\ \A u \in Threads : Stack(todo'[u])
      /\ \A u \in Threads : u # t => todo'[u] = todo[u]
      /\ Locks' /\ ~At(t, "spawn")'
      /\ \A other : Has(todo'[t], other) => Has(todo[t], other)
      /\ \A other : Has(todo[t], other) => other = name \/ Has(todo'[t], other)
      /\ AllSound(todo'[t])
  BY <1>1, <1>2, Popped
<1>5. \A u \in Threads \ {t} : ~Starting(todo[u])
  BY <1>2, <1>3, OnlyOneStarts
<1>6. Types /\ Files /\ NoStrangers
  BY DEF IInv
<1>7. Types'
  BY <1>1, <1>4, <1>6 DEF Types
<1>8. NoRecordYet'
  <2>1. \A u \in Threads \ {t} : ~Starting(todo'[u])
    BY <1>4, <1>5
  <2>2. Starting(todo'[t]) /\ ~Has(todo'[t], "clearOld") => record' = "none"
    BY <1>1, <1>2, <1>4, <1>6 DEF Files, NoRecordYet, Starting
  <2> QED BY <2>1, <2>2 DEF NoRecordYet
<1>9. TokenOfMade'
  <2> SUFFICES ASSUME NEW u \in Threads, Has(todo'[u], "record"), ~Has(todo'[u], "token")
               PROVE  token' \in {"none", Made(u)'}
    BY DEF TokenOfMade
  <2>1. u = t
    BY <1>4, <1>5 DEF Starting
  <2>2. ~At(t, "spawn")
    BY <1>2 DEF At
  <2>3. Made(t) = process[t[1]] /\ Made(t)' = process[t[1]]
    BY <1>1, <1>4, <2>2 DEF Made
  <2>4. Has(todo[t], "record") /\ ~Has(todo[t], "token")
    BY <1>2, <1>4, <2>1
  <2> QED BY <1>1, <1>6, <2>1, <2>3, <2>4 DEF Files, TokenOfMade
<1>10. Files'
  BY <1>1, <1>6, <1>8, <1>9 DEF Files, TokenIsTheRecorded
<1>11. NoStrangers'
  BY <1>1, <1>4, <1>6 DEF NoStrangers
<1> QED BY <1>4, <1>7, <1>10, <1>11 DEF IInv

LEMMA WriteRecordKeeps == ASSUME IInv, NEW t \in Threads, WriteRecord(t) PROVE IInv'
<1>1. /\ At(t, "record") /\ Continue(t, <<>>) /\ record' = process[t[1]]
      /\ UNCHANGED <<process, monitor, token, proc, port>>
  BY DEF WriteRecord, hostVars, procVars
<1>2. Rank("record") = 5 /\ Rank("token") = 3
  BY DEF Rank
<1>3. /\ todo' = [u \in Threads |-> todo'[u]] /\ \A u \in Threads : Stack(todo'[u])
      /\ \A u \in Threads : u # t => todo'[u] = todo[u]
      /\ Locks'
      /\ \A other : Has(todo[t], other) => other = "record" \/ Has(todo'[t], other)
      /\ \A other : Rank(other) < 8 /\ Rank(other) <= Rank("record") => ~Has(todo'[t], other)
      /\ AllSound(todo'[t])
  BY <1>1, Popped
<1>4. \A u \in Threads : ~Starting(todo'[u])
  <2>1. ~Starting(todo'[t])
    BY <1>2, <1>3 DEF Starting
  <2>2. \A u \in Threads \ {t} : ~Starting(todo[u])
    BY <1>1, <1>2, OnlyOneStarts
  <2> QED BY <1>3, <2>1, <2>2
<1>5. Types /\ Files /\ NoStrangers
  BY DEF IInv
<1>6. token \in {"none", process[t[1]]}
  <2>1. Has(todo[t], "record") /\ ~At(t, "spawn")
    BY <1>1, AtFacts DEF At
  <2>2. ~Has(todo[t], "token")
    BY <1>2, <1>3
  <2> QED BY <1>5, <2>1, <2>2 DEF Files, TokenOfMade, Made
<1>7. Types'
  <2>1. process[t[1]] \in Pids \cup {"none"}
    BY <1>5 DEF Types, Threads
  <2> QED BY <1>1, <1>3, <1>5, <2>1 DEF Types
<1>8. Files'
  BY <1>1, <1>4, <1>6 DEF Files, TokenIsTheRecorded, NoRecordYet, TokenOfMade, Starting
<1>9. NoStrangers'
  BY <1>1, <1>3, <1>5 DEF NoStrangers
<1> QED BY <1>3, <1>7, <1>8, <1>9 DEF IInv

LEMMA SpawnKeeps == ASSUME IInv, NEW t \in Threads, Spawn(t) PROVE IInv'
<1> DEFINE p == Head(todo[t]).pid
<1>1. /\ At(t, "spawn") /\ Continue(t, <<>>) /\ UNCHANGED <<monitor, record, token, port>>
      /\ proc' = [proc EXCEPT ![p] = "boot"] /\ process' = [process EXCEPT ![t[1]] = p]
  BY DEF Spawn, fileVars
<1>2. Rank("spawn") = 0 /\ p \in Pids /\ t[1] \in Hosts
  BY <1>1, AtFacts DEF Rank, Sound
<1>3. /\ todo' = [u \in Threads |-> todo'[u]] /\ \A u \in Threads : Stack(todo'[u])
      /\ \A u \in Threads : u # t => todo'[u] = todo[u]
      /\ Locks' /\ ~At(t, "spawn")'
      /\ \A other : Has(todo'[t], other) => Has(todo[t], other)
      /\ \A other : Has(todo[t], other) => other = "spawn" \/ Has(todo'[t], other)
      /\ AllSound(todo'[t])
  BY <1>1, Popped
<1>4. \A u \in Threads \ {t} : ~Starting(todo'[u])
  BY <1>1, <1>2, <1>3, OnlyOneStarts
<1>5. Types /\ Files /\ NoStrangers
  BY DEF IInv
<1> HIDE DEF p
<1>6. Types'
  BY <1>1, <1>2, <1>3, <1>5 DEF Types, States
<1>7. NoRecordYet'
  BY <1>1, <1>3, <1>4, <1>5 DEF Files, NoRecordYet, Starting
<1>8. TokenOfMade'
  <2> SUFFICES ASSUME NEW u \in Threads, Has(todo'[u], "record"), ~Has(todo'[u], "token")
               PROVE  token' \in {"none", Made(u)'}
    BY DEF TokenOfMade
  <2>1. u = t
    BY <1>4 DEF Starting
  <2>2. Made(t)' = p
    BY <1>1, <1>2, <1>3, <1>5 DEF Made, Types
  <2>3. Made(t) = p
    BY <1>1 DEF Made, p
  <2>4. Has(todo[t], "record") /\ ~Has(todo[t], "token")
    BY <1>3, <2>1
  <2> QED BY <1>1, <1>5, <2>1, <2>2, <2>3, <2>4 DEF Files, TokenOfMade
<1>9. Files'
  BY <1>1, <1>5, <1>7, <1>8 DEF Files, TokenIsTheRecorded
<1>10. \A q \in Pids : proc'[q] = "alien" => proc[q] = "alien"
  BY <1>1, <1>2, <1>5 DEF Types
<1>11. \A u \in Threads : AllSound(todo'[u])
  BY <1>3, <1>5 DEF NoStrangers
<1>12. ASSUME NEW h \in Hosts, process'[h] # "none" PROVE proc'[process'[h]] # "alien"
  <2>1. CASE h = t[1]
    BY <1>1, <1>2, <1>5, <2>1 DEF Types
  <2>2. CASE h # t[1]
    <3>1. process'[h] = process[h] /\ process[h] \in Pids /\ proc[process[h]] # "alien"
      BY <1>1, <1>5, <1>12, <2>2 DEF Types, NoStrangers
    <3> QED BY <1>10, <3>1
  <2> QED BY <2>1, <2>2
<1>13. NoStrangers'
  BY <1>11, <1>12 DEF NoStrangers
<1> QED BY <1>3, <1>6, <1>9, <1>13 DEF IInv

LEMMA WriteTokenKeeps == ASSUME IInv, NEW t \in Threads, WriteToken(t) PROVE IInv'
<1>1. PICK p \in Pids : token' = p /\ Continue(t, <<[Op("spawn") EXCEPT !.pid = p]>>)
  BY DEF WriteToken
<1>2. At(t, "token") /\ UNCHANGED <<process, monitor, record, proc, port>>
  BY DEF WriteToken, hostVars, procVars
<1>3. PICK o : o = [Op("spawn") EXCEPT !.pid = p]
  OBVIOUS
<1>4. o \in Ops /\ o.op = "spawn" /\ o.pid = p /\ o.answered = FALSE
  BY <1>3, OpFacts DEF OpNames
<1>5. Continue(t, <<o>>) /\ Instead(<<o>>, "token")
  BY <1>1, <1>3, StartLists
<1>6. /\ todo[t] # <<>> /\ Head(todo[t]).op = "token" /\ Stack(todo[t]) /\ Has(todo[t], "token")
      /\ Rank("token") = 3 /\ Rank("clearOld") = 2
  BY <1>2, AtFacts DEF Rank
<1>7. \A name : Has(<<o>>, name) <=> name = "spawn"
  BY <1>4 DEF Has
<1>8. /\ todo' = [u \in Threads |-> todo'[u]] /\ \A u \in Threads : Stack(todo'[u])
      /\ \A u \in Threads : u # t => todo'[u] = todo[u]
      /\ todo'[t] = <<o>> \o Tail(todo[t])
      /\ AllSound(<<o>>) /\ AllSound(todo[t]) => AllSound(todo'[t])
  BY <1>5, <1>6, ContinueStacks
<1>9. Locks'
  BY <1>5, <1>6, <1>7, ContinueLocks
<1>10. \A u \in Threads \ {t} : ~Starting(todo'[u])
  BY <1>2, <1>6, <1>8, OnlyOneStarts
<1>11. Types /\ Files /\ NoStrangers
  BY DEF IInv
<1>12. record = "none"
  <2>1. ~Has(todo[t], "clearOld")
    BY <1>6, HasParts, TailRank
  <2> QED BY <1>6, <1>11, <2>1 DEF Files, NoRecordYet, Starting
<1>13. Made(t)' = p
  <2>1. Tail(todo[t]) \in Seq(Ops) /\ <<o>> \in Seq(Ops) /\ Len(<<o>>) = 1
    BY <1>4, <1>6, StackFacts
  <2>2. /\ Len(<<o>> \o Tail(todo[t])) = Len(<<o>>) + Len(Tail(todo[t]))
        /\ \A i \in 1..(Len(<<o>>) + Len(Tail(todo[t]))) :
             (<<o>> \o Tail(todo[t]))[i]
               = IF i <= Len(<<o>>) THEN <<o>>[i] ELSE Tail(todo[t])[i - Len(<<o>>)]
    BY <2>1, ConcatProperties, Zenon
  <2>3. Len(Tail(todo[t])) \in Nat
    BY <2>1, LenProperties
  <2>4. Len(todo'[t]) >= 1 /\ todo'[t][1] = o
    BY <1>8, <2>1, <2>2, <2>3
  <2>5. todo'[t] # <<>>
    BY <2>4, EmptySeq
  <2>6. Head(todo'[t]) = o
    BY <1>8, <2>4, <2>5, StackFacts
  <2> QED BY <1>4, <2>5, <2>6 DEF Made, At
<1>14. Types'
  BY <1>1, <1>2, <1>8, <1>11 DEF Types
<1>15. Files'
  <2>1. TokenIsTheRecorded' /\ NoRecordYet'
    BY <1>2, <1>12 DEF TokenIsTheRecorded, NoRecordYet
  <2>2. TokenOfMade'
    BY <1>1, <1>10, <1>13 DEF TokenOfMade, Starting
  <2> QED BY <2>1, <2>2 DEF Files
<1>16. AllSound(<<o>>)
  BY <1>4 DEF AllSound, Sound
<1>17. NoStrangers'
  BY <1>2, <1>8, <1>11, <1>16 DEF NoStrangers
<1> QED BY <1>9, <1>14, <1>15, <1>17 DEF IInv

-----------------------------------------------------------------------------
(* The theorems *)

LEMMA NextKeeps == IInv /\ [Next]_vars => IInv'
<1> SUFFICES ASSUME IInv, [Next]_vars PROVE IInv'
  OBVIOUS
<1>1. ASSUME NEW t \in Threads, Step(t) PROVE IInv'
  <2>1. ClearRecord(t) => At(t, "clearRecord") \/ At(t, "clearOld")
    BY DEF ClearRecord
  <2> QED BY <1>1, <2>1, QuietKeeps, ReadKeeps, ShutdownKeeps, AwaitStoppedKeeps, ClearTokenKeeps, RaiseKeeps,
             LaunchKeeps, CheckKeeps, AwaitOldKeeps, WriteTokenKeeps, SpawnKeeps, WriteRecordKeeps
          DEF Step
<1> QED BY <1>1, RequestKeeps, WorldKeeps, CrashKeeps DEF Next

\* However hosts start, stop, crash and give up on locks over the shared files,
\* the token is never that of another runtime than the one on record.
THEOREM TokenBelongs == Spec => []TokenIsTheRecorded
<1>1. IInv => TokenIsTheRecorded
  BY DEF IInv, Files
<1> QED BY <1>1, InitIInv, NextKeeps, PTL DEF Spec

\* Only a process this host holds a handle of, the one that listens, or the one
\* a stop was about when its call was answered, is told to stop.
LEMMA WhoIsStopped ==
    ASSUME IInv, [Next]_vars, NEW p \in Pids, proc[p] = "alien", proc'[p] = "stopping"
    PROVE  \E t \in Threads : AwaitStopped(t) /\ Head(todo[t]) = AwaitStop(p, TRUE)
<1>1. /\ proc \in [Pids -> States] /\ process \in [Hosts -> Pids \cup {"none"}]
      /\ \A h \in Hosts : process[h] # "none" => proc[process[h]] # "alien"
  BY DEF IInv, Types, NoStrangers
<1>2. ~UNCHANGED proc
  OBVIOUS
<1>3. ASSUME NEW t \in Threads, Step(t)
      PROVE  AwaitStopped(t) /\ Head(todo[t]) = AwaitStop(p, TRUE)
  <2>1. t[1] \in Hosts
    BY DEF Threads
  <2>2. Check(t) \/ Spawn(t) \/ NotReady(t) \/ Shutdown(t) \/ AwaitStopped(t)
    BY <1>2, <1>3 DEF Step, EnterSup, TakeStartLock, StartLockGivesUp, EnterStart, AwaitOld, WriteToken,
       WriteRecord, Ready, Release, Launch, Join, EnterStop, Read, ClearRecord, ClearToken, Forget,
       MonitorEnds, Look, Backoff, procVars
  <2>3. CASE Check(t)
    <3>1. proc' = [proc EXCEPT ![record] = "stopping"] /\ process[t[1]] = record /\ Alive(record)
      BY <1>2, <2>3 DEF Check, TerminatesOld
    <3> QED BY <1>1, <2>1, <3>1 DEF Alive
  <2>4. CASE Spawn(t)
    <3>1. proc' = [proc EXCEPT ![Head(todo[t]).pid] = "boot"]
      BY <2>4 DEF Spawn
    <3> QED BY <1>1, <3>1
  <2>5. CASE NotReady(t)
    <3>1. proc' = [proc EXCEPT ![process[t[1]]] = "stopping"] /\ Alive(process[t[1]])
      BY <1>2, <2>5 DEF NotReady
    <3> QED BY <1>1, <2>1, <3>1 DEF Alive
  <2>6. CASE Shutdown(t)
    <3>1. proc' = [proc EXCEPT ![port] = "stopping"] /\ Answers
      BY <1>2, <2>6 DEF Shutdown
    <3> QED BY <1>1, <3>1 DEF Answers
  <2>7. CASE AwaitStopped(t)
    <3>1. /\ At(t, "awaitStop") /\ MaySignal(t)
          /\ proc' = [proc EXCEPT ![Head(todo[t]).pid] = "stopping"]
      BY <1>2, <2>7 DEF AwaitStopped
    <3>2. Head(todo[t]).pid = p
      BY <1>1, <3>1
    <3>3. process[t[1]] # p
      <4>1. p # "none"
        BY NamesAssumption
      <4> QED BY <1>1, <2>1, <4>1
    <3>4. Head(todo[t]).answered
      BY <3>1, <3>2, <3>3 DEF MaySignal
    <3>5. PICK o \in Ops : o = Head(todo[t]) /\ o.op = "awaitStop"
      BY <3>1, AtFacts
    <3>6. o = [op |-> o.op, pid |-> o.pid, answered |-> o.answered] /\ o.answered \in BOOLEAN
      BY DEF Ops
    <3>7. o.answered = TRUE
      BY <3>4, <3>5, <3>6
    <3> QED BY <2>7, <3>2, <3>5, <3>6, <3>7 DEF AwaitStop
  <2> QED BY <2>2, <2>3, <2>4, <2>5, <2>6, <2>7
<1>4. ASSUME NEW q \in Pids, Bind(q) \/ Exit(q) \/ GetsBusy(q) \/ BusyEnds(q) \/ PidReused(q)
      PROVE  FALSE
  BY <1>1, <1>4 DEF Bind, Exit, GetsBusy, BusyEnds, PidReused
<1>5. ASSUME \/ \E t \in Threads : Request(t)
             \/ Ages \/ (\E h \in Hosts : Crash(h)) \/ UNCHANGED vars
      PROVE  UNCHANGED proc
  BY <1>5 DEF Request, Ages, Crash, vars, procVars
<1> QED BY <1>2, <1>3, <1>4, <1>5 DEF Next

\* A stranger is signalled by no start, by no stop of the host's own child and by
\* no stop that nobody answers; and while its id is on record, no answer counts
\* for it.
THEOREM StrangersSafe == Spec => StrangersLeftAlone
<1> DEFINE Safe(p) ==
      /\ proc'[p] = "stopping" =>
           \E t \in Threads : AwaitStopped(t) /\ Head(todo[t]) = AwaitStop(p, TRUE)
      /\ \A t \in Threads : Shutdown(t) /\ Head(todo[t]).pid = p /\ Answers => record # p
<1>1. ASSUME IInv, [Next]_vars, NEW p \in Pids, proc[p] = "alien" PROVE Safe(p)
  <2>1. ASSUME Answers, record = p PROVE FALSE
    <3>1. p # "none"
      BY NamesAssumption
    <3>2. proc[p] = "serving"
      BY <1>1, <2>1, <3>1, WhoAnswers
    <3> QED BY <1>1, <3>2
  <2> QED BY <1>1, <2>1, WhoIsStopped
<1>2. IInv /\ [Next]_vars => [\A p \in Pids : proc[p] = "alien" => Safe(p)]_vars
  BY <1>1
<1> QED BY <1>2, InitIInv, NextKeeps, PTL DEF Spec, StrangersLeftAlone

-----------------------------------------------------------------------------
(* Type correctness *)

\* Who has still to write the record or to wait for the first ping, and has
\* made the process already, holds its handle.
Handled(s) == (Has(s, "record") \/ Has(s, "ready")) /\ ~Has(s, "token") /\ ~Has(s, "spawn")
HandleHeld == \A t \in Threads : Handled(todo[t]) => process[t[1]] \in Pids

Flags == stopSet \in [Hosts -> BOOLEAN] /\ rooted \in [Hosts -> BOOLEAN] /\ fresh \in BOOLEAN

\* ops instead of name makes no thread one that needs a handle.
NeedsNoHandle(ops, name) ==
    \/ Has(ops, "token") \/ Has(ops, "spawn")
    \/ ~Has(ops, "record") /\ ~Has(ops, "ready") /\ name \notin {"token", "spawn"}

LEMMA HandlesStay ==
    ASSUME HandleHeld,
           \A u \in Threads : Handled(todo'[u])
                => (Handled(todo[u]) /\ process'[u[1]] = process[u[1]]) \/ process'[u[1]] \in Pids
    PROVE  HandleHeld'
BY DEF HandleHeld

LEMMA ReplacedHandles ==
    ASSUME IInv, HandleHeld, NEW t \in Threads, todo[t] # <<>>, NEW ops, Continue(t, ops),
           Instead(ops, Head(todo[t]).op), NeedsNoHandle(ops, Head(todo[t]).op), process' = process
    PROVE  HandleHeld'
<1>1. /\ \A u \in Threads : u # t => todo'[u] = todo[u]
      /\ \A name : Has(todo'[t], name) <=> Has(ops, name) \/ Has(Tail(todo[t]), name)
  BY ContinueStacks
<1>2. \A name : Has(todo[t], name) <=> Head(todo[t]).op = name \/ Has(Tail(todo[t]), name)
  BY HasParts DEF IInv, Types
<1>3. Handled(todo'[t]) => Handled(todo[t])
  BY <1>1, <1>2 DEF Handled, NeedsNoHandle
<1> QED BY <1>1, <1>3, HandlesStay

\* A step that takes the handle of its host is one of a thread inside the
\* host's lock, so no other thread of the host is in a start.
LEMMA HandleDropped ==
    ASSUME IInv, HandleHeld, NEW t \in Threads, NEW name, NeedsLock(name), Has(todo[t], name),
           \A u \in Threads : u # t => todo'[u] = todo[u],
           \A h \in Hosts : h # t[1] => process'[h] = process[h],
           ~Handled(todo'[t]) \/ process'[t[1]] \in Pids
    PROVE  HandleHeld'
<1>1. NeedsLock("record") /\ NeedsLock("ready")
  BY DEF NeedsLock, Rank
<1>2. ASSUME NEW u \in Threads, u # t, Handled(todo'[u])
      PROVE  Handled(todo[u]) /\ process'[u[1]] = process[u[1]]
  <2>1. todo'[u] = todo[u] /\ (Has(todo[u], "record") \/ Has(todo[u], "ready"))
    BY <1>2 DEF Handled
  <2>2. t[1] # u[1]
    BY <1>1, <1>2, <2>1, AloneInHost
  <2>3. u[1] \in Hosts
    BY DEF Threads
  <2> QED BY <1>2, <2>1, <2>2, <2>3
<1> QED BY <1>2, HandlesStay

\* Nothing of a start is below an operation that is none of it.
LEMMA NoStartBelow ==
    ASSUME IInv, NEW t \in Threads, todo[t] # <<>>, Rank(Head(todo[t]).op) = 8
    PROVE  ~Has(Tail(todo[t]), "record") /\ ~Has(Tail(todo[t]), "ready")
<1>1. Stack(todo[t]) /\ Rank("record") = 5 /\ Rank("ready") = 6
  BY DEF IInv, Types, Rank
<1> QED BY <1>1, TailRank

LEMMA InitTyped == Init => Flags /\ HandleHeld
<1> SUFFICES ASSUME Init PROVE Flags /\ HandleHeld
  OBVIOUS
<1>1. \A t \in Threads : todo[t] = <<>>
  BY DEF Init
<1>2. HandleHeld
  BY <1>1, EmptyStack DEF HandleHeld, Handled
<1> QED BY <1>2 DEF Init, Flags

LEMMA FlagsKept == ASSUME IInv, Flags, [Next]_vars PROVE Flags'
<1>1. CASE UNCHANGED vars
  BY <1>1 DEF Flags, vars, hostVars, fileVars
<1>2. ASSUME NEW t \in Threads, Request(t) PROVE Flags'
  BY <1>2 DEF Flags, Request, Call, Begin, Threads, fileVars
<1>3. ASSUME NEW t \in Threads, Step(t) PROVE Flags'
  <2>1. UNCHANGED stopSet \/ stopSet' = [stopSet EXCEPT ![t[1]] = FALSE]
    BY <1>3 DEF Step, EnterSup, TakeStartLock, StartLockGivesUp, EnterStart, Check, AwaitOld,
       WriteToken, Spawn, WriteRecord, Ready, NotReady, Release, Launch, Join, EnterStop, Read, Shutdown,
       AwaitStopped, ClearRecord, ClearToken, Forget, MonitorEnds, Look, Backoff, hostVars
  <2>2. \/ UNCHANGED rooted \/ rooted' = [rooted EXCEPT ![t[1]] = TRUE]
        \/ rooted' = [rooted EXCEPT ![t[1]] = FALSE]
    BY <1>3 DEF Step, EnterSup, TakeStartLock, StartLockGivesUp, EnterStart, Check, AwaitOld,
       WriteToken, Spawn, WriteRecord, Ready, NotReady, Release, Launch, Join, EnterStop, Read, Shutdown,
       AwaitStopped, ClearRecord, ClearToken, Forget, MonitorEnds, Look, Backoff, hostVars
  <2>3. fresh' \in {fresh, TRUE, FALSE}
    BY <1>3 DEF Step, EnterSup, TakeStartLock, StartLockGivesUp, EnterStart, Check, AwaitOld,
       WriteToken, Spawn, WriteRecord, Ready, NotReady, Release, Launch, Join, EnterStop, Read, Shutdown,
       AwaitStopped, ClearRecord, ClearToken, Forget, MonitorEnds, Look, Backoff, fileVars
  <2> QED BY <2>1, <2>2, <2>3 DEF Flags
<1>4. ASSUME NEW p \in Pids, Bind(p) \/ Exit(p) \/ GetsBusy(p) \/ BusyEnds(p) \/ PidReused(p)
      PROVE  Flags'
  BY <1>4 DEF Flags, Bind, Exit, GetsBusy, BusyEnds, PidReused, hostVars, fileVars
<1>5. CASE Ages
  BY <1>5 DEF Flags, Ages, hostVars
<1>6. ASSUME NEW h \in Hosts, Crash(h) PROVE Flags'
  BY <1>6 DEF Flags, Crash, fileVars
<1> QED BY <1>1, <1>2, <1>3, <1>4, <1>5, <1>6 DEF Next

\* What the steps that leave the handles alone put in place of an operation.
LEMMA StepLists ==
    ASSUME IInv, NEW t \in Threads,
           \/ EnterSup(t) \/ TakeStartLock(t) \/ EnterStart(t) \/ Check(t) \/ AwaitOld(t)
           \/ WriteToken(t) \/ WriteRecord(t) \/ Ready(t) \/ Release(t) \/ Join(t) \/ EnterStop(t)
           \/ (Read(t) /\ record # "none") \/ Shutdown(t) \/ AwaitStopped(t) \/ ClearRecord(t) \/ Forget(t)
           \/ Look(t) \/ Backoff(t)
    PROVE  \E name, ops : At(t, name) /\ Continue(t, ops) /\ Instead(ops, name)
                            /\ NeedsNoHandle(ops, name) /\ process' = process
<1>1. \A name \in OpNames : Op(name).op = name
  BY OpFacts
<1>2. \A a, b : \A name : Has(<<a, b>>, name) <=> name \in {a.op, b.op}
  BY DEF Has
<1>3. \A a, b, c : \A name : Has(<<a, b, c>>, name) <=> name \in {a.op, b.op, c.op}
  BY DEF Has
<1>4. \A name : \A head : ~Has(<<>>, name) /\ Instead(<<>>, head)
  BY NoOps, EmptyStack
\* Steps that only return.
<1>5. CASE \/ AwaitOld(t) \/ WriteRecord(t) \/ Ready(t) \/ Release(t) \/ Join(t) \/ AwaitStopped(t)
           \/ ClearRecord(t) \/ Forget(t)
  <2>1. /\ Continue(t, <<>>) /\ process' = process
        /\ \E name : At(t, name) /\ name \notin {"token", "spawn"}
    BY <1>5 DEF AwaitOld, WriteRecord, Ready, Release, Join, AwaitStopped, ClearRecord, Forget,
       hostVars
  <2> QED BY <1>4, <2>1 DEF NeedsNoHandle
\* Steps that call what takes a lock, or go on in the loop.
<1>6. CASE Look(t) \/ Backoff(t)
  <2>1. /\ process' = process
        /\ \E name \in {"look", "lookSilent", "backoff"} : At(t, name)
        /\ \/ Continue(t, <<Op("look")>>) \/ Continue(t, <<Op("lookSilent")>>)
           \/ Continue(t, <<Op("backoff")>>) \/ Continue(t, <<Op("flock"), Op("look")>>)
    BY <1>6 DEF Look, Backoff, hostVars
  <2>2. PICK ops : Plain(ops) /\ Continue(t, ops)
    BY <2>1, PlainLists
  <2>3. \A name \in {"look", "lookSilent", "backoff"} : Rank(name) = 8
    BY DEF Rank
  <2>4. /\ \A head : Rank(head) = 8 => Instead(ops, head)
        /\ ~Has(ops, "record") /\ ~Has(ops, "ready")
    BY <2>2, PlainFacts DEF Common
  <2> QED BY <2>1, <2>2, <2>3, <2>4 DEF NeedsNoHandle
<1>7. ASSUME NEW name, name \notin {"token", "spawn"}, At(t, name), NEW ops, Continue(t, ops),
             Instead(ops, name), process' = process, ~Has(ops, "record"), ~Has(ops, "ready")
      PROVE  \E head, list : At(t, head) /\ Continue(t, list) /\ Instead(list, head)
                               /\ NeedsNoHandle(list, head) /\ process' = process
  BY <1>7 DEF NeedsNoHandle
<1>8. CASE EnterSup(t)
  <2> DEFINE ops == <<Op("flock"), Op("launch"), Op("unlock")>>
  <2>1. At(t, "enterSup") /\ Continue(t, ops) /\ process' = process
    BY <1>8 DEF EnterSup
  <2>2. Instead(ops, "enterSup") /\ ~Has(ops, "record") /\ ~Has(ops, "ready")
    BY <1>1, <1>3, LockLists DEF OpNames
  <2> HIDE DEF ops
  <2> QED BY <1>7, <2>1, <2>2
<1>9. CASE TakeStartLock(t)
  <2> DEFINE ops == <<Op("enterStart"), Op("unflock")>>
  <2>1. At(t, "flock") /\ Continue(t, ops) /\ process' = process
    BY <1>9 DEF TakeStartLock, hostVars
  <2>2. Instead(ops, "flock") /\ ~Has(ops, "record") /\ ~Has(ops, "ready")
    BY <1>1, <1>2, LockLists DEF OpNames
  <2> HIDE DEF ops
  <2> QED BY <1>7, <2>1, <2>2
<1>10. CASE EnterStart(t)
  <2> DEFINE ops == <<Op("check"), Op("unlock")>>
  <2>1. At(t, "enterStart") /\ Continue(t, ops) /\ process' = process
    BY <1>10 DEF EnterStart, hostVars
  <2>2. Instead(ops, "enterStart") /\ ~Has(ops, "record") /\ ~Has(ops, "ready")
    BY <1>1, <1>2, LockLists DEF OpNames
  <2> HIDE DEF ops
  <2> QED BY <1>7, <2>1, <2>2
<1>11. CASE EnterStop(t)
  <2> DEFINE ops == <<Op("read"), Op("unlock")>>
  <2>1. At(t, "stopLock") /\ Continue(t, ops) /\ process' = process
    BY <1>11 DEF EnterStop, hostVars
  <2>2. Instead(ops, "stopLock") /\ ~Has(ops, "record") /\ ~Has(ops, "ready")
    BY <1>1, <1>2, LockLists DEF OpNames
  <2> HIDE DEF ops
  <2> QED BY <1>7, <2>1, <2>2
<1>12. CASE Shutdown(t)
  <2>1. Head(todo[t]).pid \in Pids
    BY <1>12, AtFacts DEF Shutdown, Sound
  <2>2. PICK answered \in BOOLEAN :
          Continue(t, <<AwaitStop(Head(todo[t]).pid, answered), Op("clearRecord"), Op("clearToken")>>)
    BY <1>12 DEF Shutdown, Answers
  <2>3. PICK ops : ops = <<AwaitStop(Head(todo[t]).pid, answered), Op("clearRecord"), Op("clearToken")>>
    OBVIOUS
  <2>4. At(t, "shutdown") /\ Continue(t, ops) /\ process' = process
    BY <1>12, <2>2, <2>3 DEF Shutdown, hostVars
  <2>5. Instead(ops, "shutdown") /\ AwaitStop(Head(todo[t]).pid, answered).op = "awaitStop"
    BY <2>1, <2>3, LockLists, OpFacts
  <2>6. ~Has(ops, "record") /\ ~Has(ops, "ready")
    BY <1>1, <1>3, <2>3, <2>5 DEF OpNames
  <2> QED BY <1>7, <2>4, <2>5, <2>6
<1>15. CASE Read(t) /\ record # "none"
  <2>1. PICK o : o = [Op("shutdown") EXCEPT !.pid = record]
    OBVIOUS
  <2>2. At(t, "read") /\ Continue(t, <<o>>) /\ process' = process
    BY <1>15, <2>1 DEF Read
  <2>3. record \in Pids /\ "shutdown" \in OpNames
    BY <1>15 DEF IInv, Types, OpNames
  <2>4. o.op = "shutdown" /\ Instead(<<o>>, "read")
    BY <2>1, <2>3, OpFacts, LockLists
  <2>5. ~Has(<<o>>, "record") /\ ~Has(<<o>>, "ready")
    BY <2>4 DEF Has
  <2> QED BY <1>7, <2>2, <2>4, <2>5
<1>13. CASE Check(t)
  <2>1. PICK ops : /\ Continue(t, ops)
                   /\ \/ ops = <<>> \/ ops = SpawnSteps
                      \/ ops = <<Op("clearOld")>> \o SpawnSteps
                      \/ ops = <<Op("awaitOld"), Op("clearOld")>> \o SpawnSteps
    BY <1>13 DEF Check
  <2>2. At(t, "check") /\ process' = process
    BY <1>13 DEF Check, hostVars
  <2>3. Instead(ops, "check")
    BY <1>4, <2>1, StartLists
  <2>4. Has(ops, "token") \/ ops = <<>>
    <3>1. /\ Has(SpawnSteps, "token") /\ Has(<<Op("clearOld")>> \o SpawnSteps, "token")
          /\ Has(<<Op("awaitOld"), Op("clearOld")>> \o SpawnSteps, "token")
      BY StartLists
    <3> QED BY <2>1, <3>1
  <2> QED BY <1>4, <2>1, <2>2, <2>3, <2>4 DEF NeedsNoHandle
<1>14. CASE WriteToken(t)
  <2>1. PICK p \in Pids : Continue(t, <<[Op("spawn") EXCEPT !.pid = p]>>)
    BY <1>14 DEF WriteToken
  <2>2. At(t, "token") /\ process' = process
    BY <1>14 DEF WriteToken, hostVars
  <2>3. PICK o : o = [Op("spawn") EXCEPT !.pid = p]
    OBVIOUS
  <2>4. o.op = "spawn"
    BY <2>3, OpFacts DEF OpNames
  <2>5. Continue(t, <<o>>) /\ Instead(<<o>>, "token")
    BY <2>1, <2>3, StartLists
  <2>6. Has(<<o>>, "spawn")
    BY <2>4 DEF Has
  <2> QED BY <2>2, <2>5, <2>6 DEF NeedsNoHandle
<1> QED BY <1>5, <1>6, <1>8, <1>9, <1>10, <1>11, <1>12, <1>13, <1>14, <1>15

LEMMA HandlesKept == ASSUME IInv, HandleHeld, [Next]_vars PROVE HandleHeld'
<1>1. /\ todo = [u \in Threads |-> todo[u]] /\ process \in [Hosts -> Pids \cup {"none"}]
      /\ \A u \in Threads : Stack(todo[u]) /\ u[1] \in Hosts
  BY DEF IInv, Types, Threads
<1>2. \A name : ~Has(<<>>, name)
  BY EmptyStack
<1>3. ~Handled(<<>>) /\ ~Handled(<<Op("look")>>)
  <2>1. Plain(<<Op("look")>>)
    BY PlainLists
  <2> QED BY <1>2, <2>1, PlainFacts DEF Handled, Common
\* A thread that begins or ends is in no start.
<1>4. ASSUME \A u \in Threads : todo'[u] = todo[u] \/ ~Handled(todo'[u]), process' = process
      PROVE  HandleHeld'
  BY <1>4, HandlesStay
<1>5. ASSUME NEW t \in Threads, NEW name, NEW ops, At(t, name), Continue(t, ops),
             Instead(ops, name), NeedsNoHandle(ops, name), process' = process
      PROVE  HandleHeld'
  BY <1>5, AtFacts, ReplacedHandles
<1>6. ASSUME NEW t \in Threads,
             \/ EnterSup(t) \/ TakeStartLock(t) \/ EnterStart(t) \/ Check(t) \/ AwaitOld(t)
             \/ WriteToken(t) \/ WriteRecord(t) \/ Ready(t) \/ Release(t) \/ Join(t)
             \/ EnterStop(t) \/ (Read(t) /\ record # "none") \/ Shutdown(t) \/ AwaitStopped(t)
             \/ ClearRecord(t) \/ Forget(t) \/ Look(t) \/ Backoff(t)
      PROVE  HandleHeld'
  BY <1>5, <1>6, StepLists
<1>7. ASSUME NEW t \in Threads, StartLockGivesUp(t) \/ MonitorEnds(t) PROVE HandleHeld'
  <2>1. /\ \A u \in Threads : u # t => todo'[u] = todo[u]
        /\ todo'[t] = <<>> \/ todo'[t] = <<Op("look")>>
        /\ process' = process
    BY <1>1, <1>7 DEF StartLockGivesUp, MonitorEnds, Raise, hostVars
  <2> QED BY <1>3, <1>4, <2>1
<1>8. ASSUME NEW t \in Threads, NotReady(t) PROVE HandleHeld'
  <2>1. /\ \A u \in Threads : u # t => todo'[u] = todo[u]
        /\ todo'[t] = <<>> \/ todo'[t] = <<Op("look")>>
        /\ process' = [process EXCEPT ![t[1]] = "none"] /\ At(t, "ready")
    BY <1>1, <1>8 DEF NotReady, Raise
  <2>2. Has(todo[t], "ready") /\ NeedsLock("ready")
    BY <2>1, AtFacts DEF NeedsLock, Rank
  <2>3. \A h \in Hosts : h # t[1] => process'[h] = process[h]
    BY <1>1, <2>1
  <2> QED BY <1>3, <2>1, <2>2, <2>3, HandleDropped
<1>9. ASSUME NEW t \in Threads, NEW name \in {"read", "clearToken"}, At(t, name),
             Continue(t, <<>>), process' = [process EXCEPT ![t[1]] = "none"]
      PROVE  HandleHeld'
  <2>1. /\ todo[t] # <<>> /\ Head(todo[t]).op = name /\ Has(todo[t], name)
        /\ NeedsLock(name) /\ Rank(name) = 8
    BY <1>9, AtFacts DEF NeedsLock, Rank
  <2>2. /\ \A u \in Threads : u # t => todo'[u] = todo[u]
        /\ \A other : Has(todo'[t], other) <=> Has(<<>>, other) \/ Has(Tail(todo[t]), other)
    BY <1>9, <2>1, NoOps, ContinueStacks
  <2>3. ~Handled(todo'[t])
    BY <1>2, <2>1, <2>2, NoStartBelow DEF Handled
  <2>4. \A h \in Hosts : h # t[1] => process'[h] = process[h]
    BY <1>1, <1>9
  <2> QED BY <2>1, <2>2, <2>3, <2>4, HandleDropped
<1>10. ASSUME NEW t \in Threads, ClearToken(t) PROVE HandleHeld'
  BY <1>9, <1>10 DEF ClearToken
<1>11. ASSUME NEW t \in Threads, Read(t), record = "none" PROVE HandleHeld'
  BY <1>9, <1>11 DEF Read
<1>12. ASSUME NEW t \in Threads, Spawn(t) PROVE HandleHeld'
  <2>1. /\ At(t, "spawn") /\ Continue(t, <<>>)
        /\ process' = [process EXCEPT ![t[1]] = Head(todo[t]).pid]
    BY <1>12 DEF Spawn
  <2>2. Head(todo[t]).pid \in Pids /\ Has(todo[t], "spawn") /\ NeedsLock("spawn")
    BY <2>1, AtFacts DEF Sound, NeedsLock, Rank
  <2>3. \A u \in Threads : u # t => todo'[u] = todo[u]
    BY <2>1, Popped
  <2>4. process'[t[1]] \in Pids /\ \A h \in Hosts : h # t[1] => process'[h] = process[h]
    BY <1>1, <2>1, <2>2
  <2> QED BY <2>2, <2>3, <2>4, HandleDropped
<1>13. ASSUME NEW t \in Threads, Launch(t) PROVE HandleHeld'
  <2>1. At(t, "launch") /\ process' = process
    BY <1>13 DEF Launch
  <2>2. CASE Continue(t, <<>>)
    BY <1>2, <1>5, <2>1, <2>2, NoOps DEF NeedsNoHandle
  <2>3. ASSUME NEW m, todo' = [todo EXCEPT ![t] = Tail(@), ![<<t[1], m>>] = <<Op("look")>>]
        PROVE  HandleHeld'
    <3>1. todo[t] # <<>> /\ Head(todo[t]).op = "launch" /\ Rank("launch") = 8
      BY <2>1, AtFacts DEF Rank
    <3>2. ~Handled(Tail(todo[t]))
      BY <3>1, NoStartBelow DEF Handled
    <3>3. \A u \in Threads : todo'[u] \in {todo[u], Tail(todo[t]), <<Op("look")>>}
      BY <1>1, <2>3
    <3> QED BY <1>3, <1>4, <2>1, <3>2, <3>3
  <2> QED BY <1>13, <2>2, <2>3 DEF Launch
<1>14. ASSUME NEW t \in Threads, Request(t) PROVE HandleHeld'
  <2>1. PICK ops : Plain(ops) /\ todo' = [todo EXCEPT ![t] = ops]
    <3>1. monitor[t[1]] \in Monitors \cup {"none"}
      BY <1>1 DEF IInv, Types
    <3> QED BY <1>14, <3>1, PlainLists DEF Request, Call, Begin
  <2>2. ~Handled(ops) /\ process' = process
    BY <1>14, <2>1, PlainFacts DEF Handled, Common, Request
  <2> QED BY <1>1, <1>4, <2>1, <2>2
<1>15. ASSUME NEW h \in Hosts, Crash(h) PROVE HandleHeld'
  <2>1. /\ todo' = [u \in Threads |-> IF u[1] = h THEN <<>> ELSE todo[u]]
        /\ process' = [process EXCEPT ![h] = "none"]
    BY <1>15 DEF Crash
  <2>2. \A u \in Threads : u[1] = h => todo'[u] = <<>>
    BY <2>1
  <2>3. \A u \in Threads : u[1] # h => todo'[u] = todo[u] /\ process'[u[1]] = process[u[1]]
    BY <1>1, <2>1
  <2> QED BY <1>3, <2>2, <2>3, HandlesStay
<1>16. ASSUME NEW p \in Pids, Bind(p) \/ Exit(p) \/ GetsBusy(p) \/ BusyEnds(p) \/ PidReused(p)
       PROVE  HandleHeld'
  BY <1>16 DEF Bind, Exit, GetsBusy, BusyEnds, PidReused, hostVars, HandleHeld
<1>17. CASE Ages \/ UNCHANGED vars
  BY <1>17 DEF Ages, vars, hostVars, HandleHeld
<1>18. ASSUME NEW t \in Threads, Step(t) PROVE HandleHeld'
  BY <1>6, <1>7, <1>8, <1>10, <1>11, <1>12, <1>13, <1>18 DEF Step
<1> QED BY <1>14, <1>15, <1>16, <1>17, <1>18 DEF Next

LEMMA Typed == IInv /\ Flags /\ HandleHeld => TypeOK
<1> SUFFICES ASSUME IInv, Flags, HandleHeld PROVE TypeOK
  OBVIOUS
<1>1. Types
  BY DEF IInv
<1>2. todo \in [Threads -> Seq(Ops)]
  BY <1>1 DEF Types, Stack
<1>3. ASSUME NEW t \in Threads, Head(todo[t] \o <<Op("look")>>).op \in {"record", "ready"}
      PROVE  process[t[1]] \in Pids
  <2>1. Stack(todo[t]) /\ todo[t] \in Seq(Ops)
    BY <1>1 DEF Types, Stack
  <2>2. Op("look") \in Ops /\ Op("look").op = "look"
    BY OpFacts DEF OpNames
  <2>3. <<Op("look")>> \in Seq(Ops) /\ Len(<<Op("look")>>) = 1
    BY <2>2
  <2>4. todo[t] # <<>>
    <3>1. SUFFICES ASSUME todo[t] = <<>> PROVE FALSE
      OBVIOUS
    <3>2. todo[t] \o <<Op("look")>> = <<Op("look")>>
      BY <2>3, <3>1, ConcatEmptySeq
    <3>3. Head(<<Op("look")>>) = Op("look")
      OBVIOUS
    <3> QED BY <1>3, <2>2, <3>2, <3>3
  <2>5. Head(todo[t] \o <<Op("look")>>) = Head(todo[t])
    <3>1. Len(todo[t]) \in Nat /\ Len(todo[t]) >= 1 /\ Head(todo[t]) = todo[t][1]
      BY <2>1, <2>4, StackFacts
    <3> DEFINE s == todo[t] \o <<Op("look")>>
    <3>2. s \in Seq(Ops) /\ Len(s) = Len(todo[t]) + 1 /\ s[1] = todo[t][1]
      BY <2>1, <2>3, <3>1, ConcatProperties
    <3> HIDE DEF s
    <3>3. Len(s) >= 1
      BY <3>1, <3>2
    <3>4. s # <<>>
      BY <3>3
    <3>5. Head(s) = s[1]
      BY <3>2, <3>4, HeadTailProperties
    <3> QED BY <3>1, <3>2, <3>5 DEF s
  <2>6. \E name \in {"record", "ready"} : Head(todo[t]).op = name /\ Has(todo[t], name)
    BY <1>3, <2>1, <2>4, <2>5, HasParts
  <2>7. Rank("record") = 5 /\ Rank("ready") = 6 /\ Rank("token") = 3 /\ Rank("spawn") = 0
    BY DEF Rank
  <2>8. ~Has(todo[t], "token") /\ ~Has(todo[t], "spawn")
    <3>1. ASSUME NEW name \in {"token", "spawn"}, Has(Tail(todo[t]), name) PROVE FALSE
      <4>1. Rank(Head(todo[t]).op) < Rank(name)
        BY <2>1, <2>4, <2>7, <3>1, TailRank
      <4> QED BY <2>6, <2>7, <4>1
    <3> QED BY <2>1, <2>4, <2>6, <3>1, HasParts
  <2> QED BY <2>6, <2>8 DEF HandleHeld, Handled
<1> QED BY <1>1, <1>2, <1>3 DEF TypeOK, Types, Flags, Ops, States

\* Every stack, file and handle keeps its type; in particular no thread of any
\* host ever asks a process that is None for its id or its exit status, although
\* stop forgets the handle without the start lock.
THEOREM TypeCorrect == Spec => []TypeOK
<1>1. Init => IInv /\ Flags /\ HandleHeld
  BY InitIInv, InitTyped
<1>2. IInv /\ Flags /\ HandleHeld /\ [Next]_vars => (IInv /\ Flags /\ HandleHeld)'
  BY NextKeeps, FlagsKept, HandlesKept
<1> QED BY <1>1, <1>2, Typed, PTL DEF Spec
=============================================================================
