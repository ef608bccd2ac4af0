--------------------------- MODULE SeeLightProofs ----------------------------
(***************************************************************************)
(* Proofs about SeeLight, for any threads, purposes and number of looks:   *)
(* its type, and that the room is lit to see by one look at a time.        *)
(*                                                                         *)
(* The argument.  A look begins only when the room is not cooling down,    *)
(* and a room that is not cooling has no hold and nobody on the way to     *)
(* arm one (Cooled): the cooldown begins in the same section of the lock   *)
(* and outlasts the hold.  A look on the way arms its hold last (LastArm), *)
(* so it becomes one hold and no more (OneOnTheWay).                       *)
(***************************************************************************)
EXTENDS SeeLight, SequenceTheorems, FiniteSetTheorems, TLAPS

Ops == [op : {"look", "claim", "write", "arm", "shoot"}, who : Writers, on : BOOLEAN]

RoomTypeOK ==
    /\ on \in BOOLEAN /\ ours \in BOOLEAN
    /\ token \in 0..MaxLooks /\ holds \subseteq 1..token
    /\ cooling \in BOOLEAN /\ asleep \in BOOLEAN
    /\ by \in Writers

Arms(s) == \E i \in DOMAIN s : s[i] = Arm

\* A hold is armed last, and a look has nothing else to do.
InOrder(s) ==
    /\ \A i \in DOMAIN s : s[i].op = "arm" => s[i] = Arm /\ i = Len(s)
    /\ \A i \in DOMAIN s : s[i].op = "look" => Len(s) = 1

LastArm == \A t \in Threads : InOrder(todo[t])

\* The cooldown outlasts the hold.
Cooled == ~cooling => holds = {} /\ \A t \in Threads : ~Arms(todo[t])

\* There is one hold, or one thread on the way to it.
OneOnTheWay ==
    /\ \A k, l \in holds : k = l
    /\ \A t, u \in Threads : Arms(todo[t]) /\ Arms(todo[u]) => t = u
    /\ \A t \in Threads : Arms(todo[t]) => holds = {} /\ token > 0

IInv == TypeOK /\ LastArm /\ Cooled /\ OneOnTheWay

-----------------------------------------------------------------------------
(* Stacks *)

LEMMA TypeSplit ==
    /\ TypeOK <=> RoomTypeOK /\ todo \in [Threads -> Seq(Ops)]
    /\ TypeOK' <=> RoomTypeOK' /\ todo' \in [Threads -> Seq(Ops)]
BY DEF TypeOK, RoomTypeOK, Ops

LEMMA OpType ==
    \A name \in {"look", "claim", "write", "arm", "shoot"}, who \in Writers, v \in BOOLEAN :
        Op(name, who, v) \in Ops
BY DEF Op, Ops

\* Running the first operation of an ordered stack leaves an ordered one, that
\* arms a hold only if the first operation was something else.
LEMMA TailInOrder ==
    ASSUME NEW s \in Seq(Ops), s # <<>>, InOrder(s)
    PROVE  /\ Tail(s) \in Seq(Ops) /\ InOrder(Tail(s))
           /\ <<>> \o Tail(s) = Tail(s)
           /\ Arms(Tail(s)) => Arms(s) /\ Head(s).op # "arm"
           /\ Head(s).op = "arm" => Arms(s)
           /\ Head(s).op = "look" => Tail(s) = <<>> /\ ~Arms(s)
<1>1. /\ Tail(s) \in Seq(Ops) /\ Len(Tail(s)) = Len(s) - 1 /\ Len(s) \in Nat \ {0}
      /\ \A i \in 1..Len(Tail(s)) : Tail(s)[i] = s[i + 1]
  BY HeadTailProperties, EmptySeq
<1>2. DOMAIN s = 1..Len(s) /\ DOMAIN Tail(s) = 1..Len(Tail(s)) /\ Head(s) = s[1]
  BY <1>1, LenProperties
<1>3. \A i \in DOMAIN Tail(s) : i + 1 \in DOMAIN s /\ i + 1 # 1 /\ Tail(s)[i] = s[i + 1]
  BY <1>1, <1>2
<1>4. InOrder(Tail(s))
  BY <1>1, <1>2, <1>3 DEF InOrder
<1>5. Head(s).op = "look" => Tail(s) = <<>> /\ ~Arms(s)
  <2> SUFFICES ASSUME s[1].op = "look" PROVE Tail(s) = <<>> /\ ~Arms(s)
    BY <1>2
  <2>1. Len(s) = 1
    BY <1>1, <1>2 DEF InOrder
  <2>2. Tail(s) = <<>>
    <3>1. \A q \in Seq(Ops) : q # <<>> => Len(q) \in Nat \ {0}
      BY EmptySeq
    <3>2. Tail(s) \in Seq(Ops) /\ Len(Tail(s)) = 0
      BY <1>1, <2>1
    <3> QED BY <3>1, <3>2
  <2> QED BY <1>2, <2>1, <2>2 DEF Arms, Arm, Op
<1>6. Arms(Tail(s)) => Arms(s) /\ Head(s).op # "arm"
  <2> SUFFICES ASSUME NEW i \in DOMAIN Tail(s), Tail(s)[i] = Arm
               PROVE  Arms(s) /\ s[1].op # "arm"
    BY <1>2 DEF Arms
  <2>1. Arms(s)
    BY <1>3 DEF Arms
  <2> QED BY <1>1, <1>2, <1>3, <2>1 DEF InOrder
<1>7. Head(s).op = "arm" => Arms(s)
  BY <1>1, <1>2 DEF InOrder, Arms
<1> QED BY <1>1, <1>4, <1>5, <1>6, <1>7, ConcatEmptySeq

\* Operations that neither look nor arm a hold, and stacks of them.
PlainOps == {o \in Ops : o.op \notin {"look", "arm"}}

LEMMA PlainStacks ==
    ASSUME NEW s \in Seq(PlainOps)
    PROVE  s \in Seq(Ops) /\ InOrder(s) /\ ~Arms(s)
<1>1. DOMAIN s = 1..Len(s) /\ \A i \in 1..Len(s) : s[i] \in PlainOps
  BY LenProperties, ElementOfSeq
<1>2. s \in Seq(Ops)
  BY SeqMonotonic DEF PlainOps
<1> QED BY <1>1, <1>2 DEF InOrder, Arms, Arm, Op, PlainOps

LEMMA PlainOpType ==
    \A name \in {"claim", "write", "shoot"}, who \in Writers, v \in BOOLEAN :
        Op(name, who, v) \in PlainOps
BY DEF Op, Ops, PlainOps

LEMMA SetLightType ==
    ASSUME NEW who \in Writers, NEW v \in BOOLEAN
    PROVE  SetLight(who, v) \in Seq(PlainOps) /\ Len(SetLight(who, v)) = 2
BY PlainOpType DEF SetLight

\* What a look that may begin does, and what the photographer does.
LEMMA LookProgram ==
    LET s == SetLight("see", TRUE) \o <<Arm>> IN s \in Seq(Ops) /\ InOrder(s) /\ s \o <<>> = s
<1> DEFINE r == SetLight("see", TRUE)
           s == r \o <<Arm>>
<1>0. Arm \in Ops
  BY OpType DEF Arm, Writers
<1> HIDE DEF r
<1>1. r \in Seq(PlainOps) /\ Len(r) = 2 /\ r \in Seq(Ops) /\ \A i \in 1..2 : r[i] \in PlainOps
  BY SetLightType, PlainStacks, ElementOfSeq DEF Writers, r
<1>2. <<Arm>> \in Seq(Ops) /\ Len(<<Arm>>) = 1 /\ <<Arm>>[1] = Arm
  BY <1>0
<1> HIDE DEF s
<1>3. /\ s \in Seq(Ops) /\ Len(s) = 3
      /\ \A i \in 1..3 : s[i] = IF i <= 2 THEN r[i] ELSE <<Arm>>[i - 2]
  BY <1>1, <1>2, ConcatProperties DEF s
<1>4. DOMAIN s = 1..3 /\ s[3] = Arm /\ s[1] \in PlainOps /\ s[2] \in PlainOps
  BY <1>1, <1>2, <1>3, LenProperties
<1>5. InOrder(s)
  BY <1>3, <1>4 DEF InOrder, Arm, Op, PlainOps
<1> QED BY <1>3, <1>5, ConcatEmptySeq DEF s, r

LEMMA PhotoPrograms ==
    /\ SetLight("photo", TRUE) \o <<Op("shoot", "photo", TRUE)>> \o GivesItBack \in Seq(PlainOps)
    /\ <<Op("shoot", "photo", FALSE)>> \in Seq(PlainOps)
<1>1. \A s, r \in Seq(PlainOps) : s \o r \in Seq(PlainOps)
  BY ConcatProperties
<1>2. \A v \in BOOLEAN : /\ SetLight("photo", v) \in Seq(PlainOps)
                         /\ <<Op("shoot", "photo", v)>> \in Seq(PlainOps)
  BY SetLightType, PlainOpType DEF Writers
<1> QED BY <1>1, <1>2 DEF GivesItBack

-----------------------------------------------------------------------------
(* Steps *)

\* A thread that runs its first operation, arming nothing: its stack shrinks.
LEMMA Shrinks ==
    ASSUME IInv, NEW t \in Threads, todo[t] # <<>>, Continue(t, <<>>)
    PROVE  /\ todo' \in [Threads -> Seq(Ops)] /\ LastArm'
           /\ \A u \in Threads : Arms(todo'[u]) => Arms(todo[u])
           /\ Head(todo[t]).op = "arm" => Arms(todo[t]) /\ ~Arms(todo'[t])
<1>1. todo \in [Threads -> Seq(Ops)] /\ InOrder(todo[t])
  BY TypeSplit DEF IInv, LastArm
<1>2. todo' = [todo EXCEPT ![t] = Tail(todo[t])]
  BY <1>1, TailInOrder DEF Continue
<1> QED BY <1>1, <1>2, TailInOrder DEF IInv, LastArm

\* An idle thread that begins a program that arms nothing.
LEMMA Begins ==
    ASSUME IInv, NEW t \in Threads, Idle(t), NEW s \in Seq(Ops), InOrder(s), ~Arms(s),
           todo' = [todo EXCEPT ![t] = s]
    PROVE  /\ todo' \in [Threads -> Seq(Ops)] /\ LastArm'
           /\ \A u \in Threads : Arms(todo'[u]) => Arms(todo[u])
BY TypeSplit DEF IInv, LastArm

\* Steps that add no hold and nobody on the way to one.
LEMMA NothingMore ==
    ASSUME IInv, RoomTypeOK', todo' \in [Threads -> Seq(Ops)], LastArm',
           \A u \in Threads : Arms(todo'[u]) => Arms(todo[u]),
           holds' \subseteq holds, token' = token, cooling' = cooling
    PROVE  IInv'
BY TypeSplit DEF IInv, Cooled, OneOnTheWay

LEMMA LookPreserves ==
    ASSUME IInv, NEW t \in Threads, Look(t)
    PROVE  IInv'
<1>1. /\ todo \in [Threads -> Seq(Ops)] /\ RoomTypeOK /\ todo[t] # <<>> /\ InOrder(todo[t])
      /\ Head(todo[t]).op = "look" /\ UNCHANGED <<on, ours, holds, asleep, by>>
  BY TypeSplit DEF IInv, LastArm, Look, At
<1>2. Tail(todo[t]) = <<>> /\ ~Arms(todo[t])
  BY <1>1, TailInOrder
<1>3. CASE MayLook /\ token < MaxLooks
  <2> DEFINE s == SetLight("see", TRUE) \o <<Arm>>
  <2>1. /\ token' = token + 1 /\ cooling' = TRUE /\ ~cooling
        /\ Continue(t, s)
    BY <1>3 DEF Look, MayLook, NextToken
  <2>2. s \in Seq(Ops) /\ InOrder(s) /\ s \o <<>> = s
    BY LookProgram
  <2>3. todo' = [todo EXCEPT ![t] = s]
    BY <1>2, <2>1, <2>2 DEF Continue
  <2>4. todo' \in [Threads -> Seq(Ops)] /\ LastArm'
    BY <1>1, <2>2, <2>3 DEF IInv, LastArm
  <2>5. holds = {} /\ holds' = {} /\ \A u \in Threads : ~Arms(todo[u])
    BY <1>1, <2>1 DEF IInv, Cooled
  <2>6. \A u \in Threads : Arms(todo'[u]) => u = t
    BY <1>1, <2>3, <2>5
  <2>7. RoomTypeOK'
    BY <1>1, <1>3, <2>1, <2>5, MaxLooksAssumption DEF RoomTypeOK
  <2>8. token' > 0
    BY <1>1, <2>1, MaxLooksAssumption DEF RoomTypeOK
  <2> QED BY <2>1, <2>4, <2>5, <2>6, <2>7, <2>8, TypeSplit DEF IInv, Cooled, OneOnTheWay
<1>4. CASE ~(MayLook /\ token < MaxLooks)
  <2>1. Continue(t, <<>>) /\ UNCHANGED <<token, cooling>>
    BY <1>4 DEF Look
  <2>2. RoomTypeOK'
    BY <1>1, <2>1 DEF RoomTypeOK
  <2> QED BY <1>1, <2>1, <2>2, Shrinks, NothingMore
<1> QED BY <1>3, <1>4

LEMMA ArmPreserves ==
    ASSUME IInv, NEW t \in Threads, ArmHold(t)
    PROVE  IInv'
<1>1. /\ todo[t] # <<>> /\ Head(todo[t]).op = "arm" /\ holds' = holds \cup {token}
      /\ Continue(t, <<>>) /\ UNCHANGED <<on, ours, token, cooling, asleep, by>>
  BY DEF ArmHold, At
<1>2. /\ todo' \in [Threads -> Seq(Ops)] /\ LastArm' /\ Arms(todo[t]) /\ ~Arms(todo'[t])
      /\ \A u \in Threads : Arms(todo'[u]) => Arms(todo[u])
  BY <1>1, Shrinks
<1>3. /\ holds = {} /\ token > 0 /\ cooling
      /\ \A u \in Threads : Arms(todo[u]) => u = t
  BY <1>2 DEF IInv, OneOnTheWay, Cooled
<1>4. RoomTypeOK'
  BY <1>1, <1>3, TypeSplit, MaxLooksAssumption DEF IInv, RoomTypeOK
<1>5. \A u \in Threads : ~Arms(todo'[u])
  BY <1>2, <1>3
<1> QED BY <1>1, <1>2, <1>3, <1>4, <1>5, TypeSplit DEF IInv, Cooled, OneOnTheWay

LEMMA RunPreserves ==
    ASSUME IInv, NEW t \in Threads, Claim(t) \/ Write(t) \/ Shoot(t)
    PROVE  IInv'
<1>1. /\ todo[t] # <<>> /\ Continue(t, <<>>) /\ UNCHANGED <<token, holds, cooling, asleep>>
  BY DEF Claim, Write, Shoot, At
<1>2. todo \in [Threads -> Seq(Ops)] /\ RoomTypeOK
  BY TypeSplit DEF IInv
<1>3. Head(todo[t]) \in Ops
  BY <1>1, <1>2, HeadTailProperties
<1>4. RoomTypeOK'
  BY <1>1, <1>2, <1>3 DEF RoomTypeOK, Claim, Write, Shoot, Ops
<1> QED BY <1>1, <1>4, Shrinks, NothingMore

LEMMA BeginPreserves ==
    ASSUME IInv, NEW t \in Threads,
           WantsToSee(t) \/ Photograph(t) \/ UserLight(t) \/ Sleep(t) \/ HoldEnds(t)
    PROVE  IInv'
<1>1. /\ Idle(t) /\ UNCHANGED <<on, ours, token, cooling, by>> /\ holds' \subseteq holds
      /\ asleep' \in {asleep, TRUE}
  BY DEF WantsToSee, Photograph, UserLight, Sleep, HoldEnds, Begin
<1>2. <<>> \in Seq(Ops) /\ InOrder(<<>>) /\ ~Arms(<<>>)
  BY EmptySeq DEF InOrder, Arms
<1>3. LET s == <<Op("look", "see", TRUE)>> IN s \in Seq(Ops) /\ InOrder(s) /\ ~Arms(s)
  <2> DEFINE s == <<Op("look", "see", TRUE)>>
  <2>1. s \in Seq(Ops)
    <3>1. Op("look", "see", TRUE) \in Ops
      BY OpType DEF Writers
    <3>2. \A o \in Ops : <<o>> \in Seq(Ops)
      OBVIOUS
    <3> QED BY <3>1, <3>2
  <2>2. DOMAIN s = {1} /\ Len(s) = 1 /\ s[1] = Op("look", "see", TRUE)
    OBVIOUS
  <2> QED BY <2>1, <2>2 DEF InOrder, Arms, Arm, Op
<1>4. PICK s \in Seq(Ops) : InOrder(s) /\ ~Arms(s) /\ todo' = [todo EXCEPT ![t] = s]
  <2>1. CASE WantsToSee(t)
    BY <2>1, <1>3 DEF WantsToSee, Begin
  <2>2. CASE Photograph(t)
    BY <2>2, PhotoPrograms, PlainStacks DEF Photograph, Begin
  <2>3. CASE UserLight(t) \/ Sleep(t)
    BY <2>3, SetLightType, PlainStacks DEF UserLight, Sleep, Begin, Writers
  <2>4. CASE HoldEnds(t)
    BY <2>4, <1>2, SetLightType, PlainStacks DEF HoldEnds, Writers
  <2> QED BY <2>1, <2>2, <2>3, <2>4
<1>5. RoomTypeOK'
  BY <1>1, TypeSplit DEF IInv, RoomTypeOK
<1> QED BY <1>1, <1>4, <1>5, Begins, NothingMore

LEMMA InitEstablishes == Init => IInv
<1> SUFFICES ASSUME Init PROVE IInv
  OBVIOUS
<1>1. \A t \in Threads : todo[t] = <<>>
  BY DEF Init
<1>2. \A t \in Threads : ~Arms(todo[t]) /\ InOrder(todo[t])
  BY <1>1 DEF Arms, InOrder
<1>3. todo \in [Threads -> Seq(Ops)] /\ RoomTypeOK
  <2>1. todo \in [Threads -> Seq(Ops)]
    BY EmptySeq DEF Init
  <2>2. token \in 0..MaxLooks /\ holds \subseteq 1..token
    BY MaxLooksAssumption DEF Init
  <2> QED BY <2>1, <2>2 DEF Init, RoomTypeOK, Writers
<1> QED BY <1>2, <1>3, TypeSplit DEF Init, IInv, LastArm, Cooled, OneOnTheWay

LEMMA StepPreserves == IInv /\ [Next]_vars => IInv'
<1> SUFFICES ASSUME IInv, [Next]_vars PROVE IInv'
  OBVIOUS
<1>0. todo \in [Threads -> Seq(Ops)] /\ RoomTypeOK /\ LastArm
  BY DEF IInv, TypeOK, RoomTypeOK, Ops
<1>1. ASSUME NEW t \in Threads, Run(t) PROVE IInv'
  BY <1>1, RunPreserves, LookPreserves, ArmPreserves DEF Run
<1>2. ASSUME NEW t \in Threads,
             WantsToSee(t) \/ Photograph(t) \/ UserLight(t) \/ Sleep(t) \/ HoldEnds(t)
      PROVE  IInv'
  BY <1>2, BeginPreserves
<1>3. CASE CooldownEnds
  <2>1. /\ UNCHANGED <<todo, on, ours, token, holds, asleep, by>> /\ cooling' = FALSE
        /\ holds = {} /\ \A t \in Threads : \A i \in DOMAIN todo[t] : todo[t][i].who # "see"
    BY <1>3 DEF CooldownEnds, Looking
  <2>2. \A t \in Threads : ~Arms(todo[t])
    BY <2>1 DEF Arms, Arm, Op
  <2>3. RoomTypeOK' /\ LastArm'
    BY <1>0, <2>1 DEF RoomTypeOK, LastArm
  <2> QED BY <1>0, <2>1, <2>2, <2>3, TypeSplit DEF IInv, Cooled, OneOnTheWay
<1>4. CASE Wake \/ UNCHANGED vars
  <2>1. UNCHANGED <<todo, on, ours, token, holds, cooling, by>> /\ asleep' \in {asleep, FALSE}
    BY <1>4 DEF Wake, vars
  <2>2. RoomTypeOK' /\ LastArm'
    BY <1>0, <2>1 DEF RoomTypeOK, LastArm
  <2> QED BY <1>0, <2>1, <2>2, NothingMore
<1> QED BY <1>1, <1>2, <1>3, <1>4 DEF Next

LEMMA Invariance == Spec => []IInv
BY InitEstablishes, StepPreserves, PTL DEF Spec

-----------------------------------------------------------------------------
(* Theorems *)

\* Every variable keeps its type, the stacks of pending operations included.
THEOREM TypeCorrect == Spec => []TypeOK
<1>1. IInv => TypeOK
  BY DEF IInv
<1> QED BY <1>1, Invariance, PTL

\* However many threads ask for light at once, the room is lit to see by one
\* of them, and not again before its hold is over.
THEOREM OneLookAtATime == Spec => []OneLook
<1>1. ASSUME IInv PROVE OneLook
  <2> DEFINE onTheWay == {t \in Threads : \E i \in DOMAIN todo[t] : todo[t][i] = Arm}
  <2>1. onTheWay = {t \in Threads : Arms(todo[t])}
    BY DEF Arms
  <2>2. \A t, u \in onTheWay : t = u
    BY <1>1, <2>1 DEF IInv, OneOnTheWay
  <2>3. onTheWay # {} => holds = {}
    BY <1>1, <2>1 DEF IInv, OneOnTheWay
  <2>4. \A k, l \in holds : k = l
    BY <1>1 DEF IInv, OneOnTheWay
  <2>5. Cardinality(holds) = 0 \/ (Cardinality(holds) = 1 /\ holds # {})
    <3>1. CASE holds = {}
      BY <3>1, FS_EmptySet
    <3>2. CASE holds # {}
      <4>1. PICK k : holds = {k}
        BY <3>2, <2>4
      <4> QED BY <4>1, <3>2, FS_Singleton
    <3> QED BY <3>1, <3>2
  <2>6. Cardinality(onTheWay) = 0 \/ (Cardinality(onTheWay) = 1 /\ onTheWay # {})
    <3>1. CASE onTheWay = {}
      BY <3>1, FS_EmptySet
    <3>2. CASE onTheWay # {}
      <4>1. PICK t : onTheWay = {t}
        BY <3>2, <2>2
      <4> QED BY <4>1, <3>2, FS_Singleton
    <3> QED BY <3>1, <3>2
  <2>7. holds = {} => Cardinality(holds) = 0
    BY FS_EmptySet
  <2>8. Cardinality(holds) + Cardinality(onTheWay) <= 1
    BY <2>3, <2>5, <2>6, <2>7
  <2> QED BY <2>8 DEF OneLook
<1> QED BY <1>1, Invariance, PTL
=============================================================================
