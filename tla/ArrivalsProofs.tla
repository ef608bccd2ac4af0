---------------------------- MODULE ArrivalsProofs ----------------------------
(***************************************************************************)
(* Proofs about Arrivals, for any timers, entries, faces, crashes and      *)
(* length of the lists: an arrival is welcomed once, and nobody who came   *)
(* is forgotten.                                                           *)
(*                                                                         *)
(* The welcome.  An entry that has not been welcomed yet is claimed in     *)
(* one place: as the pending entry, or by one delivery (Once).  Taking the *)
(* pending entry and clearing it happen in one section of the lock, so     *)
(* that two deliveries never take the same; a delivery that finds nothing  *)
(* pending takes a time stamp of its own; and the welcome is the last      *)
(* thing a delivery does (Shape), so that the claim ends with it.  The     *)
(* camera welcomes by name only an entry nobody has named, and names it in *)
(* the same section of the lock (NamedOnce).                               *)
(*                                                                         *)
(* The list.  A delivery reports before it drops or marks (Told), so what  *)
(* it drops has been reported.  A crash goes back to the saved list, and   *)
(* loses nobody whose announcement has been saved, because that saves the  *)
(* list it is on (OnDisk): an entry is put on the list before it is        *)
(* announced, and never again afterwards (Known).  What a full list or     *)
(* queue drops for a new one is its head (AppendLastFacts).  What Without  *)
(* leaves of a list is proved by induction on its length; the induction    *)
(* rests on the least element of a set of naturals.                        *)
(***************************************************************************)
EXTENDS Arrivals, SequenceTheorems, WellFoundedInduction, TLAPS

-----------------------------------------------------------------------------
(* Lists of entries *)

\* A set of natural numbers has a least element.
LEMMA LeastNatural ==
    ASSUME NEW T, T \subseteq Nat, T # {}
    PROVE  \E m \in T : \A k \in T : m <= k
<1> DEFINE R == OpToRel(<, Nat)
<1>1. IsWellFoundedOn(R, Nat)
  BY NatLessThanWellFounded
<1>2. \A x, y \in Nat : y < x => <<y, x>> \in R
  BY DEF OpToRel
<1> HIDE DEF R
<1>3. PICK m \in T : \A k \in T : ~ (<<k, m>> \in R)
  BY <1>1, WFMin
<1>4. ASSUME NEW k \in T PROVE m <= k
  <2>1. m \in Nat /\ k \in Nat
    OBVIOUS
  <2>2. ~ (k < m)
    BY <1>2, <1>3, <2>1, Zenon
  <2> QED BY <2>1, <2>2
<1> QED BY <1>4

\* Induction, about a set of numbers.
LEMMA Induction ==
    ASSUME NEW T, 0 \in T, \A n \in Nat : n \in T => n + 1 \in T
    PROVE  Nat \subseteq T
<1> SUFFICES ASSUME Nat \ T # {} PROVE FALSE
  OBVIOUS
<1>1. PICK m \in Nat \ T : \A k \in Nat \ T : m <= k
  BY LeastNatural
<1>2. m # 0 /\ m - 1 \in Nat /\ m - 1 \in T
  BY <1>1
<1> QED BY <1>1, <1>2

\* f computes Without step by step.
Computes(f, list, gone) ==
    /\ f[0] = <<>> /\ Without(list, gone) = f[Len(list)]
    /\ \A n \in Nat : n + 1 <= Len(list) =>
          f[n + 1] = IF list[n + 1] \in gone THEN f[n] ELSE Append(f[n], list[n + 1])

\* The recursive function of Without exists: it is built up to any length.
LEMMA WithoutSteps ==
    ASSUME NEW S, NEW list \in Seq(S), NEW gone
    PROVE  \E f : Computes(f, list, gone)
<1> DEFINE step(f, i) == IF i = 0 THEN <<>>
                         ELSE IF list[i] \in gone THEN f[i - 1]
                         ELSE Append(f[i - 1], list[i])
           T == {n \in Nat : \E f : \A i \in 0..n : f[i] = step(f, i)}
<1>0. ASSUME NEW f, NEW g, NEW i \in Nat, i # 0 => g[i - 1] = f[i - 1]
      PROVE  step(g, i) = step(f, i)
  BY <1>0
<1>1. 0 \in T
  <2> DEFINE f == [i \in {0} |-> <<>>]
  <2>1. \A i \in 0..0 : f[i] = step(f, i)
    OBVIOUS
  <2> HIDE DEF f
  <2> QED BY <2>1
<1> HIDE DEF step
<1>2. ASSUME NEW n \in Nat, n \in T PROVE n + 1 \in T
  <2>1. PICK f : \A i \in 0..n : f[i] = step(f, i)
    BY <1>2
  <2> DEFINE g == [i \in 0..(n + 1) |-> IF i <= n THEN f[i] ELSE step(f, i)]
  <2>2. ASSUME NEW i \in 0..(n + 1) PROVE g[i] = step(g, i)
    <3>1. i # 0 => g[i - 1] = f[i - 1]
      OBVIOUS
    <3>2. step(g, i) = step(f, i)
      BY <1>0, <3>1
    <3> QED BY <2>1, <3>2
  <2> HIDE DEF g
  <2> QED BY <2>2
<1> HIDE DEF T
<1>3. Len(list) \in T
  BY <1>1, <1>2, Induction, LenProperties
<1>4. \E f : f = [i \in 0..Len(list) |-> step(f, i)]
  <2>1. PICK f : \A i \in 0..Len(list) : f[i] = step(f, i)
    BY <1>3 DEF T
  <2> DEFINE g == [i \in 0..Len(list) |-> f[i]]
  <2>2. ASSUME NEW i \in 0..Len(list) PROVE g[i] = step(g, i)
    BY <1>0, <2>1, LenProperties
  <2>3. g = [i \in 0..Len(list) |-> step(g, i)]
    BY <2>2
  <2> HIDE DEF g
  <2> QED BY <2>3
<1> DEFINE kept == CHOOSE f : f = [i \in 0..Len(list) |-> step(f, i)]
<1>5. kept = [i \in 0..Len(list) |-> step(kept, i)]
  BY <1>4
<1>6. Without(list, gone) = kept[Len(list)]
  BY DEF Without, step
<1> HIDE DEF kept
<1>7. \A i \in 0..Len(list) : kept[i] = step(kept, i)
  BY <1>5
<1>8. kept[0] = <<>>
  BY <1>7, LenProperties DEF step
<1>9. ASSUME NEW n \in Nat, n + 1 <= Len(list)
      PROVE  kept[n + 1] = IF list[n + 1] \in gone THEN kept[n] ELSE Append(kept[n], list[n + 1])
  <2>1. n + 1 \in 0..Len(list) /\ n + 1 # 0 /\ (n + 1) - 1 = n
    BY <1>9, LenProperties
  <2> QED BY <1>7, <2>1 DEF step
<1>10. Computes(kept, list, gone)
  BY <1>6, <1>8, <1>9 DEF Computes
<1> QED BY <1>10

\* One entry more.
LEMMA AppendRange ==
    ASSUME NEW S, NEW s \in Seq(S), NEW e \in S
    PROVE  /\ Append(s, e) \in Seq(S) /\ Len(Append(s, e)) = Len(s) + 1
           /\ Range(Append(s, e)) = Range(s) \cup {e}
           /\ IsInjective(s) /\ e \notin Range(s) => IsInjective(Append(s, e))
<1> DEFINE r == Append(s, e)
<1>1. /\ r \in Seq(S) /\ Len(r) = Len(s) + 1 /\ Len(s) \in Nat
      /\ \A i \in 1..Len(s) : r[i] = s[i] /\ r[Len(s) + 1] = e
      /\ DOMAIN s = 1..Len(s) /\ DOMAIN r = 1..(Len(s) + 1)
  BY AppendProperties, LenProperties
<1>2. r[Len(s) + 1] = e
  BY AppendProperties
<1> HIDE DEF r
<1>3. Range(r) = Range(s) \cup {e}
  BY <1>1, <1>2 DEF Range
<1>4. IsInjective(s) /\ e \notin Range(s) => IsInjective(r)
  BY <1>1, <1>2 DEF Range, IsInjective
<1> QED BY <1>1, <1>3, <1>4 DEF r

\* What is left of a list: the entries that are not gone, none of them twice.
LEMMA WithoutFacts ==
    ASSUME NEW S, NEW list \in Seq(S), NEW gone
    PROVE  /\ Without(list, gone) \in Seq(S)
           /\ Len(Without(list, gone)) <= Len(list)
           /\ Range(Without(list, gone)) = Range(list) \ gone
           /\ IsInjective(list) => IsInjective(Without(list, gone))
<1>0. PICK f : Computes(f, list, gone)
  BY WithoutSteps
<1>1. /\ f[0] = <<>> /\ Without(list, gone) = f[Len(list)]
      /\ \A n \in Nat : n + 1 <= Len(list) =>
            f[n + 1] = IF list[n + 1] \in gone THEN f[n] ELSE Append(f[n], list[n + 1])
  BY <1>0 DEF Computes
<1>2. Len(list) \in Nat /\ DOMAIN list = 1..Len(list) /\ \A i \in 1..Len(list) : list[i] \in S
  BY LenProperties, ElementOfSeq
<1> DEFINE first(n) == {list[i] : i \in 1..n} \ gone
           fine(n) == /\ f[n] \in Seq(S) /\ Len(f[n]) <= n /\ Range(f[n]) = first(n)
                      /\ IsInjective(list) => IsInjective(f[n])
           T == {n \in Nat : n <= Len(list) => fine(n)}
<1>3. 0 \in T
  <2>1. f[0] = <<>>
    BY <1>1
  <2>2. <<>> \in Seq(S) /\ Len(<<>>) = 0 /\ Range(<<>>) = {} /\ IsInjective(<<>>)
    BY EmptySeq DEF Range, IsInjective
  <2>3. first(0) = {}
    OBVIOUS
  <2> HIDE DEF first
  <2>4. f[0] \in Seq(S) /\ Len(f[0]) = 0 /\ Range(f[0]) = first(0)
    BY <2>1, <2>2, <2>3, Zenon
  <2>5. IsInjective(f[0])
    BY <2>1, <2>2, Zenon
  <2>6. fine(0)
    BY <2>4, <2>5
  <2> HIDE DEF fine
  <2> QED BY <2>6
<1>4. ASSUME NEW n \in Nat, n \in T, n + 1 <= Len(list) PROVE fine(n + 1)
  <2>1. fine(n) /\ n + 1 \in 1..Len(list)
    BY <1>2, <1>4
  <2>2. f[n + 1] = IF list[n + 1] \in gone THEN f[n] ELSE Append(f[n], list[n + 1])
    BY <1>1, <1>4
  <2>3. {list[i] : i \in 1..(n + 1)} = {list[i] : i \in 1..n} \cup {list[n + 1]}
    OBVIOUS
  <2>4. CASE list[n + 1] \in gone
    BY <2>1, <2>2, <2>3, <2>4
  <2>5. CASE list[n + 1] \notin gone
    <3>1. first(n + 1) = first(n) \cup {list[n + 1]}
      BY <2>3, <2>5
    <3>2. IsInjective(list) => list[n + 1] \notin first(n)
      BY <1>2, <2>1 DEF IsInjective
    <3> HIDE DEF first
    <3>3. f[n + 1] = Append(f[n], list[n + 1]) /\ list[n + 1] \in S /\ Len(f[n]) \in Nat
      BY <1>2, <2>1, <2>2, <2>5, LenProperties
    <3> HIDE DEF T
    <3>4. f[n] \in Seq(S) /\ Len(f[n]) <= n /\ Range(f[n]) = first(n)
      BY <2>1
    <3>5. /\ f[n + 1] \in Seq(S) /\ Len(f[n + 1]) <= n + 1
          /\ Range(f[n + 1]) = first(n + 1)
      <4> DEFINE s == f[n]
                 e == list[n + 1]
      <4>1. s \in Seq(S) /\ e \in S /\ f[n + 1] = Append(s, e) /\ Range(s) = first(n)
        BY <3>3, <3>4
      <4> HIDE DEF s, e
      <4>2. /\ f[n + 1] \in Seq(S) /\ Len(f[n + 1]) = Len(s) + 1
            /\ Range(f[n + 1]) = first(n) \cup {e}
        BY <4>1, AppendRange
      <4> QED BY <3>1, <3>3, <3>4, <4>2 DEF s, e
    <3>6. IsInjective(list) => IsInjective(f[n + 1])
      <4>1. IsInjective(list) => IsInjective(f[n]) /\ list[n + 1] \notin Range(f[n])
        BY <2>1, <3>2, <3>4, Zenon
      <4> QED BY <3>3, <3>4, <4>1, AppendRange
    <3> QED BY <3>5, <3>6
  <2> QED BY <2>4, <2>5
<1> HIDE DEF fine
<1>5. Nat \subseteq T
  <2>1. \A n \in Nat : n \in T => n + 1 \in T
    BY <1>4
  <2> HIDE DEF T
  <2> QED BY <1>3, <2>1, Induction
<1>6. fine(Len(list))
  BY <1>2, <1>5
<1>7. first(Len(list)) = Range(list) \ gone
  BY <1>2 DEF Range
<1> QED BY <1>1, <1>6, <1>7 DEF fine

-----------------------------------------------------------------------------
(* Deliveries *)

IsOp(o) == o = Op(o.op, o.at, o.entries, o.welcome)

\* What a delivery does next depends on its result alone: it is judged, listed,
\* announced and welcomed as the last of what is left to do.
Shape(s) ==
    /\ \E S : s \in Seq(S)
    /\ \A i \in DOMAIN s : /\ IsOp(s[i])
                           /\ s[i].op \in {"judge", "faces", "entry", "welcome"} => i = Len(s)

Names(s, e) == \E i \in DOMAIN s : s[i].at = e

LEMMA EmptyShape == Shape(<<>>) /\ \A e : ~Names(<<>>, e)
<1>1. <<>> \in Seq({}) /\ DOMAIN <<>> = {}
  BY EmptySeq
<1> QED BY <1>1 DEF Shape, Names

LEMMA StackFacts ==
    ASSUME NEW s, Shape(s)
    PROVE  /\ Len(s) \in Nat /\ DOMAIN s = 1..Len(s)
           /\ s # <<>> => Len(s) >= 1 /\ Head(s) = s[1] /\ 1 \in DOMAIN s
<1>1. PICK S : s \in Seq(S)
  BY DEF Shape
<1>2. Len(s) \in Nat /\ DOMAIN s = 1..Len(s) /\ (s # <<>> => Len(s) >= 1 /\ Head(s) = s[1])
  BY <1>1, LenProperties, EmptySeq, HeadTailProperties
<1> QED BY <1>2

\* What is done is gone; what it said about an entry, too.
LEMMA TailShape ==
    ASSUME NEW s, Shape(s), s # <<>>
    PROVE  Shape(Tail(s)) /\ \A e : Names(Tail(s), e) => Names(s, e)
<1>1. PICK S : s \in Seq(S)
  BY DEF Shape
<1>2. /\ Tail(s) \in Seq(S) /\ Len(Tail(s)) = Len(s) - 1
      /\ \A i \in 1..(Len(s) - 1) : Tail(s)[i] = s[i + 1]
  BY <1>1, HeadTailProperties
<1>3. /\ Len(s) \in Nat /\ DOMAIN s = 1..Len(s) /\ Len(s) >= 1
      /\ DOMAIN Tail(s) = 1..(Len(s) - 1)
  BY <1>1, <1>2, StackFacts, LenProperties
<1>4. \A i \in DOMAIN Tail(s) : i + 1 \in DOMAIN s /\ (i + 1 = Len(s) => i = Len(Tail(s)))
  BY <1>2, <1>3
<1> QED BY <1>2, <1>3, <1>4 DEF Shape, Names

\* What comes last leaves nothing.
LEMMA LastTail ==
    ASSUME NEW s, Shape(s), s # <<>>, Head(s).op \in {"judge", "faces", "entry", "welcome"}
    PROVE  Tail(s) = <<>>
<1>1. PICK S : s \in Seq(S)
  BY DEF Shape
<1>2. Len(s) = 1
  BY StackFacts DEF Shape
<1>3. Tail(s) \in Seq(S) /\ Len(Tail(s)) = 0
  BY <1>1, <1>2, HeadTailProperties
<1> QED BY <1>3, EmptySeq

LEMMA OneShape ==
    ASSUME NEW o, IsOp(o)
    PROVE  Shape(<<o>>) /\ \A e : Names(<<o>>, e) => o.at = e
<1> DEFINE s == <<o>>
<1>1. s \in Seq({o}) /\ Len(s) = 1 /\ s[1] = o /\ \A i \in DOMAIN s : i = 1
  OBVIOUS
<1> HIDE DEF s
<1>2. Shape(s)
  BY <1>1 DEF Shape
<1>3. \A e : Names(s, e) => o.at = e
  BY <1>1 DEF Names
<1> QED BY <1>2, <1>3 DEF s

\* What two lists joined are.
LEMMA Joined ==
    ASSUME NEW S, NEW a \in Seq(S), NEW b \in Seq(S), NEW t \in Seq(S), Len(t) = Len(a) + Len(b),
           \A i \in 1..Len(a) : t[i] = a[i],
           \A i \in 1..Len(b) : t[Len(a) + i] = b[i]
    PROVE  a \o b = t
<1>1. Len(a) \in Nat /\ Len(b) \in Nat
  BY LenProperties
<1>2. /\ a \o b \in Seq(S) /\ Len(a \o b) = Len(a) + Len(b)
      /\ \A i \in 1..(Len(a) + Len(b)) : (a \o b)[i] = IF i <= Len(a) THEN a[i] ELSE b[i - Len(a)]
  BY ConcatProperties
<1>3. ASSUME NEW i \in 1..Len(a \o b) PROVE (a \o b)[i] = t[i]
  <2>1. CASE i <= Len(a)
    BY <1>1, <1>2, <2>1
  <2>2. CASE ~(i <= Len(a))
    <3>1. i - Len(a) \in 1..Len(b) /\ Len(a) + (i - Len(a)) = i
      BY <1>1, <1>2, <2>2
    <3>2. t[Len(a) + (i - Len(a))] = b[i - Len(a)]
      BY <3>1
    <3> QED BY <1>2, <2>2, <3>1, <3>2
  <2> QED BY <2>1, <2>2
<1> QED BY <1>2, <1>3, SeqEqual

LEMMA JoinedTuples ==
    ASSUME NEW s, NEW r, NEW n, NEW d, NEW m, NEW w
    PROVE  /\ <<s>> \o <<w>> = <<s, w>>
           /\ <<s>> \o <<r, n, d, m>> = <<s, r, n, d, m>>
           /\ <<s, r, n, d, m>> \o <<w>> = <<s, r, n, d, m, w>>
<1> DEFINE S == {s, r, n, d, m, w}
           one == <<s>>
           last == <<w>>
           two == <<s, w>>
           four == <<r, n, d, m>>
           five == <<s, r, n, d, m>>
           six == <<s, r, n, d, m, w>>
<1>1. /\ one \in Seq(S) /\ Len(one) = 1 /\ one[1] = s
      /\ last \in Seq(S) /\ Len(last) = 1 /\ last[1] = w
      /\ two \in Seq(S) /\ Len(two) = 2 /\ two[1] = s /\ two[2] = w
  OBVIOUS
<1>2. four \in Seq(S) /\ Len(four) = 4
      /\ four[1] = r /\ four[2] = n /\ four[3] = d /\ four[4] = m
  OBVIOUS
<1>3. /\ five \in Seq(S) /\ Len(five) = 5
      /\ five[1] = s /\ five[2] = r /\ five[3] = n /\ five[4] = d /\ five[5] = m
  OBVIOUS
<1>4. /\ six \in Seq(S) /\ Len(six) = 6
      /\ six[1] = s /\ six[2] = r /\ six[3] = n /\ six[4] = d /\ six[5] = m /\ six[6] = w
  OBVIOUS
<1> HIDE DEF S, one, last, two, four, five, six
<1>5. /\ \A i \in 1..1 : i = 1
      /\ \A i \in 1..4 : i \in {1, 2, 3, 4}
      /\ \A i \in 1..5 : i \in {1, 2, 3, 4, 5}
  OBVIOUS
<1>6. one \o last = two
  <2>1. /\ \A i \in 1..Len(one) : two[i] = one[i]
        /\ \A i \in 1..Len(last) : two[Len(one) + i] = last[i]
    BY <1>1, <1>5
  <2>2. Len(two) = Len(one) + Len(last)
    BY <1>1
  <2>3. one \in Seq(S) /\ last \in Seq(S) /\ two \in Seq(S)
    BY <1>1
  <2> QED BY <2>1, <2>2, <2>3, Joined
<1>7. one \o four = five
  <2>1. /\ \A i \in 1..Len(one) : five[i] = one[i]
        /\ \A i \in 1..Len(four) : five[Len(one) + i] = four[i]
    BY <1>1, <1>2, <1>3, <1>5
  <2>2. Len(five) = Len(one) + Len(four)
    BY <1>1, <1>2, <1>3
  <2>3. one \in Seq(S) /\ four \in Seq(S) /\ five \in Seq(S)
    BY <1>1, <1>2, <1>3
  <2> QED BY <2>1, <2>2, <2>3, Joined
<1>8. five \o last = six
  <2>1. /\ \A i \in 1..Len(five) : six[i] = five[i]
        /\ \A i \in 1..Len(last) : six[Len(five) + i] = last[i]
    BY <1>1, <1>3, <1>4, <1>5
  <2>2. Len(six) = Len(five) + Len(last)
    BY <1>1, <1>3, <1>4
  <2>3. five \in Seq(S) /\ last \in Seq(S) /\ six \in Seq(S)
    BY <1>1, <1>3, <1>4
  <2> QED BY <2>1, <2>2, <2>3, Joined
<1> QED BY <1>6, <1>7, <1>8 DEF one, last, two, four, five, six

\* What follows the announcement of an entry.
LEMMA AfterCases ==
    ASSUME NEW o
    PROVE  \E s, n, r, d, m, w :
             /\ s = SaveFor(o.at) /\ n = SaveFor("none")
             /\ r = [o EXCEPT !.op = "report"] /\ d = [o EXCEPT !.op = "drop"]
             /\ m = [o EXCEPT !.op = "mark"] /\ w = [o EXCEPT !.op = "welcome"]
             /\ After(o) \in {<<s>>, <<s, w>>, <<s, r, n, d, m>>, <<s, r, n, d, m, w>>}
<1> DEFINE s == SaveFor(o.at)
           n == SaveFor("none")
           r == [o EXCEPT !.op = "report"]
           d == [o EXCEPT !.op = "drop"]
           m == [o EXCEPT !.op = "mark"]
           w == [o EXCEPT !.op = "welcome"]
<1>1. After(o) = <<s>> \o (IF o.entries = {} THEN <<>> ELSE <<r, n, d, m>>)
                       \o (IF o.welcome THEN <<w>> ELSE <<>>)
  BY DEF After
<1> HIDE DEF s, n, r, d, m, w
<1>2. /\ <<s>> \o <<>> = <<s>> /\ <<s, r, n, d, m>> \o <<>> = <<s, r, n, d, m>>
      /\ <<s>> \o <<w>> = <<s, w>> /\ <<s>> \o <<r, n, d, m>> = <<s, r, n, d, m>>
      /\ <<s, r, n, d, m>> \o <<w>> = <<s, r, n, d, m, w>>
  BY JoinedTuples
<1>3. After(o) \in {<<s>>, <<s, w>>, <<s, r, n, d, m>>, <<s, r, n, d, m, w>>}
  <2>1. CASE o.entries = {} /\ o.welcome
    BY <1>1, <1>2, <2>1, Zenon
  <2>2. CASE o.entries = {} /\ ~o.welcome
    BY <1>1, <1>2, <2>2, Zenon
  <2>3. CASE o.entries # {} /\ o.welcome
    BY <1>1, <1>2, <2>3, Zenon
  <2>4. CASE o.entries # {} /\ ~o.welcome
    BY <1>1, <1>2, <2>4, Zenon
  <2> QED BY <2>1, <2>2, <2>3, <2>4
<1> QED BY <1>3 DEF s, n, r, d, m, w

LEMMA AfterShape ==
    ASSUME NEW o, IsOp(o)
    PROVE  Shape(After(o)) /\ \A e \in Entries : Names(After(o), e) => o.at = e
<1>1. PICK s, n, r, d, m, w :
             /\ s = SaveFor(o.at) /\ n = SaveFor("none")
             /\ r = [o EXCEPT !.op = "report"] /\ d = [o EXCEPT !.op = "drop"]
             /\ m = [o EXCEPT !.op = "mark"] /\ w = [o EXCEPT !.op = "welcome"]
             /\ After(o) \in {<<s>>, <<s, w>>, <<s, r, n, d, m>>, <<s, r, n, d, m, w>>}
  BY AfterCases
<1> DEFINE N == {"report", "drop", "mark", "save"}
<1>2. /\ IsOp(s) /\ s.op = "save" /\ s.at = o.at
      /\ IsOp(n) /\ n.op = "save" /\ n.at = "none"
  BY <1>1 DEF IsOp, Op, SaveFor
<1>3. /\ IsOp(r) /\ r.op = "report" /\ r.at = o.at
      /\ IsOp(d) /\ d.op = "drop" /\ d.at = o.at
      /\ IsOp(m) /\ m.op = "mark" /\ m.at = o.at
      /\ IsOp(w) /\ w.op = "welcome" /\ w.at = o.at
  BY <1>1 DEF IsOp, Op
<1>4. ASSUME NEW t \in {<<s>>, <<s, w>>, <<s, r, n, d, m>>, <<s, r, n, d, m, w>>}
      PROVE  /\ t \in Seq({s, n, r, d, m, w}) /\ DOMAIN t = 1..Len(t)
             /\ \A i \in DOMAIN t : t[i] \in {s, n, r, d, m} \/ (t[i] = w /\ i = Len(t))
  <2>1. CASE t = <<s>>
    BY <2>1
  <2>2. CASE t = <<s, w>>
    BY <2>2
  <2>3. CASE t = <<s, r, n, d, m>>
    BY <2>3
  <2>4. CASE t = <<s, r, n, d, m, w>>
    BY <2>4
  <2> QED BY <1>4, <2>1, <2>2, <2>3, <2>4
<1>5. ASSUME NEW t \in {<<s>>, <<s, w>>, <<s, r, n, d, m>>, <<s, r, n, d, m, w>>}
      PROVE  Shape(t) /\ \A e \in Entries : Names(t, e) => o.at = e
  <2>1. \A i \in DOMAIN t : /\ IsOp(t[i]) /\ t[i].at \in {o.at, "none"}
                            /\ t[i].op \in {"judge", "faces", "entry", "welcome"} => i = Len(t)
    BY <1>2, <1>3, <1>4
  <2> QED BY <1>4, <2>1, LimitAssumption DEF Shape, Names
<1> QED BY <1>1, <1>5

-----------------------------------------------------------------------------
(* One claim for each entry *)

Claimed(e) == pendingAt = e \/ \E m \in Timers : Names(todo[m], e)

Once(e) ==
    /\ welcomes[e] \in 0..1
    /\ welcomes[e] = 1 \/ Claimed(e) => e \in used
    /\ Claimed(e) => welcomes[e] = 0
    /\ \A m \in Timers : Names(todo[m], e) =>
            pendingAt # e /\ \A n \in Timers : Names(todo[n], e) => m = n

IInv ==
    /\ todo = [m \in Timers |-> todo[m]] /\ \A m \in Timers : Shape(todo[m])
    /\ welcomes \in [Entries -> Nat]
    /\ \A e \in Entries : Once(e)

LEMMA InitIInv == Init => IInv
<1> SUFFICES ASSUME Init PROVE IInv
  OBVIOUS
<1>1. todo = [m \in Timers |-> todo[m]] /\ \A m \in Timers : todo[m] = <<>>
  BY DEF Init
<1>2. /\ \A m \in Timers : Shape(todo[m])
      /\ \A m \in Timers : \A e \in Entries : ~Names(todo[m], e)
  BY <1>1, EmptyShape
<1>3. welcomes \in [Entries -> Nat] /\ \A e \in Entries : welcomes[e] = 0 /\ pendingAt # e
  BY LimitAssumption DEF Init
<1> QED BY <1>1, <1>2, <1>3 DEF IInv, Once, Claimed

\* A step that claims nothing new keeps the claims in order.
LEMMA ClaimsShrink ==
    ASSUME IInv,
           todo' = [m \in Timers |-> todo'[m]], \A m \in Timers : Shape(todo'[m]),
           \A m \in Timers : \A e \in Entries : Names(todo'[m], e) => Names(todo[m], e),
           pendingAt' \in {pendingAt, "none"}, used \subseteq used', welcomes' = welcomes
    PROVE  IInv'
<1>1. ASSUME NEW e \in Entries PROVE Once(e)'
  <2>1. Once(e) /\ (pendingAt' = e => pendingAt = e)
    BY LimitAssumption DEF IInv
  <2> QED BY <2>1 DEF Once, Claimed
<1> QED BY <1>1 DEF IInv

\* A delivery that goes on with ops.
LEMMA Continued ==
    ASSUME IInv, NEW m \in Timers, todo[m] # <<>>, NEW ops, Continue(m, ops)
    PROVE  /\ todo' = [n \in Timers |-> todo'[n]]
           /\ \A n \in Timers : n # m => todo'[n] = todo[n]
           /\ todo'[m] = ops \o Tail(todo[m])
BY DEF IInv, Continue

\* A delivery that has done something and calls nothing.
LEMMA Done ==
    ASSUME IInv, NEW m \in Timers, todo[m] # <<>>, Continue(m, <<>>)
    PROVE  /\ todo' = [n \in Timers |-> todo'[n]] /\ \A n \in Timers : Shape(todo'[n])
           /\ \A n \in Timers : n # m => todo'[n] = todo[n]
           /\ todo'[m] = Tail(todo[m])
           /\ \A n \in Timers : \A e \in Entries : Names(todo'[n], e) => Names(todo[n], e)
<1>1. PICK S : Tail(todo[m]) \in Seq(S)
  BY TailShape DEF IInv, Shape
<1>2. <<>> \o Tail(todo[m]) = Tail(todo[m])
  BY <1>1
<1>3. /\ todo' = [n \in Timers |-> todo'[n]]
      /\ \A n \in Timers : n # m => todo'[n] = todo[n]
      /\ todo'[m] = Tail(todo[m])
  BY <1>2, Continued
<1>4. /\ \A n \in Timers : Shape(todo[n])
      /\ Shape(Tail(todo[m])) /\ \A e : Names(Tail(todo[m]), e) => Names(todo[m], e)
  BY TailShape DEF IInv
<1>5. /\ \A n \in Timers : Shape(todo'[n])
      /\ \A n \in Timers : \A e \in Entries : Names(todo'[n], e) => Names(todo[n], e)
  BY <1>3, <1>4
<1> QED BY <1>3, <1>5

\* The last thing of a delivery, and what it is followed by.
LEMMA LastDone ==
    ASSUME IInv, NEW m \in Timers, todo[m] # <<>>,
           Head(todo[m]).op \in {"judge", "faces", "entry", "welcome"},
           NEW ops, Shape(ops), Continue(m, ops)
    PROVE  /\ todo' = [n \in Timers |-> todo'[n]] /\ \A n \in Timers : Shape(todo'[n])
           /\ \A n \in Timers : n # m => todo'[n] = todo[n]
           /\ todo'[m] = ops
<1>1. PICK S : ops \in Seq(S)
  BY DEF Shape
<1>2. Tail(todo[m]) = <<>>
  BY LastTail DEF IInv
<1>3. ops \o <<>> = ops
  BY <1>1
<1> QED BY <1>2, <1>3, Continued DEF IInv

\* What is next names its entry.
LEMMA HeadNamed ==
    ASSUME IInv, NEW m \in Timers, todo[m] # <<>>
    PROVE  IsOp(Head(todo[m])) /\ Names(todo[m], Head(todo[m]).at)
BY StackFacts DEF IInv, Shape, Names

-----------------------------------------------------------------------------
(* Steps *)

LEMMA PollKeeps == ASSUME IInv, Poll PROVE IInv'
<1>1. CASE PendAt
  <2>1. PICK e \in Now : pendingAt' = e /\ used' = used \cup {e}
    BY <1>1 DEF PendAt
  <2>2. UNCHANGED <<todo, welcomes>>
    BY <1>1 DEF PendAt, toldVars
  <2>3. Once(e) /\ e \in Entries /\ e \notin used
    BY <2>1 DEF IInv, Now
  <2>4. ASSUME NEW d \in Entries PROVE Once(d)'
    BY <2>1, <2>2, <2>3 DEF IInv, Once, Claimed
  <2> QED BY <2>2, <2>4 DEF IInv
<1>2. CASE RoomLeft \/ Enters \/ CancelOld \/ PendWelcome \/ MakeTimer \/ StartTimer
  <2>1. UNCHANGED <<todo, pendingAt, used, welcomes>>
    BY <1>2 DEF RoomLeft, Enters, CancelOld, PendWelcome, MakeTimer, StartTimer, pendingVars,
       ghostVars, toldVars
  <2> QED BY <2>1 DEF IInv, Once, Claimed
<1> QED BY <1>1, <1>2 DEF Poll

LEMMA FiresKeeps == ASSUME IInv, NEW m \in Timers, Fires(m) PROVE IInv'
<1> DEFINE s == <<Op("forget", "none", {}, FALSE), Op("judge", "none", {}, FALSE)>>
<1>1. /\ todo' = [todo EXCEPT ![m] = s]
      /\ UNCHANGED <<pendingAt, used, welcomes>>
  BY DEF Fires, ghostVars, toldVars
<1>2. IsOp(Op("forget", "none", {}, FALSE)) /\ IsOp(Op("judge", "none", {}, FALSE))
  BY DEF IsOp, Op
<1>3. /\ s \in Seq({s[1], s[2]}) /\ Len(s) = 2
      /\ \A i \in DOMAIN s : i = 1 \/ i = 2
      /\ s[1].op = "forget" /\ s[1].at = "none" /\ s[2].op = "judge" /\ s[2].at = "none"
  BY DEF Op
<1>4. IsOp(s[1]) /\ IsOp(s[2])
  BY <1>2
<1> HIDE DEF s
<1>5. Shape(s)
  BY <1>3, <1>4 DEF Shape
<1>6. \A e \in Entries : ~Names(s, e)
  BY <1>3, LimitAssumption DEF Names
<1> QED BY <1>1, <1>5, <1>6, ClaimsShrink DEF IInv

LEMMA JudgeKeeps == ASSUME IInv, NEW m \in Timers, Judge(m) PROVE IInv'
<1>1. todo[m] # <<>> /\ Head(todo[m]).op = "judge" /\ welcomes' = welcomes /\ pendingAt' = "none"
  BY DEF Judge, At, TakesPending, toldVars
<1>a. PICK e \in Entries :
        /\ EntryAt(e) /\ used' = used \cup {e}
        /\ \E o : IsOp(o) /\ o.at = e /\ Continue(m, <<o>>)
  <2>1. PICK e \in Entries, class \in Classes :
            /\ EntryAt(e) /\ used' = used \cup {e}
            /\ \/ Continue(m, <<Op("faces", e, Range(unreported), pendingWelcome)>>)
               \/ Continue(m, <<Op("entry", e, {}, pendingWelcome
                                     /\ class \in {"unknown_visitor", "known_person"})>>)
    BY DEF Judge
  <2>2. \A name, entries, welcome : /\ IsOp(Op(name, e, entries, welcome))
                                    /\ Op(name, e, entries, welcome).at = e
    BY DEF IsOp, Op
  <2> QED BY <2>1, <2>2
<1>b. PICK o : IsOp(o) /\ o.at = e /\ Continue(m, <<o>>)
  BY <1>a
<1>2. EntryAt(e) /\ used' = used \cup {e} /\ IsOp(o) /\ o.at = e /\ Continue(m, <<o>>)
  BY <1>a, <1>b
<1>3. /\ todo' = [n \in Timers |-> todo'[n]] /\ \A n \in Timers : Shape(todo'[n])
      /\ \A n \in Timers : n # m => todo'[n] = todo[n]
      /\ todo'[m] = <<o>>
  BY <1>1, <1>2, LastDone, OneShape
<1>4. \A d \in Entries : Names(todo'[m], d) => d = e
  BY <1>2, <1>3, OneShape
<1>5. /\ welcomes[e] = 0 /\ \A n \in Timers : ~Names(todo[n], e)
  <2>1. Once(e)
    BY DEF IInv
  <2>2. e \notin used \/ pendingAt = e
    BY <1>2 DEF EntryAt, Now
  <2> QED BY <2>1, <2>2 DEF Once, Claimed
<1>6. ASSUME NEW d \in Entries PROVE Once(d)'
  <2>1. Once(d) /\ pendingAt' # d
    BY <1>1, LimitAssumption DEF IInv
  <2>2. CASE d = e
    BY <1>1, <1>2, <1>3, <1>5, <2>1, <2>2 DEF Once, Claimed
  <2>3. CASE d # e
    BY <1>1, <1>2, <1>3, <1>4, <2>1, <2>3 DEF Once, Claimed
  <2> QED BY <2>2, <2>3
<1> QED BY <1>1, <1>3, <1>6 DEF IInv

\* The delivery goes on with what belongs to the same entry.
LEMMA SameEntryKeeps ==
    ASSUME IInv, NEW m \in Timers, AddFaces(m) \/ EmitEntry(m)
    PROVE  IInv'
<1> DEFINE o == Head(todo[m])
<1>1. /\ todo[m] # <<>> /\ o.op \in {"faces", "entry"}
      /\ UNCHANGED <<pendingAt, used, welcomes>>
  BY DEF AddFaces, EmitEntry, At, pendingVars, ghostVars, toldVars
<1>2. IsOp(o) /\ Names(todo[m], o.at)
  BY <1>1, HeadNamed
<1>3. PICK ops : Continue(m, ops) /\ Shape(ops) /\ \A e \in Entries : Names(ops, e) => o.at = e
  <2>1. CASE AddFaces(m)
    <3> DEFINE x == Op("entry", o.at, o.entries \cup Range(faces), o.welcome)
    <3>1. Continue(m, <<x>>)
      BY <2>1 DEF AddFaces
    <3>2. IsOp(x) /\ x.at = o.at
      BY DEF IsOp, Op
    <3> QED BY <3>1, <3>2, OneShape
  <2>2. CASE EmitEntry(m)
    BY <1>2, <2>2, AfterShape DEF EmitEntry
  <2> QED BY <2>1, <2>2
<1>4. /\ todo' = [n \in Timers |-> todo'[n]] /\ \A n \in Timers : Shape(todo'[n])
      /\ \A n \in Timers : n # m => todo'[n] = todo[n]
      /\ todo'[m] = ops
  BY <1>1, <1>3, LastDone
<1>5. \A n \in Timers : \A e \in Entries : Names(todo'[n], e) => Names(todo[n], e)
  BY <1>2, <1>3, <1>4
<1> QED BY <1>1, <1>4, <1>5, ClaimsShrink

\* The welcome is the last thing a delivery does but for its save: its claim ends
\* with it.
LEMMA WelcomeKeeps == ASSUME IInv, NEW m \in Timers, EmitWelcome(m) PROVE IInv'
<1> DEFINE o == Head(todo[m])
           x == SaveFor("none")
<1>1. /\ todo[m] # <<>> /\ o.op = "welcome" /\ Continue(m, <<x>>)
      /\ UNCHANGED <<pendingAt, used>>
      /\ welcomes' = [welcomes EXCEPT ![o.at] = @ + 1]
  BY DEF EmitWelcome, At, pendingVars
<1>2. Names(todo[m], o.at)
  BY <1>1, HeadNamed
<1>0. IsOp(x) /\ x.at = "none"
  BY DEF SaveFor, IsOp, Op
<1> HIDE DEF x
<1>3. /\ todo' = [n \in Timers |-> todo'[n]] /\ \A n \in Timers : Shape(todo'[n])
      /\ \A n \in Timers : n # m => todo'[n] = todo[n]
      /\ todo'[m] = <<x>>
  BY <1>0, <1>1, OneShape, LastDone
<1>4. \A e \in Entries : ~Names(todo'[m], e)
  BY <1>0, <1>3, OneShape, LimitAssumption
<1>5. welcomes' \in [Entries -> Nat]
  <2>1. welcomes \in [Entries -> Nat]
    BY DEF IInv
  <2>2. CASE o.at \in Entries
    <3>1. welcomes[o.at] + 1 \in Nat
      BY <2>1, <2>2
    <3> QED BY <1>1, <2>1, <3>1
  <2>3. CASE o.at \notin Entries
    <3>1. welcomes' = welcomes
      BY <1>1, <2>1, <2>3
    <3> QED BY <2>1, <3>1
  <2> QED BY <2>2, <2>3
<1>6. ASSUME NEW e \in Entries PROVE Once(e)'
  <2>1. Once(e) /\ welcomes[e] \in Nat
    BY DEF IInv
  <2>2. CASE e = o.at
    <3>1. welcomes[e] = 0 /\ welcomes'[e] = 1 /\ e \in used /\ ~Claimed(e)'
      <4>1. welcomes[e] = 0 /\ e \in used /\ pendingAt # e
        BY <1>2, <2>1, <2>2 DEF Once, Claimed
      <4>2. \A n \in Timers : ~Names(todo'[n], e)
        BY <1>2, <1>3, <1>4, <2>1, <2>2 DEF Once
      <4>3. welcomes'[e] = 1
        BY <1>1, <2>2, <4>1 DEF IInv
      <4> QED BY <1>1, <4>1, <4>2, <4>3 DEF Claimed
    <3> QED BY <1>1, <3>1 DEF Once, Claimed
  <2>3. CASE e # o.at
    <3>1. welcomes'[e] = welcomes[e]
      BY <1>1, <2>3 DEF IInv
    <3> QED BY <1>1, <1>3, <1>4, <2>1, <3>1 DEF Once, Claimed
  <2> QED BY <2>2, <2>3
<1> QED BY <1>3, <1>5, <1>6 DEF IInv

LEMMA RestKeeps ==
    ASSUME IInv, NEW m \in Timers,
           \/ ForgetTimer(m) \/ NobodyThere(m) \/ NotAnArrival(m)
           \/ SaveEvent(m) \/ EmitReport(m) \/ DropReported(m) \/ MarkFaces(m)
    PROVE  IInv'
<1>1. /\ todo[m] # <<>> /\ Continue(m, <<>>)
      /\ pendingAt' \in {pendingAt, "none"} /\ used' = used /\ welcomes' = welcomes
  BY DEF ForgetTimer, NobodyThere, NotAnArrival, SaveEvent, EmitReport, DropReported, MarkFaces,
     Saving, At, TakesPending, pendingVars, ghostVars, toldVars
<1> QED BY <1>1, Done, ClaimsShrink

LEMMA WorldKeeps ==
    ASSUME IInv, Sees \/ Review \/ OtherSave \/ TimePasses \/ Crash \/ UNCHANGED vars
    PROVE  IInv'
<1>1. CASE Crash
  <2>1. /\ todo' = [m \in Timers |-> <<>>] /\ pendingAt' = "none"
        /\ UNCHANGED <<used, welcomes>>
    BY <1>1 DEF Crash
  <2>2. /\ todo' = [m \in Timers |-> todo'[m]] /\ \A m \in Timers : todo'[m] = <<>>
    BY <2>1
  <2> QED BY <2>1, <2>2, EmptyShape, ClaimsShrink
<1>2. CASE Sees \/ Review \/ OtherSave \/ TimePasses \/ UNCHANGED vars
  <2>1. UNCHANGED <<todo, pendingAt, welcomes>> /\ used \subseteq used'
    BY <1>2 DEF Sees, Retract, UnknownFace, NameArrivals, EmitGreeting, SaveGreeting, Review,
       OtherSave, TimePasses, vars, pendingVars, ghostVars, toldVars
  <2> QED BY <2>1, ClaimsShrink DEF IInv
<1> QED BY <1>1, <1>2

LEMMA StepKeeps == IInv /\ [Next]_vars => IInv'
<1> SUFFICES ASSUME IInv, [Next]_vars PROVE IInv'
  OBVIOUS
<1> QED BY PollKeeps, FiresKeeps, JudgeKeeps, SameEntryKeeps, WelcomeKeeps, RestKeeps, WorldKeeps
        DEF Next, Deliver

-----------------------------------------------------------------------------
(* The list of unreported entries *)

OpSet == [op : OpNames, at : Entries \cup {"none"},
          entries : SUBSET (Entries \cup Faces), welcome : BOOLEAN]

\* An entry that is listed, saved or announced is not to be taken again.
Known ==
    \A e \in Entries :
        e \in Range(unreported) \cup Range(saved) \cup announced => e \in used /\ pendingAt # e

\* The event of this entry has been emitted, and is not saved yet.
Publishing(e) == \E m \in Timers : Saving(m) /\ Head(todo[m]).at = e

\* What was announced is on disk, or about to be, for as long as it is on the list.
OnDisk == \A e \in announced : e \in Range(unreported) => e \in Range(saved) \/ Publishing(e)

\* The camera names an entry that nobody has named, and welcomes whom it has named
\* once.
NamedOnce ==
    /\ who \in [Entries -> {"nobody", "delivery", "camera"}]
    /\ \A e \in Entries :
        /\ who[e] # "nobody" => e \in used /\ pendingAt # e
        /\ greetings[e] \in 0..1
        /\ greetings[e] = 1 \/ e \in camera.entries => who[e] = "camera"
        /\ e \in camera.entries => greetings[e] = 0

\* From the judgement on a delivery is about an entry; and it neither drops nor
\* marks what no report has named, or will have by then.
Told(s, told) ==
    \A i \in DOMAIN s :
        /\ s[i].op \notin {"forget", "judge", "save"} => s[i].at \in Entries
        /\ s[i].op \in {"drop", "mark"} =>
            \/ s[i].entries \subseteq told
            \/ \E j \in 1..(i - 1) : s[j].op = "report" /\ s[j].entries = s[i].entries

ListInv == TypeOK /\ Known /\ OnDisk /\ NamedOnce /\ \A m \in Timers : Told(todo[m], reported)

\* One more at the end: the oldest goes, and only if there are as many as may be.
LEMMA AppendLastFacts ==
    ASSUME NEW S, NEW list \in Seq(S), NEW limit \in Nat \ {0}, Len(list) <= limit, NEW x \in S
    PROVE  LET last == AppendLast(list, x, limit)
           IN /\ last \in Seq(S) /\ Len(last) <= limit
              /\ IsInjective(list) /\ x \notin Range(list) => IsInjective(last)
              /\ Range(last) \subseteq Range(list) \cup {x}
              /\ \A y \in Range(list) \ Range(last) :
                    y = Head(list) /\ Len(list) = limit /\ Len(last) = limit
<1> DEFINE all == Append(list, x)
           from == IF Len(all) > limit THEN Len(all) - limit + 1 ELSE 1
           last == SubSeq(all, from, Len(all))
<1>1. /\ all \in Seq(S) /\ Len(all) = Len(list) + 1 /\ Len(list) \in Nat
      /\ Range(all) = Range(list) \cup {x}
      /\ IsInjective(list) /\ x \notin Range(list) => IsInjective(all)
      /\ \A i \in 1..Len(list) : all[i] = list[i]
  BY AppendRange, AppendProperties, LenProperties
<1>2. AppendLast(list, x, limit) = last
  BY DEF AppendLast
<1> HIDE DEF all
<1>3. /\ DOMAIN all = 1..Len(all) /\ from \in 1..Len(all) /\ Len(all) \in Nat
      /\ Len(all) - from + 1 <= limit
      /\ from \in {1, 2} /\ (from = 2 => Len(list) = limit /\ Len(all) - from + 1 = limit)
  BY <1>1, LenProperties
<1> HIDE DEF from
<1>4. \A i \in from..Len(all) : all[i] \in S
  BY <1>1, <1>3, ElementOfSeq
<1>5. /\ last \in Seq(S) /\ Len(last) = Len(all) - from + 1
      /\ \A i \in 1..(Len(all) - from + 1) : last[i] = all[from + i - 1]
  BY <1>3, <1>4, SubSeqProperties
<1>6. DOMAIN last = 1..(Len(all) - from + 1)
  BY <1>5, LenProperties
<1> HIDE DEF last
<1>a. ASSUME NEW i \in DOMAIN last
      PROVE  i \in Int /\ from + i - 1 \in DOMAIN all /\ last[i] = all[from + i - 1]
  <2>1. i \in 1..(Len(all) - from + 1)
    BY <1>6
  <2>2. i \in Int /\ from + i - 1 \in 1..Len(all)
    BY <1>3, <2>1
  <2> QED BY <1>3, <1>5, <2>1, <2>2
<1>7. ASSUME IsInjective(all) PROVE IsInjective(last)
  <2>1. ASSUME NEW i \in DOMAIN last, NEW j \in DOMAIN last, last[i] = last[j] PROVE i = j
    <3>1. from + i - 1 = from + j - 1
      BY <1>7, <1>a, <2>1 DEF IsInjective
    <3> QED BY <1>3, <1>a, <3>1
  <2> QED BY <2>1 DEF IsInjective
<1>8. Range(last) \subseteq Range(all)
  BY <1>a DEF Range
<1>9. ASSUME NEW y \in Range(list) \ Range(last)
      PROVE  y = Head(list) /\ Len(list) = limit /\ Len(last) = limit
  <2>1. PICK i \in 1..Len(list) : y = list[i]
    BY <1>9, LenProperties DEF Range
  <2>2. y = all[i] /\ i \in Nat /\ i >= 1 /\ Len(list) >= 1
    BY <1>1, <2>1
  <2>3. i < from
    <3>1. SUFFICES ASSUME from <= i PROVE FALSE
      BY <1>3, <2>2
    <3> DEFINE k == i - from + 1
    <3>2. k \in 1..(Len(all) - from + 1) /\ from + k - 1 = i
      BY <1>1, <1>3, <2>1, <3>1
    <3> HIDE DEF k
    <3>3. last[k] = y /\ k \in DOMAIN last
      BY <1>5, <1>6, <2>2, <3>2
    <3> QED BY <1>9, <3>3 DEF Range
  <2>4. from = 2 /\ i = 1
    BY <1>3, <2>2, <2>3
  <2>5. list # <<>>
    BY <2>2, EmptySeq
  <2>6. Head(list) = list[1]
    BY <2>5, HeadTailProperties
  <2> QED BY <1>3, <1>5, <2>1, <2>4, <2>6
<1> QED BY <1>1, <1>2, <1>3, <1>5, <1>7, <1>8, <1>9

LEMMA EmptyTold == \A told : Told(<<>>, told)
BY EmptySeq DEF Told

\* What is done next has been told; and the rest stays told.
LEMMA HeadTold ==
    ASSUME NEW S, NEW s \in Seq(S), s # <<>>, NEW told, Told(s, told)
    PROVE  /\ Head(s).op \notin {"forget", "judge", "save"} => Head(s).at \in Entries
           /\ Head(s).op \in {"drop", "mark"} => Head(s).entries \subseteq told
BY HeadTailProperties, LenProperties, EmptySeq DEF Told

LEMMA HeadAt ==
    ASSUME ListInv, NEW m \in Timers, todo[m] # <<>>
    PROVE  /\ Head(todo[m]) \in OpSet
           /\ Head(todo[m]).op \notin {"forget", "judge", "save"} => Head(todo[m]).at \in Entries
           /\ Head(todo[m]).op \in {"drop", "mark"} => Head(todo[m]).entries \subseteq reported
<1> DEFINE s == todo[m]
<1>1. s \in Seq(OpSet) /\ Told(s, reported) /\ s # <<>>
  BY DEF ListInv, TypeOK, OpSet
<1> HIDE DEF s
<1>2. Head(s) \in OpSet
  BY <1>1, HeadTailProperties
<1> QED BY <1>1, <1>2, HeadTold DEF s

LEMMA TailTold ==
    ASSUME NEW S, NEW s \in Seq(S), s # <<>>, NEW told, NEW more, Told(s, told),
           told \subseteq more, Head(s).op = "report" => Head(s).entries \subseteq more
    PROVE  Told(Tail(s), more)
<1>1. /\ Len(s) \in Nat /\ Len(s) >= 1 /\ DOMAIN s = 1..Len(s) /\ Head(s) = s[1]
      /\ DOMAIN Tail(s) = 1..(Len(s) - 1)
      /\ \A i \in 1..(Len(s) - 1) : Tail(s)[i] = s[i + 1]
  BY HeadTailProperties, LenProperties, EmptySeq
<1>2. ASSUME NEW i \in DOMAIN Tail(s), Tail(s)[i].op \in {"drop", "mark"}
      PROVE  \/ Tail(s)[i].entries \subseteq more
             \/ \E j \in 1..(i - 1) : /\ Tail(s)[j].op = "report"
                                      /\ Tail(s)[j].entries = Tail(s)[i].entries
  <2>1. i \in 1..(Len(s) - 1) /\ i + 1 \in DOMAIN s /\ Tail(s)[i] = s[i + 1]
    BY <1>1
  <2>2. CASE s[i + 1].entries \subseteq told
    BY <2>1, <2>2
  <2>3. CASE \E j \in 1..i : s[j].op = "report" /\ s[j].entries = s[i + 1].entries
    <3>1. PICK j \in 1..i : s[j].op = "report" /\ s[j].entries = s[i + 1].entries
      BY <2>3
    <3>2. CASE j = 1
      BY <1>1, <2>1, <3>1, <3>2
    <3>3. CASE j # 1
      <4>1. j - 1 \in 1..(i - 1) /\ Tail(s)[j - 1] = s[j]
        BY <1>1, <2>1, <3>3
      <4> QED BY <2>1, <3>1, <4>1
    <3> QED BY <3>2, <3>3
  <2>4. (i + 1) - 1 = i
    BY <2>1
  <2> QED BY <1>2, <2>1, <2>2, <2>3, <2>4 DEF Told
<1>3. \A i \in DOMAIN Tail(s) :
        Tail(s)[i].op \notin {"forget", "judge", "save"} => Tail(s)[i].at \in Entries
  BY <1>1 DEF Told
<1> QED BY <1>2, <1>3 DEF Told

LEMMA OneTold ==
    ASSUME NEW o, o.op \notin {"drop", "mark"}, o.op \notin {"forget", "judge", "save"} => o.at \in Entries
    PROVE  \A told : Told(<<o>>, told)
<1> DEFINE s == <<o>>
<1>1. \A i \in DOMAIN s : s[i] = o
  OBVIOUS
<1> QED BY <1>1 DEF Told

\* A delivery tells before it drops or marks; and it saves its announcement first.
LEMMA AfterTold ==
    ASSUME NEW o \in OpSet, o.at \in Entries
    PROVE  /\ After(o) \in Seq(OpSet) /\ \A told : Told(After(o), told)
           /\ After(o) # <<>> /\ Head(After(o)) = SaveFor(o.at)
<1>1. PICK s, n, r, d, m, w :
             /\ s = SaveFor(o.at) /\ n = SaveFor("none")
             /\ r = [o EXCEPT !.op = "report"] /\ d = [o EXCEPT !.op = "drop"]
             /\ m = [o EXCEPT !.op = "mark"] /\ w = [o EXCEPT !.op = "welcome"]
             /\ After(o) \in {<<s>>, <<s, w>>, <<s, r, n, d, m>>, <<s, r, n, d, m, w>>}
  BY AfterCases
<1>2. s \in OpSet /\ s.op = "save" /\ n \in OpSet /\ n.op = "save"
  BY <1>1 DEF SaveFor, Op, OpSet, OpNames
<1>3. /\ r \in OpSet /\ r.op = "report" /\ r.at = o.at /\ r.entries = o.entries
      /\ d \in OpSet /\ d.op = "drop" /\ d.at = o.at /\ d.entries = o.entries
      /\ m \in OpSet /\ m.op = "mark" /\ m.at = o.at /\ m.entries = o.entries
      /\ w \in OpSet /\ w.op = "welcome" /\ w.at = o.at
  BY <1>1 DEF OpSet, OpNames
<1>4. ASSUME NEW t \in {<<s>>, <<s, w>>, <<s, r, n, d, m>>, <<s, r, n, d, m, w>>}
      PROVE  /\ t \in Seq(OpSet) /\ t # <<>> /\ Head(t) = s
             /\ \A i \in DOMAIN t : /\ i \in Nat /\ t[i] \in {s, n, r, d, m, w}
                                    /\ i > 2 \/ t[i] \in {s, r, w}
                                    /\ i > 2 => t[2] = r
  <2>0. s \in OpSet /\ n \in OpSet /\ r \in OpSet /\ d \in OpSet /\ m \in OpSet /\ w \in OpSet
    BY <1>2, <1>3
  <2> HIDE DEF OpSet
  <2>1. CASE t = <<s>>
    BY <2>0, <2>1
  <2>2. CASE t = <<s, w>>
    BY <2>0, <2>2
  <2>3. CASE t = <<s, r, n, d, m>>
    BY <2>0, <2>3
  <2>4. CASE t = <<s, r, n, d, m, w>>
    BY <2>0, <2>4
  <2> QED BY <1>4, <2>1, <2>2, <2>3, <2>4
<1>5. ASSUME NEW t \in {<<s>>, <<s, w>>, <<s, r, n, d, m>>, <<s, r, n, d, m, w>>}, NEW told
      PROVE  Told(t, told)
  <2>1. ASSUME NEW i \in DOMAIN t, t[i].op \in {"drop", "mark"}
        PROVE  \E j \in 1..(i - 1) : t[j].op = "report" /\ t[j].entries = t[i].entries
    <3>1. t[i] \in {d, m} /\ i > 2 /\ i \in Nat /\ t[2] = r
      BY <1>2, <1>3, <1>4, <2>1
    <3>2. 2 \in 1..(i - 1)
      BY <3>1
    <3> QED BY <1>3, <3>1, <3>2
  <2>2. \A i \in DOMAIN t : t[i].op \notin {"forget", "judge", "save"} => t[i].at \in Entries
    BY <1>2, <1>3, <1>4
  <2> QED BY <2>1, <2>2 DEF Told
<1> QED BY <1>1, <1>4, <1>5

-----------------------------------------------------------------------------
(* Steps *)

LEMMA InitList == Init => ListInv
<1> SUFFICES ASSUME Init PROVE ListInv
  OBVIOUS
<1>1. <<>> \in Seq(OpSet) /\ <<>> \in Seq(Entries) /\ Len(<<>>) = 0 /\ DOMAIN <<>> = {}
      /\ <<>> \in Seq(PollNames) /\ <<>> \in Seq(Faces)
  BY EmptySeq
<1>2. Range(<<>>) = {} /\ IsInjective(<<>>)
  BY <1>1 DEF Range, IsInjective
<1>3. /\ \A list \in {unreported, saved} : /\ list \in Seq(Entries) /\ Len(list) <= Limit
                                            /\ IsInjective(list)
      /\ faces \in Seq(Faces) /\ Len(faces) <= MaxPending
  BY <1>1, <1>2, LimitAssumption DEF Init
<1>4. todo \in [Timers -> Seq(OpSet)] /\ \A m \in Timers : Told(todo[m], reported)
  BY <1>1, EmptyTold DEF Init
<1>5. /\ welcomes = [e \in Entries |-> 0] /\ greetings = [e \in Entries |-> 0]
      /\ crashes \in 0..Crashes
  BY LimitAssumption DEF Init
<1>6. /\ who = [e \in Entries |-> "nobody"] /\ camera = Idle
  BY DEF Init
<1>7. TypeOK
  <2>1. armed \subseteq Timers /\ timerRef \in Timers \cup {"none"} /\ polling \in Seq(PollNames)
    BY <1>1 DEF Init
  <2>2. {occupied, pendingWelcome} \subseteq BOOLEAN /\ pendingAt \in Entries \cup {"none"}
    BY DEF Init
  <2>3. camera \in [op : {"idle", "greet", "save"}, entries : SUBSET Entries]
    BY <1>6 DEF Idle
  <2>4. /\ young \subseteq Entries /\ used \subseteq Entries \cup Faces
        /\ announced \subseteq Entries /\ reported \subseteq Entries \cup Faces
        /\ who \in [Entries -> {"nobody", "delivery", "camera"}]
    BY <1>6 DEF Init
  <2>5. {welcomes, greetings} \subseteq [Entries -> Nat]
    BY <1>5
  <2> QED BY <1>3, <1>4, <1>5, <2>1, <2>2, <2>3, <2>4, <2>5 DEF TypeOK, OpSet
<1>8. Known /\ OnDisk
  BY <1>2 DEF Init, Known, OnDisk
<1>9. NamedOnce
  BY <1>5, <1>6 DEF NamedOnce, Idle
<1> QED BY <1>4, <1>7, <1>8, <1>9 DEF ListInv

\* The invariant of this section rests on that of the claims.
Both == IInv /\ ListInv

\* A delivery that goes on with ops, which are told already.
LEMMA Goes ==
    ASSUME Both, NEW m \in Timers, todo[m] # <<>>, NEW ops \in Seq(OpSet), Continue(m, ops),
           reported \subseteq reported',
           Head(todo[m]).op = "report" => Head(todo[m]).entries \subseteq reported',
           \/ ops = <<>>
           \/ Head(todo[m]).op \in {"judge", "faces", "entry", "welcome"} /\ Told(ops, reported)
    PROVE  /\ todo' \in [Timers -> Seq(OpSet)]
           /\ \A n \in Timers : Told(todo'[n], reported')
<1>1. /\ todo \in [Timers -> Seq(OpSet)]
      /\ \A n \in Timers : todo[n] \in Seq(OpSet) /\ Told(todo[n], reported)
  BY DEF Both, ListInv, TypeOK, OpSet
<1>2. todo' = [todo EXCEPT ![m] = ops \o Tail(todo[m])] /\ Tail(todo[m]) \in Seq(OpSet)
  BY <1>1, HeadTailProperties DEF Continue
<1>3. ops \o Tail(todo[m]) \in Seq(OpSet)
  BY <1>2, ConcatProperties
<1>4. todo' \in [Timers -> Seq(OpSet)]
  BY <1>1, <1>2, <1>3
<1>5. ASSUME NEW s, Told(s, reported) PROVE Told(s, reported')
  BY <1>5 DEF Told
<1>6. Told(ops \o Tail(todo[m]), reported')
  <2>1. CASE ops = <<>>
    <3>1. ops \o Tail(todo[m]) = Tail(todo[m])
      BY <1>2, <2>1, ConcatEmptySeq
    <3> QED BY <1>1, <3>1, TailTold
  <2>2. CASE Head(todo[m]).op \in {"judge", "faces", "entry", "welcome"} /\ Told(ops, reported)
    <3>1. Tail(todo[m]) = <<>>
      BY <2>2, LastTail DEF Both, IInv
    <3>2. ops \o Tail(todo[m]) = ops
      BY <3>1, ConcatEmptySeq
    <3> QED BY <1>5, <2>2, <3>2
  <2> QED BY <2>1, <2>2
<1>7. ASSUME NEW n \in Timers PROVE Told(todo'[n], reported')
  <2>1. CASE n = m
    BY <1>1, <1>2, <1>6, <2>1
  <2>2. CASE n # m
    BY <1>1, <1>2, <1>5, <2>2
  <2> QED BY <2>1, <2>2
<1> QED BY <1>4, <1>7

\* A delivery that does not save leaves the event of another one to be saved.
LEMMA PublishingStays ==
    ASSUME IInv, NEW m \in Timers, todo[m] # <<>>, Head(todo[m]).op # "save",
           NEW ops, Continue(m, ops), NEW e, Publishing(e)
    PROVE  Publishing(e)'
<1>1. PICK n \in Timers : Saving(n) /\ Head(todo[n]).at = e
  BY DEF Publishing
<1>2. n # m
  BY <1>1 DEF Saving, At
<1>3. todo'[n] = todo[n]
  BY <1>2, Continued
<1> QED BY <1>1, <1>3 DEF Publishing, Saving, At

\* Whatever shortens the list, or goes back to what was saved.
LEMMA KnownKept ==
    ASSUME ListInv, announced' = announced, used \subseteq used',
           pendingAt' \in {pendingAt, "none"},
           Range(unreported') \subseteq Range(unreported) \cup Range(saved),
           saved' \in {saved, unreported'},
           \A e \in Entries : Publishing(e) => Publishing(e)' \/ saved' = unreported'
    PROVE  Known' /\ OnDisk'
<1>1. Range(saved') \subseteq Range(unreported) \cup Range(saved)
  OBVIOUS
<1>2. Known'
  BY <1>1, LimitAssumption DEF ListInv, Known
<1>3. announced \subseteq Entries
  BY DEF ListInv, TypeOK
<1>4. OnDisk'
  <2>1. ASSUME NEW e \in announced, e \in Range(unreported')
        PROVE  e \in Range(saved') \/ Publishing(e)'
    BY <1>3, <2>1 DEF ListInv, OnDisk
  <2> QED BY <2>1 DEF OnDisk
<1> QED BY <1>2, <1>4

\* Names are put in by a judgement and by the camera alone.
LEMMA NamedKept ==
    ASSUME ListInv, UNCHANGED <<who, greetings, camera>>, used \subseteq used',
           \A e \in Entries : pendingAt' = e => pendingAt = e \/ e \notin used
    PROVE  NamedOnce'
BY DEF ListInv, NamedOnce

LEMMA PollLists == ASSUME Both, Poll PROVE ListInv'
<1>0. ListInv /\ TypeOK /\ polling \in Seq(PollNames)
  BY DEF Both, ListInv, TypeOK
<1>1. polling # <<>> => Tail(polling) \in Seq(PollNames)
  BY <1>0, HeadTailProperties
<1>2. <<>> \in Seq(PollNames)
  BY EmptySeq
<1>3. polling' \in Seq(PollNames)
  <2>1. CASE Enters
    <3>1. /\ <<"cancel">> \in Seq(PollNames)
          /\ \A w \in {"welcome", "plain"} : <<"at", w, "make", "start">> \in Seq(PollNames)
      BY DEF PollNames
    <3>2. PICK a \in Seq(PollNames), b \in Seq(PollNames) : polling' = a \o b
      BY <1>2, <2>1, <3>1 DEF Enters
    <3> QED BY <3>2, ConcatProperties
  <2>2. CASE RoomLeft \/ CancelOld \/ PendAt \/ PendWelcome \/ MakeTimer \/ StartTimer
    BY <1>0, <1>1, <1>2, <2>2
       DEF RoomLeft, CancelOld, PendAt, PendWelcome, MakeTimer, StartTimer, Polls
  <2> QED BY <2>1, <2>2 DEF Poll
<1>4. UNCHANGED <<todo, camera, unreported, young, who, faces, toldVars>>
  BY DEF Poll, RoomLeft, Enters, CancelOld, PendAt, PendWelcome, MakeTimer, StartTimer, listVars,
         ghostVars
<1>5. /\ used \subseteq used' /\ used' \subseteq Entries \cup Faces
      /\ pendingAt' \in Entries \cup {"none"}
      /\ \A e \in Entries : pendingAt' = e => pendingAt = e \/ (e \notin used /\ e \in used')
  <2>1. CASE PendAt
    BY <1>0, <2>1 DEF PendAt, Now, TypeOK
  <2>2. CASE RoomLeft \/ Enters \/ CancelOld \/ PendWelcome \/ MakeTimer \/ StartTimer
    <3>1. UNCHANGED <<used, pendingAt>>
      BY <2>2 DEF RoomLeft, Enters, CancelOld, PendWelcome, MakeTimer, StartTimer, pendingVars,
         ghostVars
    <3> QED BY <1>0, <3>1 DEF TypeOK
  <2> QED BY <2>1, <2>2 DEF Poll
<1>6. saved' \in {saved, unreported'}
  BY <1>4 DEF Poll, RoomLeft, Enters, CancelOld, PendAt, PendWelcome, MakeTimer, StartTimer,
     listVars
<1>7. Known' /\ OnDisk'
  <2>1. \A e : Publishing(e) => Publishing(e)'
    BY <1>4 DEF Publishing, Saving, At
  <2>2. Known'
    BY <1>0, <1>4, <1>5, <1>6 DEF ListInv, Known, toldVars
  <2>3. OnDisk'
    BY <1>0, <1>4, <1>6, <2>1 DEF ListInv, OnDisk, toldVars
  <2> QED BY <2>2, <2>3
<1>8. NamedOnce'
  BY <1>0, <1>4, <1>5, NamedKept DEF toldVars
<1>9. /\ armed' \subseteq Timers /\ timerRef' \in Timers \cup {"none"}
      /\ {occupied', pendingWelcome'} \subseteq BOOLEAN
  BY <1>0 DEF Poll, RoomLeft, Enters, CancelOld, PendAt, PendWelcome, MakeTimer, StartTimer,
     pendingVars, TypeOK
<1>10. \A list \in {unreported', saved'} : /\ list \in Seq(Entries) /\ Len(list) <= Limit
                                            /\ IsInjective(list)
  BY <1>0, <1>4, <1>6 DEF TypeOK
<1>11. TypeOK'
  BY <1>0, <1>3, <1>4, <1>5, <1>9, <1>10 DEF TypeOK, toldVars
<1>12. \A m \in Timers : Told(todo'[m], reported')
  BY <1>0, <1>4 DEF ListInv, toldVars
<1> QED BY <1>7, <1>8, <1>11, <1>12 DEF ListInv

LEMMA FiresLists == ASSUME Both, NEW m \in Timers, Fires(m) PROVE ListInv'
<1> DEFINE a == Op("forget", "none", {}, FALSE)
           b == Op("judge", "none", {}, FALSE)
           s == <<a, b>>
<1>0. ListInv /\ TypeOK
  BY DEF Both, ListInv
<1>1. a \in OpSet /\ b \in OpSet /\ a.op = "forget" /\ b.op = "judge"
  BY DEF Op, OpSet, OpNames
<1> HIDE DEF a, b
<1>2. s \in Seq(OpSet) /\ \A i \in DOMAIN s : s[i] = a \/ s[i] = b
  BY <1>1
<1>3. Told(s, reported)
  BY <1>1, <1>2 DEF Told
<1>4. todo' = [todo EXCEPT ![m] = s]
  BY DEF Fires, a, b
<1> HIDE DEF s
<1>5. todo' \in [Timers -> Seq(OpSet)] /\ \A n \in Timers : Told(todo'[n], reported)
  BY <1>0, <1>2, <1>3, <1>4 DEF ListInv, TypeOK, OpSet
<1>6. /\ armed' = armed \ {m}
      /\ UNCHANGED <<polling, camera, occupied, timerRef, pendingAt, pendingWelcome, listVars,
                     ghostVars>>
  BY DEF Fires
<1>7. TypeOK'
  BY <1>0, <1>5, <1>6 DEF TypeOK, OpSet, listVars, ghostVars, toldVars
<1>9. /\ UNCHANGED <<unreported, saved, who, camera, announced, reported, greetings, used>>
      /\ pendingAt' = pendingAt
  BY <1>6 DEF listVars, ghostVars, toldVars
<1>8. Known' /\ OnDisk'
  <2>1. ASSUME NEW e, Publishing(e) PROVE Publishing(e)'
    <3>1. PICK n \in Timers : Saving(n) /\ Head(todo[n]).at = e
      BY <2>1 DEF Publishing
    <3>2. n # m
      BY <3>1 DEF Fires, Saving, At
    <3>3. todo'[n] = todo[n]
      BY <1>0, <1>4, <3>2 DEF TypeOK
    <3> QED BY <3>1, <3>3 DEF Publishing, Saving, At
  <2> QED BY <1>0, <1>9, <2>1, KnownKept
<1>10. NamedOnce'
  BY <1>0, <1>9, NamedKept
<1> QED BY <1>5, <1>7, <1>8, <1>9, <1>10 DEF ListInv

LEMMA JudgeLists == ASSUME Both, NEW m \in Timers, Judge(m) PROVE ListInv'
<1>0. ListInv /\ TypeOK /\ IInv
  BY DEF Both, ListInv
<1>1. PICK e \in Entries, class \in Classes :
        /\ EntryAt(e) /\ used' = used \cup {e}
        /\ IF class = "owner"
           THEN /\ Continue(m, <<Op("faces", e, Range(unreported), pendingWelcome)>>)
                /\ UNCHANGED <<unreported, young, who>>
           ELSE /\ unreported' = AppendLast(unreported, e, Limit)
                /\ young' = young \cup {e}
                /\ who' = [who EXCEPT ![e] = IF class = "known_person" THEN "delivery" ELSE @]
                /\ Continue(m, <<Op("entry", e, {}, pendingWelcome
                                     /\ class \in {"unknown_visitor", "known_person"})>>)
  BY DEF Judge
<1>2. /\ todo[m] # <<>> /\ Head(todo[m]).op = "judge"
      /\ pendingAt' = "none" /\ pendingWelcome' = FALSE
      /\ UNCHANGED <<polling, camera, occupied, armed, timerRef, saved, faces, toldVars>>
  BY DEF Judge, At, TakesPending
<1>3. /\ unreported \in Seq(Entries) /\ Len(unreported) <= Limit /\ IsInjective(unreported)
      /\ saved \in Seq(Entries) /\ Len(saved) <= Limit /\ IsInjective(saved)
  BY <1>0 DEF TypeOK
<1>4. Range(unreported) \subseteq Entries
  BY <1>3, ElementOfSeq, LenProperties DEF Range
<1>5. e \notin Range(unreported) \cup announced
  BY <1>0, <1>1 DEF ListInv, Known, EntryAt, Now
<1>6. PICK o \in OpSet : o.op \notin {"drop", "mark"} /\ o.at = e /\ Continue(m, <<o>>)
  <2>0. pendingWelcome \in BOOLEAN
    BY <1>0 DEF TypeOK
  <2>1. CASE class = "owner"
    <3>1. Op("faces", e, Range(unreported), pendingWelcome) \in OpSet
      BY <1>4, <2>0 DEF Op, OpSet, OpNames
    <3>2. /\ Op("faces", e, Range(unreported), pendingWelcome).op = "faces"
          /\ Op("faces", e, Range(unreported), pendingWelcome).at = e
      BY DEF Op
    <3> QED BY <1>1, <2>1, <3>1, <3>2
  <2>2. CASE class # "owner"
    <3> DEFINE w == pendingWelcome /\ class \in {"unknown_visitor", "known_person"}
    <3>1. w \in BOOLEAN
      OBVIOUS
    <3>2. Continue(m, <<Op("entry", e, {}, w)>>)
      BY <1>1, <2>2
    <3> HIDE DEF w
    <3>3. /\ Op("entry", e, {}, w) \in OpSet
          /\ Op("entry", e, {}, w).op = "entry" /\ Op("entry", e, {}, w).at = e
      BY <3>1 DEF Op, OpSet, OpNames
    <3> QED BY <3>2, <3>3
  <2> QED BY <2>1, <2>2
<1>7. todo' \in [Timers -> Seq(OpSet)] /\ \A n \in Timers : Told(todo'[n], reported')
  <2>1. <<o>> \in Seq(OpSet) /\ Told(<<o>>, reported)
    BY <1>6, OneTold
  <2>2. reported' = reported
    BY <1>2 DEF toldVars
  <2> QED BY <1>2, <1>6, <2>1, <2>2, Goes
<1>8. /\ unreported' \in Seq(Entries) /\ Len(unreported') <= Limit /\ IsInjective(unreported')
      /\ Range(unreported') \subseteq Range(unreported) \cup {e}
  BY <1>1, <1>3, <1>5, AppendLastFacts, LimitAssumption
<1>9. Known'
  BY <1>0, <1>1, <1>2, <1>8, LimitAssumption DEF ListInv, Known, toldVars
<1>a. OnDisk'
  <2>1. \A d : Publishing(d) => Publishing(d)'
    BY <1>0, <1>2, <1>6, PublishingStays
  <2>2. ASSUME NEW d \in announced', d \in Range(unreported')
        PROVE  d \in Range(saved') \/ Publishing(d)'
    BY <1>0, <1>2, <1>5, <1>8, <2>1, <2>2 DEF ListInv, OnDisk, toldVars
  <2> QED BY <2>2 DEF OnDisk
<1>b. NamedOnce'
  <2>1. who[e] = "nobody"
    BY <1>0, <1>1 DEF ListInv, NamedOnce, EntryAt, Now
  <2>2. /\ who' \in [Entries -> {"nobody", "delivery", "camera"}]
        /\ who'[e] \in {"nobody", "delivery"} /\ \A d \in Entries \ {e} : who'[d] = who[d]
    BY <1>0, <1>1, <2>1 DEF ListInv, NamedOnce
  <2>3. ASSUME NEW d \in Entries
        PROVE  /\ who'[d] # "nobody" => d \in used' /\ pendingAt' # d
               /\ greetings'[d] \in 0..1
               /\ greetings'[d] = 1 \/ d \in camera'.entries => who'[d] = "camera"
               /\ d \in camera'.entries => greetings'[d] = 0
    BY <1>0, <1>1, <1>2, <2>1, <2>2, LimitAssumption DEF ListInv, NamedOnce, toldVars
  <2> QED BY <2>2, <2>3 DEF NamedOnce
<1>10. /\ \A list \in {unreported', saved'} : /\ list \in Seq(Entries) /\ Len(list) <= Limit
                                               /\ IsInjective(list)
  BY <1>2, <1>3, <1>8
<1>11. /\ young' \subseteq Entries /\ used' \subseteq Entries \cup Faces
       /\ who' \in [Entries -> {"nobody", "delivery", "camera"}]
  BY <1>0, <1>1, <1>b DEF TypeOK, NamedOnce
<1>12. TypeOK'
  BY <1>0, <1>2, <1>7, <1>10, <1>11 DEF TypeOK, OpSet, toldVars
<1> QED BY <1>7, <1>9, <1>a, <1>b, <1>12 DEF ListInv

\* Whose entry is announced is known by then, and not pending.
LEMMA EntryLists == ASSUME Both, NEW m \in Timers, EmitEntry(m) PROVE ListInv'
<1> DEFINE o == Head(todo[m])
<1>0. ListInv /\ TypeOK /\ IInv
  BY DEF Both, ListInv
<1>1. /\ todo[m] # <<>> /\ o.op = "entry" /\ Continue(m, After(o))
      /\ announced' = announced \cup {o.at}
      /\ UNCHANGED <<polling, camera, occupied, pendingVars, listVars,
                     used, reported, welcomes, greetings, crashes>>
  BY DEF EmitEntry, At
<1>2. Names(todo[m], o.at)
  BY <1>0, <1>1, HeadNamed
<1>3. o \in OpSet
  BY <1>0, <1>1, HeadTailProperties DEF TypeOK, OpSet
<1>7. o.at \in Entries
  BY <1>0, <1>1, HeadAt
<1>a. /\ After(o) \in Seq(OpSet) /\ Told(After(o), reported)
      /\ After(o) # <<>> /\ Head(After(o)) = SaveFor(o.at)
  BY <1>3, <1>7, AfterTold
<1>4. todo' \in [Timers -> Seq(OpSet)] /\ \A n \in Timers : Told(todo'[n], reported')
  BY <1>1, <1>a, Goes
<1>5. o.at \in used /\ pendingAt # o.at
  BY <1>0, <1>2, <1>7 DEF IInv, Once, Claimed
<1>6. Known'
  BY <1>0, <1>1, <1>5 DEF ListInv, Known, pendingVars, listVars
<1>b. PICK e : e = o.at
  OBVIOUS
<1>f. Publishing(e)'
  <2>1. todo'[m] = After(o)
    BY <1>0, <1>1, <1>3, <1>7, <1>a, LastDone, AfterShape, HeadNamed
  <2>2. Head(todo'[m]).op = "save" /\ Head(todo'[m]).at = e /\ todo'[m] # <<>>
    BY <1>a, <1>b, <2>1 DEF SaveFor, Op
  <2> QED BY <2>2 DEF Publishing, Saving, At
<1>c. OnDisk'
  <2>1. \A d : Publishing(d) => Publishing(d)'
    BY <1>0, <1>1, PublishingStays
  <2>2. announced' = announced \cup {e} /\ UNCHANGED <<unreported, saved>>
    BY <1>1, <1>b DEF listVars
  <2> QED BY <1>0, <1>f, <2>1, <2>2 DEF ListInv, OnDisk
<1>d. NamedOnce'
  BY <1>0, <1>1, NamedKept DEF listVars, pendingVars
<1>8. TypeOK'
  BY <1>0, <1>1, <1>4, <1>7 DEF TypeOK, OpSet, pendingVars, listVars
<1> QED BY <1>4, <1>6, <1>c, <1>d, <1>8 DEF ListInv

LEMMA FacesLists == ASSUME Both, NEW m \in Timers, AddFaces(m) PROVE ListInv'
<1> DEFINE o == Head(todo[m])
           x == Op("entry", o.at, o.entries \cup Range(faces), o.welcome)
<1>0. ListInv /\ TypeOK /\ IInv
  BY DEF Both, ListInv
<1>1. /\ todo[m] # <<>> /\ o.op = "faces" /\ Continue(m, <<x>>)
      /\ UNCHANGED <<polling, camera, occupied, pendingVars, listVars, ghostVars>>
  BY DEF AddFaces, At
<1>2. o \in OpSet /\ Range(faces) \subseteq Faces
  <2>1. o \in OpSet
    BY <1>0, <1>1, HeadTailProperties DEF TypeOK, OpSet
  <2>2. faces \in Seq(Faces)
    BY <1>0 DEF TypeOK
  <2> QED BY <2>1, <2>2, ElementOfSeq, LenProperties DEF Range
<1>3. x \in OpSet /\ x.op = "entry" /\ x.at = o.at
  BY <1>2 DEF Op, OpSet, OpNames
<1> HIDE DEF x
<1>8. o.at \in Entries
  BY <1>0, <1>1, HeadAt
<1>4. <<x>> \in Seq(OpSet) /\ Told(<<x>>, reported)
  BY <1>3, <1>8, OneTold
<1>9. reported' = reported /\ announced' = announced /\ used' = used
  BY <1>1 DEF ghostVars, toldVars
<1>5. todo' \in [Timers -> Seq(OpSet)] /\ \A n \in Timers : Told(todo'[n], reported')
  BY <1>1, <1>4, <1>9, Goes
<1>6. Known' /\ OnDisk'
  <2>1. \A d : Publishing(d) => Publishing(d)'
    BY <1>0, <1>1, PublishingStays
  <2>2. UNCHANGED <<unreported, saved, pendingAt>>
    BY <1>1 DEF pendingVars, listVars
  <2> QED BY <1>0, <1>9, <2>1, <2>2, KnownKept
<1>a. NamedOnce'
  BY <1>0, <1>1, NamedKept DEF listVars, pendingVars, ghostVars, toldVars
<1>7. TypeOK'
  BY <1>0, <1>1, <1>5 DEF TypeOK, OpSet, pendingVars, listVars, ghostVars, toldVars
<1> QED BY <1>5, <1>6, <1>a, <1>7 DEF ListInv

LEMMA WelcomeLists == ASSUME Both, NEW m \in Timers, EmitWelcome(m) PROVE ListInv'
<1> DEFINE o == Head(todo[m])
           x == SaveFor("none")
<1>0. ListInv /\ TypeOK /\ IInv
  BY DEF Both, ListInv
<1>1. /\ todo[m] # <<>> /\ o.op = "welcome" /\ Continue(m, <<x>>)
      /\ welcomes' = [welcomes EXCEPT ![o.at] = @ + 1]
      /\ UNCHANGED <<polling, camera, occupied, pendingVars, listVars,
                     used, announced, reported, greetings, crashes>>
  BY DEF EmitWelcome, At
<1>2. x \in OpSet /\ x.op = "save"
  BY DEF SaveFor, Op, OpSet, OpNames
<1> HIDE DEF x
<1>3. <<x>> \in Seq(OpSet) /\ Told(<<x>>, reported)
  BY <1>2, OneTold
<1>4. todo' \in [Timers -> Seq(OpSet)] /\ \A n \in Timers : Told(todo'[n], reported')
  BY <1>1, <1>3, Goes
<1>5. Known' /\ OnDisk'
  <2>1. \A d : Publishing(d) => Publishing(d)'
    BY <1>0, <1>1, PublishingStays
  <2>2. UNCHANGED <<unreported, saved, pendingAt>>
    BY <1>1 DEF pendingVars, listVars
  <2> QED BY <1>0, <1>1, <2>1, <2>2, KnownKept
<1>6. NamedOnce'
  BY <1>0, <1>1, NamedKept DEF listVars, pendingVars
<1>7. welcomes' \in [Entries -> Nat]
  <2>1. o.at \in Entries
    BY <1>0, <1>1, HeadAt
  <2>2. welcomes[o.at] + 1 \in Nat /\ welcomes \in [Entries -> Nat]
    BY <1>0, <2>1 DEF TypeOK
  <2> QED BY <1>1, <2>2
<1>8. TypeOK'
  BY <1>0, <1>1, <1>4, <1>7 DEF TypeOK, OpSet, pendingVars, listVars
<1> QED BY <1>4, <1>5, <1>6, <1>8 DEF ListInv

\* Operations that call nothing.
LEMMA DoneLists ==
    ASSUME Both, NEW m \in Timers,
           \/ ForgetTimer(m) \/ NobodyThere(m) \/ NotAnArrival(m)
           \/ SaveEvent(m) \/ EmitReport(m) \/ DropReported(m) \/ MarkFaces(m)
    PROVE  ListInv'
<1> DEFINE o == Head(todo[m])
<1>0. ListInv /\ TypeOK /\ IInv
  BY DEF Both, ListInv
<1>1. /\ todo[m] # <<>> /\ Continue(m, <<>>)
      /\ reported' = IF o.op = "report" THEN reported \cup o.entries ELSE reported
      /\ UNCHANGED <<polling, camera, occupied, armed, young, who, used, announced, welcomes,
                     greetings, crashes>>
      /\ o.op = "save" => saved' = unreported /\ unreported' = unreported
  BY DEF ForgetTimer, NobodyThere, NotAnArrival, SaveEvent, EmitReport, DropReported, MarkFaces,
     Saving, At, pendingVars, listVars, ghostVars, toldVars
<1>2. o \in OpSet
  BY <1>0, <1>1, HeadTailProperties DEF TypeOK, OpSet
<1>3. todo' \in [Timers -> Seq(OpSet)] /\ \A n \in Timers : Told(todo'[n], reported')
  <2>1. <<>> \in Seq(OpSet)
    BY EmptySeq
  <2> QED BY <1>1, <2>1, Goes
<1>4. /\ unreported' \in Seq(Entries) /\ Len(unreported') <= Limit /\ IsInjective(unreported')
      /\ Range(unreported') \subseteq Range(unreported)
      /\ saved' \in {saved, unreported'}
  <2>1. /\ unreported \in Seq(Entries) /\ Len(unreported) <= Limit /\ IsInjective(unreported)
    BY <1>0 DEF TypeOK
  <2>2. CASE DropReported(m)
    <3>1. unreported' = Without(unreported, o.entries) /\ saved' = unreported'
      BY <2>2 DEF DropReported, KeepsOthers
    <3>2. Len(unreported') \in Nat /\ Len(unreported) \in Nat
      BY <2>1, <3>1, WithoutFacts, LenProperties
    <3> QED BY <2>1, <3>1, <3>2, WithoutFacts, LimitAssumption
  <2>3. CASE ~DropReported(m)
    <3>1. unreported' = unreported /\ saved' \in {saved, unreported'}
      BY <2>3 DEF ForgetTimer, NobodyThere, NotAnArrival, SaveEvent, EmitReport, MarkFaces,
         listVars
    <3> QED BY <2>1, <3>1
  <2> QED BY <2>2, <2>3
<1>5. /\ pendingAt' \in {pendingAt, "none"} /\ pendingWelcome' \in {pendingWelcome, FALSE}
      /\ timerRef' \in {timerRef, "none"}
  BY DEF ForgetTimer, NobodyThere, NotAnArrival, SaveEvent, EmitReport, DropReported, MarkFaces,
     TakesPending, pendingVars, listVars
<1>6. Known' /\ OnDisk'
  <2>1. ASSUME NEW e \in Entries, Publishing(e) PROVE Publishing(e)' \/ saved' = unreported'
    BY <1>0, <1>1, <2>1, PublishingStays
  <2> QED BY <1>0, <1>1, <1>4, <1>5, <2>1, KnownKept
<1>7. NamedOnce'
  BY <1>0, <1>1, <1>5, LimitAssumption, NamedKept
<1>8. \A list \in {unreported', saved'} : /\ list \in Seq(Entries) /\ Len(list) <= Limit
                                            /\ IsInjective(list)
  BY <1>0, <1>4 DEF TypeOK
<1>9. reported' \subseteq Entries \cup Faces
  BY <1>0, <1>1, <1>2 DEF TypeOK, OpSet
<1>a. faces' \in Seq(Faces) /\ Len(faces') <= MaxPending
  <2>1. faces \in Seq(Faces) /\ Len(faces) <= MaxPending
    BY <1>0 DEF TypeOK
  <2>2. CASE MarkFaces(m)
    <3>1. faces' = Without(faces, o.entries)
      BY <2>2 DEF MarkFaces
    <3>2. Len(faces') \in Nat /\ Len(faces) \in Nat
      BY <2>1, <3>1, WithoutFacts, LenProperties
    <3> QED BY <2>1, <3>1, <3>2, WithoutFacts, LimitAssumption
  <2>3. CASE ~MarkFaces(m)
    <3>1. faces' = faces
      BY <2>3 DEF ForgetTimer, NobodyThere, NotAnArrival, SaveEvent, EmitReport, DropReported,
         listVars
    <3> QED BY <2>1, <3>1
  <2> QED BY <2>2, <2>3
<1>10. TypeOK'
  BY <1>0, <1>1, <1>3, <1>5, <1>8, <1>9, <1>a DEF TypeOK, OpSet
<1> QED BY <1>3, <1>6, <1>7, <1>10 DEF ListInv

\* A friend is welcomed by name: what the camera names is on the list, and nobody
\* has named it yet.
LEMMA GreetingLists ==
    ASSUME Both, NameArrivals \/ EmitGreeting \/ SaveGreeting
    PROVE  ListInv'
<1>0. ListInv /\ TypeOK /\ NamedOnce /\ Known
  BY DEF Both, ListInv
<1>1. /\ saved' \in {saved, unreported'} /\ reported' = reported /\ announced' = announced
      /\ UNCHANGED <<todo, polling, occupied, pendingVars, unreported, young, faces, used,
                     welcomes, crashes>>
  BY DEF NameArrivals, EmitGreeting, SaveGreeting, listVars, ghostVars, toldVars
<1>2. Known' /\ OnDisk'
  <2>1. \A e : Publishing(e) => Publishing(e)'
    BY <1>1 DEF Publishing, Saving, At
  <2>2. pendingAt' = pendingAt
    BY <1>1 DEF pendingVars
  <2> QED BY <1>0, <1>1, <2>1, <2>2, KnownKept
<1>3. NamedOnce' /\ greetings' \in [Entries -> Nat]
      /\ camera' \in [op : {"idle", "greet", "save"}, entries : SUBSET Entries]
  <2>1. CASE NameArrivals
    <3> DEFINE theirs == NotNamedYet \cap young
    <3>1. /\ who' = [e \in Entries |-> IF e \in theirs THEN "camera" ELSE who[e]]
          /\ camera' = [op |-> "greet", entries |-> theirs]
          /\ camera.entries = {} /\ greetings' = greetings
      BY <2>1 DEF NameArrivals, Idle, ghostVars, toldVars
    <3>2. \A e \in theirs : e \in Range(unreported) /\ who[e] = "nobody"
      BY DEF NotNamedYet
    <3>3. theirs \subseteq Entries
      BY <1>0 DEF TypeOK
    <3> HIDE DEF theirs
    <3>4. ASSUME NEW e \in Entries
          PROVE  /\ who'[e] # "nobody" => e \in used' /\ pendingAt' # e
                 /\ greetings'[e] \in 0..1
                 /\ greetings'[e] = 1 \/ e \in camera'.entries => who'[e] = "camera"
                 /\ e \in camera'.entries => greetings'[e] = 0
      BY <1>0, <1>1, <3>1, <3>2 DEF NamedOnce, Known, pendingVars
    <3>5. who' \in [Entries -> {"nobody", "delivery", "camera"}]
      BY <1>0, <3>1 DEF TypeOK
    <3> QED BY <1>0, <3>1, <3>3, <3>4, <3>5 DEF NamedOnce, TypeOK
  <2>2. CASE EmitGreeting
    <3>1. /\ greetings' = [e \in Entries |-> greetings[e] + (IF e \in camera.entries THEN 1 ELSE 0)]
          /\ camera' = [op |-> "save", entries |-> {}] /\ who' = who
      BY <2>2 DEF EmitGreeting, listVars
    <3>2. ASSUME NEW e \in Entries
          PROVE  /\ who'[e] # "nobody" => e \in used' /\ pendingAt' # e
                 /\ greetings'[e] \in 0..1
                 /\ greetings'[e] = 1 \/ e \in camera'.entries => who'[e] = "camera"
                 /\ e \in camera'.entries => greetings'[e] = 0
      BY <1>0, <1>1, <3>1 DEF NamedOnce, pendingVars
    <3>3. greetings' \in [Entries -> Nat]
      BY <1>0, <3>1 DEF TypeOK
    <3> QED BY <1>0, <3>1, <3>2, <3>3 DEF NamedOnce
  <2>3. CASE SaveGreeting
    <3>1. camera' = Idle /\ UNCHANGED <<who, greetings, used, pendingAt>>
      BY <2>3 DEF SaveGreeting, pendingVars, ghostVars, toldVars
    <3>2. NamedOnce'
      BY <1>0, <3>1 DEF NamedOnce, Idle
    <3> QED BY <1>0, <3>1, <3>2 DEF TypeOK, Idle
  <2> QED BY <2>1, <2>2, <2>3
<1>4. TypeOK'
  BY <1>0, <1>1, <1>3 DEF TypeOK, pendingVars, NamedOnce
<1>5. \A m \in Timers : Told(todo'[m], reported')
  BY <1>0, <1>1 DEF ListInv
<1> QED BY <1>2, <1>3, <1>4, <1>5 DEF ListInv

LEMMA WorldLists ==
    ASSUME Both,
           Retract \/ UnknownFace \/ Review \/ OtherSave \/ TimePasses \/ Crash \/ UNCHANGED vars
    PROVE  ListInv'
<1>0. ListInv /\ TypeOK /\ IInv
  BY DEF Both, ListInv
<1>1. /\ unreported \in Seq(Entries) /\ Len(unreported) <= Limit /\ IsInjective(unreported)
      /\ saved \in Seq(Entries) /\ Len(saved) <= Limit /\ IsInjective(saved)
      /\ faces \in Seq(Faces) /\ Len(faces) <= MaxPending
  BY <1>0 DEF TypeOK
<1>2. /\ unreported' \in Seq(Entries) /\ Len(unreported') <= Limit /\ IsInjective(unreported')
      /\ Range(unreported') \subseteq Range(unreported) \cup Range(saved)
      /\ saved' \in {saved, unreported'} /\ (Crash => saved' = unreported')
  <2>1. CASE Retract
    <3>1. unreported' = Without(unreported, young) /\ saved' = unreported'
      BY <2>1 DEF Retract
    <3>2. Len(unreported') \in Nat /\ Len(unreported) \in Nat
      BY <1>1, <3>1, WithoutFacts, LenProperties
    <3> QED BY <1>1, <3>1, <3>2, WithoutFacts, LimitAssumption
  <2>2. CASE Crash
    BY <1>1, <2>2 DEF Crash
  <2>3. CASE ~Retract /\ ~Crash
    <3>1. unreported' = unreported /\ saved' \in {saved, unreported'}
      BY <2>3 DEF UnknownFace, Review, OtherSave, TimePasses, vars, listVars
    <3> QED BY <1>1, <2>3, <3>1
  <2> QED BY <2>1, <2>2, <2>3
<1>3. /\ UNCHANGED <<announced, welcomes, greetings, who>>
      /\ used \subseteq used' /\ used' \subseteq Entries \cup Faces
      /\ pendingAt' \in {pendingAt, "none"}
      /\ camera' \in {camera, Idle}
  BY <1>0 DEF Retract, UnknownFace, Review, OtherSave, TimePasses, Crash, vars, pendingVars,
     listVars, ghostVars, toldVars, TypeOK
<1>4. Known' /\ OnDisk'
  <2>1. ASSUME NEW e \in Entries, Publishing(e) PROVE Publishing(e)' \/ saved' = unreported'
    <3>1. CASE Crash
      BY <1>2, <3>1
    <3>2. CASE ~Crash
      <4>1. todo' = todo
        BY <3>2 DEF Retract, UnknownFace, Review, OtherSave, TimePasses, vars
      <4> QED BY <2>1, <4>1 DEF Publishing, Saving, At
    <3> QED BY <3>1, <3>2
  <2> QED BY <1>0, <1>2, <1>3, <2>1, KnownKept
<1>5. NamedOnce'
  BY <1>0, <1>3, LimitAssumption DEF ListInv, NamedOnce, Idle
<1>6. /\ reported \subseteq reported' /\ reported' \subseteq Entries \cup Faces
      /\ faces' \in Seq(Faces) /\ Len(faces') <= MaxPending
  <2>1. CASE UnknownFace
    <3>1. PICK f \in Faces : faces' = AppendLast(faces, f, MaxPending)
      BY <2>1 DEF UnknownFace
    <3>2. faces' \in Seq(Faces) /\ Len(faces') <= MaxPending
      BY <1>1, <3>1, AppendLastFacts, LimitAssumption
    <3> QED BY <1>0, <2>1, <3>2 DEF UnknownFace, toldVars, TypeOK
  <2>2. CASE Review
    <3>1. PICK gone \in SUBSET Range(faces) :
             faces' = Without(faces, gone) /\ reported' = reported \cup gone
      BY <2>2 DEF Review
    <3>2. Range(faces) \subseteq Faces
      BY <1>1, ElementOfSeq, LenProperties DEF Range
    <3>3. Len(faces') \in Nat /\ Len(faces) \in Nat /\ Len(faces') <= Len(faces)
          /\ faces' \in Seq(Faces)
      BY <1>1, <3>1, WithoutFacts, LenProperties
    <3> QED BY <1>0, <1>1, <3>1, <3>2, <3>3, LimitAssumption DEF TypeOK
  <2>3. CASE ~UnknownFace /\ ~Review
    <3>1. UNCHANGED <<reported, faces>>
      BY <2>3 DEF Retract, OtherSave, TimePasses, Crash, vars, listVars, ghostVars, toldVars
    <3> QED BY <1>0, <3>1 DEF TypeOK
  <2> QED BY <2>1, <2>2, <2>3
<1>7. /\ todo' \in [Timers -> Seq(OpSet)] /\ \A n \in Timers : Told(todo'[n], reported')
      /\ polling' \in Seq(PollNames)
      /\ armed' \subseteq Timers /\ timerRef' \in Timers \cup {"none"}
  <2>1. CASE Crash
    <3>1. \A T : <<>> \in Seq(T)
      BY EmptySeq
    <3>2. /\ todo' = [n \in Timers |-> <<>>] /\ armed' = {} /\ timerRef' = "none"
          /\ polling' = <<>>
      BY <2>1 DEF Crash
    <3> QED BY <3>1, <3>2, EmptyTold
  <2>2. CASE ~Crash
    <3>1. UNCHANGED <<todo, polling, armed, timerRef>>
      BY <2>2 DEF Retract, UnknownFace, Review, OtherSave, TimePasses, vars, pendingVars
    <3>2. ASSUME NEW n \in Timers PROVE Told(todo[n], reported')
      BY <1>0, <1>6 DEF ListInv, Told
    <3> QED BY <1>0, <3>1, <3>2 DEF TypeOK, OpSet
  <2> QED BY <2>1, <2>2
<1>8. {occupied', pendingWelcome'} \subseteq BOOLEAN
  BY <1>0 DEF Retract, UnknownFace, Review, OtherSave, TimePasses, Crash, vars, pendingVars, TypeOK
<1>9. young' \subseteq Entries /\ crashes' \in 0..Crashes
  BY <1>0, LimitAssumption DEF Retract, UnknownFace, Review, OtherSave, TimePasses, Crash, vars,
     listVars, ghostVars, toldVars, TypeOK
<1>10. \A list \in {unreported', saved'} : /\ list \in Seq(Entries) /\ Len(list) <= Limit
                                            /\ IsInjective(list)
  BY <1>1, <1>2
<1>11. camera' \in [op : {"idle", "greet", "save"}, entries : SUBSET Entries]
  BY <1>0, <1>3 DEF TypeOK, Idle
<1>12. TypeOK'
  BY <1>0, <1>3, <1>6, <1>7, <1>8, <1>9, <1>10, <1>11 DEF TypeOK, OpSet
<1> QED BY <1>4, <1>5, <1>7, <1>12 DEF ListInv

LEMMA StepLists == Both /\ [Next]_vars => Both'
<1> SUFFICES ASSUME Both, [Next]_vars PROVE Both'
  OBVIOUS
<1>1. IInv'
  BY StepKeeps DEF Both
<1>2. ListInv'
  BY PollLists, FiresLists, JudgeLists, FacesLists, EntryLists, WelcomeLists, DoneLists,
     GreetingLists, WorldLists DEF Next, Deliver, Sees
<1> QED BY <1>1, <1>2 DEF Both

-----------------------------------------------------------------------------
(* Nobody is forgotten *)

\* Why an entry may leave the list, and a face the queue.
MayLeave(e) ==
    \/ e \in reported
    \/ e \in young /\ Range(unreported') = Range(unreported) \ young
    \/ e = Head(unreported) /\ Len(unreported) = Limit /\ Len(unreported') = Limit
    \/ crashes' # crashes /\ \E m \in Timers : Saving(m) /\ Head(todo[m]).at = e

FaceMayLeave(f) ==
    \/ f \in reported'
    \/ f = Head(faces) /\ Len(faces) = MaxPending /\ Len(faces') = MaxPending

LEMMA ListStep ==
    ASSUME Both, [Next]_vars
    PROVE  /\ \A e \in announced :
                e \in Range(unreported) /\ e \notin Range(unreported') => MayLeave(e)
           /\ \A f \in Range(faces) \ Range(faces') : FaceMayLeave(f)
<1>0. /\ ListInv /\ unreported \in Seq(Entries) /\ Len(unreported) <= Limit
      /\ faces \in Seq(Faces) /\ Len(faces) <= MaxPending
  BY DEF Both, ListInv, TypeOK
<1> DEFINE listFine == \A e \in announced :
                e \in Range(unreported) /\ e \notin Range(unreported') => MayLeave(e)
           facesFine == \A f \in Range(faces) \ Range(faces') : FaceMayLeave(f)
<1>1. ASSUME NEW m \in Timers, Judge(m) PROVE listFine /\ facesFine
  <2>1. PICK e \in Entries : unreported' \in {unreported, AppendLast(unreported, e, Limit)}
    BY <1>1 DEF Judge
  <2>2. \A y \in Range(unreported) \ Range(unreported') :
            y = Head(unreported) /\ Len(unreported) = Limit /\ Len(unreported') = Limit
    BY <1>0, <2>1, AppendLastFacts, LimitAssumption
  <2> QED BY <1>1, <2>2 DEF Judge, MayLeave
<1>2. ASSUME NEW m \in Timers, DropReported(m) \/ MarkFaces(m) PROVE listFine /\ facesFine
  <2>1. Head(todo[m]).entries \subseteq reported
    BY <1>0, <1>2, HeadAt DEF DropReported, MarkFaces, At
  <2>2. CASE DropReported(m)
    <3>1. Range(unreported') = Range(unreported) \ Head(todo[m]).entries /\ faces' = faces
      BY <1>0, <2>2, WithoutFacts DEF DropReported, KeepsOthers
    <3> QED BY <2>1, <3>1 DEF MayLeave
  <2>3. CASE MarkFaces(m)
    <3>1. /\ Range(faces') = Range(faces) \ Head(todo[m]).entries /\ unreported' = unreported
          /\ reported' = reported
      BY <1>0, <2>3, WithoutFacts DEF MarkFaces, ghostVars, toldVars
    <3> QED BY <2>1, <3>1 DEF FaceMayLeave
  <2> QED BY <1>2, <2>2, <2>3
<1>3. ASSUME Retract PROVE listFine /\ facesFine
  <2>1. Range(unreported') = Range(unreported) \ young /\ faces' = faces
    BY <1>0, <1>3, WithoutFacts DEF Retract
  <2> QED BY <2>1 DEF MayLeave
<1>4. ASSUME Crash PROVE listFine /\ facesFine
  <2>1. unreported' = saved /\ faces' = faces /\ crashes' # crashes
    BY <1>0, <1>4, LimitAssumption DEF Crash, ListInv, TypeOK
  <2> QED BY <1>0, <2>1 DEF ListInv, OnDisk, Publishing, MayLeave
<1>5. ASSUME UnknownFace PROVE listFine /\ facesFine
  <2>1. PICK f \in Faces : faces' = AppendLast(faces, f, MaxPending)
    BY <1>5 DEF UnknownFace
  <2>2. \A y \in Range(faces) \ Range(faces') :
            y = Head(faces) /\ Len(faces) = MaxPending /\ Len(faces') = MaxPending
    BY <1>0, <2>1, AppendLastFacts, LimitAssumption
  <2> QED BY <1>5, <2>2 DEF UnknownFace, FaceMayLeave
<1>6. ASSUME Review PROVE listFine /\ facesFine
  <2>1. PICK gone : faces' = Without(faces, gone) /\ reported' = reported \cup gone
    BY <1>6 DEF Review
  <2>2. Range(faces') = Range(faces) \ gone /\ unreported' = unreported
    BY <1>0, <1>6, <2>1, WithoutFacts DEF Review
  <2> QED BY <2>1, <2>2 DEF FaceMayLeave
<1>7. ASSUME Poll PROVE listFine /\ facesFine
  <2>1. UNCHANGED <<unreported, faces>>
    BY <1>7 DEF Poll, RoomLeft, Enters, CancelOld, PendAt, PendWelcome, MakeTimer, StartTimer,
       listVars
  <2> QED BY <2>1
<1>8. ASSUME NEW m \in Timers, \/ Fires(m) \/ ForgetTimer(m) \/ NobodyThere(m) \/ NotAnArrival(m)
                               \/ AddFaces(m) \/ EmitEntry(m) \/ SaveEvent(m) \/ EmitReport(m)
                               \/ EmitWelcome(m)
      PROVE  listFine /\ facesFine
  <2>1. UNCHANGED <<unreported, faces>>
    BY <1>8 DEF Fires, ForgetTimer, NobodyThere, NotAnArrival, AddFaces, EmitEntry, SaveEvent,
       EmitReport, EmitWelcome, listVars
  <2> QED BY <2>1
<1>9. ASSUME \/ NameArrivals \/ EmitGreeting \/ SaveGreeting \/ OtherSave \/ TimePasses
             \/ UNCHANGED vars
      PROVE  listFine /\ facesFine
  <2>1. UNCHANGED <<unreported, faces>>
    BY <1>9 DEF NameArrivals, EmitGreeting, SaveGreeting, OtherSave, TimePasses, vars, listVars
  <2> QED BY <2>1
<1> HIDE DEF listFine, facesFine
<1>10. listFine /\ facesFine
  BY <1>1, <1>2, <1>3, <1>4, <1>5, <1>6, <1>7, <1>8, <1>9 DEF Next, Deliver, Sees
<1> QED BY <1>10 DEF listFine, facesFine

LEMMA ListsAlways == Spec => []Both
<1>1. Init => Both
  BY InitIInv, InitList DEF Both
<1> QED BY <1>1, StepLists, PTL DEF Spec

\* Every variable keeps its type, and neither the list nor its saved copy ever
\* holds an entry twice or more entries than it may.
THEOREM TypeCorrect == Spec => []TypeOK
<1>1. Both => TypeOK
  BY DEF Both, ListInv
<1> QED BY ListsAlways, <1>1, PTL

\* However deliveries, new entries, the camera and crashes interleave, an arrival
\* is welcomed once by the deliveries, once by name by the camera at most, and
\* never by name when a delivery has named it.
THEOREM NobodyWelcomedTwice == Spec => []OneWelcomePerArrival
<1>1. Both => OneWelcomePerArrival
  BY DEF Both, IInv, ListInv, NamedOnce, Once, OneWelcomePerArrival
<1> QED BY ListsAlways, <1>1, PTL

\* For any number of timers, entries, faces and crashes nobody is forgotten: an
\* announced entry leaves the list only when a report has named it, when the
\* owner's face explains it, as the oldest of a full list, or when the runtime
\* crashes before the announcement is saved; a face leaves the queue only when a
\* report has named it, when somebody has reviewed it, or as the oldest of a full
\* queue.
THEOREM NobodyForgotten == Spec => VisitorsAreReported
<1>1. Both /\ [Next]_vars =>
        [/\ \A e \in announced :
            e \in Range(unreported) /\ e \notin Range(unreported')
                => \/ e \in reported
                   \/ e \in young /\ Range(unreported') = Range(unreported) \ young
                   \/ e = Head(unreported) /\ Len(unreported) = Limit /\ Len(unreported') = Limit
                   \/ crashes' # crashes /\ \E m \in Timers : Saving(m) /\ Head(todo[m]).at = e
         /\ \A f \in Range(faces) \ Range(faces') :
            \/ f \in reported'
            \/ f = Head(faces) /\ Len(faces) = MaxPending /\ Len(faces') = MaxPending]_vars
  BY ListStep DEF MayLeave, FaceMayLeave
<1> QED BY ListsAlways, <1>1, PTL DEF Spec, VisitorsAreReported
=============================================================================
