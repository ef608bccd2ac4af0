-------------------------- MODULE FaceLibraryProofs --------------------------
(***************************************************************************)
(* Proofs about FaceLibrary, for any people, ids, limits, calls and        *)
(* crashes: its type, that nobody waits for review twice, and that a       *)
(* rebuild brings every reviewed face back.                                *)
(*                                                                         *)
(* The argument for the rebuild.  While the library holds no vector of the *)
(* older recogniser under the engine's model, one of three things is so    *)
(* (Covered): every reviewed face is filed or named as an exception; or    *)
(* the camera has not looked at a frame since the change, and then only    *)
(* visitors of the older recogniser wait, and the library stays as empty   *)
(* as it was found, so that the rebuild is not skipped; or the rebuild     *)
(* runs, and what is neither filed nor named is still to do.               *)
(***************************************************************************)
EXTENDS FaceLibrary, SequenceTheorems, FiniteSetTheorems, TLAPS

Cams  == [at : CamPlaces, todo : SUBSET Reviewed, owner : SUBSET Names,
          queue : SUBSET Faces, face : Faces \cup {"none"}, sawOwner : BOOLEAN]
Calls == [at : {"idle", "enroll", "update", "look"}, id : Ids \cup {"none"},
          face : Faces \cup {"none"}, model : Models, name : Names \cup {"nobody"},
          own : BOOLEAN, got : SUBSET Faces]
Seens == [owner : BOOLEAN, faces : SUBSET Faces]

LibType ==
    /\ people \subseteq Names /\ owner \subseteq people
    /\ samples \subseteq Filings /\ approved \subseteq Reviewed
    /\ pending \in Seq(Sighting)
    /\ model \in Models

CamType ==
    /\ cam \in Cams /\ track \in [Faces -> Track] /\ view \in [Faces -> Looks] /\ seen \in Seens
    /\ cam.at = "record" => cam.face \in Faces

RestType == forgotten \subseteq Reviewed /\ crashes \in 0..Crashes

\* A call that enrols a face has one.
CallType ==
    /\ call \in [Rpc -> Calls]
    /\ \A r \in Rpc :
        /\ call[r].at \in {"enroll", "update"} =>
                call[r].face \in Faces /\ call[r].name \in Names
        /\ call[r].at = "look" => call[r].name \in Names

TypeInv == LibType /\ CamType /\ RestType /\ CallType

LEMMA TypeInvIsType == TypeInv => TypeOK
BY DEF TypeInv, LibType, CamType, RestType, CallType, TypeOK, Cams, Calls, Seens

-----------------------------------------------------------------------------
(* Rows *)

DistinctFaces(s) ==
    \A i, j \in DOMAIN s : s[i].face = s[j].face /\ s[i].model = s[j].model => i = j

LEMMA EmptyRows == <<>> \in Seq(Sighting) /\ DistinctFaces(<<>>)
BY EmptySeq DEF DistinctFaces

\* A row that is taken leaves the others as they were.
LEMMA RemovedRow ==
    ASSUME NEW s \in Seq(Sighting), NEW i \in DOMAIN s
    PROVE  /\ RemoveAt(s, i) \in Seq(Sighting)
           /\ DistinctFaces(s) => DistinctFaces(RemoveAt(s, i))
           /\ \A j \in DOMAIN RemoveAt(s, i) : \E l \in DOMAIN s : RemoveAt(s, i)[j] = s[l]
<1> DEFINE a == SubSeq(s, 1, i - 1)
           b == SubSeq(s, i + 1, Len(s))
           r == RemoveAt(s, i)
<1>1. Len(s) \in Nat /\ DOMAIN s = 1..Len(s) /\ \A j \in 1..Len(s) : s[j] \in Sighting
  BY LenProperties, ElementOfSeq
<1>2. i \in Int /\ 1 <= i /\ i <= Len(s)
  BY <1>1
<1>3. /\ a \in Seq(Sighting) /\ Len(a) = i - 1
      /\ \A j \in 1..(i - 1) : a[j] = s[j]
  <2>1. \A j \in 1..(i - 1) : s[j] \in Sighting
    BY <1>1, <1>2
  <2>2. /\ a \in Seq(Sighting) /\ Len(a) = IF 1 <= i - 1 THEN (i - 1) - 1 + 1 ELSE 0
        /\ \A j \in 1..((i - 1) - 1 + 1) : a[j] = s[1 + j - 1]
    BY <1>2, <2>1, SubSeqProperties
  <2> QED BY <1>2, <2>2
<1>4. /\ b \in Seq(Sighting) /\ Len(b) = Len(s) - i
      /\ \A j \in 1..(Len(s) - i) : b[j] = s[i + j]
  <2>1. \A j \in (i + 1)..Len(s) : s[j] \in Sighting
    BY <1>1, <1>2
  <2>2. /\ b \in Seq(Sighting) /\ Len(b) = IF i + 1 <= Len(s) THEN Len(s) - (i + 1) + 1 ELSE 0
        /\ \A j \in 1..(Len(s) - (i + 1) + 1) : b[j] = s[(i + 1) + j - 1]
    BY <1>1, <1>2, <2>1, SubSeqProperties
  <2>3. \A j \in 1..(Len(s) - i) : j \in 1..(Len(s) - (i + 1) + 1) /\ (i + 1) + j - 1 = i + j
    BY <1>1, <1>2
  <2> QED BY <1>1, <1>2, <2>2, <2>3
<1> HIDE DEF a, b
<1>5. r = a \o b
  BY DEF RemoveAt, a, b
<1> HIDE DEF r
<1>6. /\ r \in Seq(Sighting) /\ Len(r) = Len(s) - 1
      /\ \A j \in 1..(Len(s) - 1) : r[j] = IF j <= i - 1 THEN a[j] ELSE b[j - (i - 1)]
  <2>1. /\ r \in Seq(Sighting) /\ Len(r) = Len(a) + Len(b)
        /\ \A j \in 1..(Len(a) + Len(b)) : r[j] = IF j <= Len(a) THEN a[j] ELSE b[j - Len(a)]
    BY <1>3, <1>4, <1>5, ConcatProperties
  <2>2. Len(a) + Len(b) = Len(s) - 1
    BY <1>1, <1>2, <1>3, <1>4
  <2> QED BY <1>3, <2>1, <2>2
<1>7. ASSUME NEW j \in 1..(Len(s) - 1)
      PROVE  /\ (IF j < i THEN j ELSE j + 1) \in 1..Len(s)
             /\ r[j] = s[IF j < i THEN j ELSE j + 1]
  <2>1. CASE j < i
    <3>1. j <= i - 1 /\ j \in 1..(i - 1) /\ j \in 1..Len(s)
      BY <1>1, <1>2, <2>1
    <3>2. r[j] = s[j]
      BY <1>3, <1>6, <3>1
    <3> QED BY <2>1, <3>1, <3>2
  <2>2. CASE ~(j < i)
    <3>1. j - (i - 1) \in 1..(Len(s) - i) /\ i + (j - (i - 1)) = j + 1 /\ ~(j <= i - 1)
      BY <1>1, <1>2, <2>2
    <3>2. r[j] = s[j + 1] /\ j + 1 \in 1..Len(s)
      BY <1>1, <1>4, <1>6, <3>1
    <3> QED BY <2>2, <3>2
  <2> QED BY <2>1, <2>2
<1>8. DOMAIN r = 1..(Len(s) - 1)
  BY <1>6, LenProperties
<1>9. DistinctFaces(s) => DistinctFaces(r)
  <2> SUFFICES ASSUME DistinctFaces(s), NEW j \in DOMAIN r, NEW l \in DOMAIN r,
                      r[j].face = r[l].face, r[j].model = r[l].model
               PROVE  j = l
    BY DEF DistinctFaces
  <2> DEFINE kj == IF j < i THEN j ELSE j + 1
             kl == IF l < i THEN l ELSE l + 1
  <2>1. kj \in DOMAIN s /\ kl \in DOMAIN s /\ r[j] = s[kj] /\ r[l] = s[kl]
    BY <1>1, <1>7, <1>8
  <2>2. kj = kl
    BY <2>1 DEF DistinctFaces
  <2> QED BY <1>1, <1>2, <1>8, <2>2
<1>10. \A j \in DOMAIN r : \E l \in DOMAIN s : r[j] = s[l]
  BY <1>1, <1>7, <1>8
<1> QED BY <1>6, <1>9, <1>10 DEF r

LEMMA WithoutRow ==
    ASSUME pending \in Seq(Sighting), NEW id \in PendingIds
    PROVE  /\ Without(id) \in Seq(Sighting)
           /\ DistinctFaces(pending) => DistinctFaces(Without(id))
           /\ \A j \in DOMAIN Without(id) : \E l \in DOMAIN pending : Without(id)[j] = pending[l]
<1>1. (CHOOSE i \in DOMAIN pending : pending[i].id = id) \in DOMAIN pending
  BY DEF PendingIds
<1> QED BY <1>1, RemovedRow DEF Without

\* A new row is added at the end, and the oldest may be dropped.
LEMMA AddedRow ==
    ASSUME NEW s \in Seq(Sighting), NEW row \in Sighting, NEW k \in {0, 1},
           \A i \in DOMAIN s : s[i].face # row.face \/ s[i].model # row.model
    PROVE  LET all == Append(s, row) r == SubSeq(all, 1 + k, Len(all))
           IN r \in Seq(Sighting) /\ (DistinctFaces(s) => DistinctFaces(r))
<1> DEFINE all == Append(s, row)
           r == SubSeq(all, 1 + k, Len(all))
<1>1. Len(s) \in Nat /\ DOMAIN s = 1..Len(s) /\ \A j \in 1..Len(s) : s[j] \in Sighting
  BY LenProperties, ElementOfSeq
<1>2. /\ all \in Seq(Sighting) /\ Len(all) = Len(s) + 1
      /\ \A j \in 1..(Len(s) + 1) : all[j] = IF j <= Len(s) THEN s[j] ELSE row
  BY <1>1
<1> HIDE DEF all
<1>3. \A j \in (1 + k)..Len(all) : all[j] \in Sighting
  BY <1>1, <1>2
<1>4. /\ r \in Seq(Sighting) /\ Len(r) = Len(s) + 1 - k
      /\ \A j \in 1..(Len(s) + 1 - k) : j + k \in 1..(Len(s) + 1) /\ r[j] = all[j + k]
  <2>1. /\ r \in Seq(Sighting)
        /\ Len(r) = IF 1 + k <= Len(all) THEN Len(all) - (1 + k) + 1 ELSE 0
        /\ \A j \in 1..(Len(all) - (1 + k) + 1) : r[j] = all[(1 + k) + j - 1]
    BY <1>1, <1>2, <1>3, SubSeqProperties
  <2>2. ASSUME NEW j \in 1..(Len(s) + 1 - k)
        PROVE  /\ j + k \in 1..(Len(s) + 1) /\ j \in 1..(Len(all) - (1 + k) + 1)
               /\ (1 + k) + j - 1 = j + k
    BY <1>1, <1>2
  <2> QED BY <1>1, <1>2, <2>1, <2>2
<1> HIDE DEF r
<1>5. DOMAIN r = 1..(Len(s) + 1 - k)
  BY <1>4, LenProperties
<1>6. DistinctFaces(s) => DistinctFaces(r)
  <2> SUFFICES ASSUME DistinctFaces(s), NEW j \in DOMAIN r, NEW l \in DOMAIN r,
                      r[j].face = r[l].face, r[j].model = r[l].model
               PROVE  j = l
    BY DEF DistinctFaces
  <2>1. /\ j + k \in 1..(Len(s) + 1) /\ l + k \in 1..(Len(s) + 1)
        /\ all[j + k].face = all[l + k].face /\ all[j + k].model = all[l + k].model
    BY <1>4, <1>5
  <2>2. j + k = l + k
    BY <1>1, <1>2, <2>1 DEF DistinctFaces
  <2> QED BY <1>1, <1>5, <2>2
<1> QED BY <1>4, <1>6 DEF r, all

LEMMA RecordedRow ==
    ASSUME pending \in Seq(Sighting), model \in Models, NEW f \in Faces, RecordSighting(f)
    PROVE  pending' \in Seq(Sighting) /\ (DistinctFaces(pending) => DistinctFaces(pending'))
<1>1. CASE Waits(f)
  BY <1>1 DEF RecordSighting
<1>2. CASE ~Waits(f)
  <2> DEFINE free == Ids \ (PendingIds \cup {call[r].id : r \in Rpc})
  <2>1. PICK id \in free :
          pending' = SubSeq(Append(pending, [id |-> id, face |-> f, model |-> model]),
                            1 + (IF Len(Append(pending, [id |-> id, face |-> f, model |-> model]))
                                      > MaxPending THEN 1 ELSE 0),
                            Len(Append(pending, [id |-> id, face |-> f, model |-> model])))
    <3>1. (CHOOSE id \in free : TRUE) \in free
      BY <1>2 DEF RecordSighting, AddRow
    <3> QED BY <1>2, <3>1 DEF RecordSighting, AddRow
  <2> DEFINE row == [id |-> id, face |-> f, model |-> model]
             over == IF Len(Append(pending, row)) > MaxPending THEN 1 ELSE 0
  <2>2. row \in Sighting /\ over \in {0, 1} /\ row.face = f /\ row.model = model
    BY DEF Sighting
  <2>3. pending' = SubSeq(Append(pending, row), 1 + over, Len(Append(pending, row)))
    BY <2>1
  <2>4. \A i \in DOMAIN pending : pending[i].face # row.face \/ pending[i].model # row.model
    BY <1>2, <2>2 DEF Waits
  <2> HIDE DEF row, over
  <2> QED BY <2>2, <2>3, <2>4, AddedRow
<1> QED BY <1>1, <1>2

-----------------------------------------------------------------------------
(* The type *)

LEMMA EnrollType ==
    ASSUME LibType, NEW name \in Names, NEW faces \in SUBSET (Faces \cup {"stale"}), NEW own \in BOOLEAN,
           Enroll(name, faces, own)
    PROVE  /\ people' \subseteq Names /\ owner' \subseteq people' /\ samples' \subseteq Filings
           /\ samples \subseteq samples'
           /\ model = "engine" => \A f \in faces : [name |-> name, face |-> f] \in samples'
BY DEF LibType, Enroll, Filings

LEMMA OwnedType == ASSUME LibType, NEW name PROVE Owned(name) \subseteq people
BY DEF Owned, LibType

LEMMA JudgedType ==
    ASSUME NEW f \in Faces, NEW tr \in Track, NEW v \in Verdicts(f)
    PROVE  Judged(tr, v) \in Track
<1>1. v.status \in {"owner", "known", "unknown", "uncertain"} /\ v.name \in Names \cup {"nobody"}
  <2>1. ASSUME NEW st \in {"unknown", "uncertain"}, v = [status |-> st, name |-> "nobody"]
        PROVE  v.status \in {"unknown", "uncertain"} /\ v.name = "nobody"
    BY <2>1
  <2>2. CASE \E n \in Names : v = [status |-> IF n \in owner THEN "owner" ELSE "known", name |-> n]
    BY <2>2
  <2> QED BY <2>1, <2>2 DEF Verdicts, NamesOf
<1> QED BY <1>1 DEF Judged, Track, Labels

LEMMA InitType == Init => TypeInv
<1> SUFFICES ASSUME Init PROVE TypeInv
  OBVIOUS
<1>1. LibType
  <2>1. people \subseteq Names /\ owner \subseteq people /\ approved \subseteq Reviewed
    BY ConstantsAssumption DEF Init, Reviewed
  <2>2. pending \in Seq(Sighting)
    BY ConstantsAssumption, SeqDef DEF Init, SeqOf
  <2> QED BY <2>1, <2>2 DEF Init, LibType, Models
<1>2. Boot \in Cams /\ NoTrack \in Track /\ Nothing \in Seens /\ NoCall \in Calls
  BY ConstantsAssumption DEF Boot, Cams, CamPlaces, NoTrack, Track, Labels, Nothing, Seens,
     NoCall, Calls, Models
<1>3. CamType
  BY <1>2 DEF Init, CamType, Boot, Looks
<1>4. RestType
  <2>1. 0 \in 0..Crashes
    BY ConstantsAssumption
  <2> QED BY <2>1 DEF Init, RestType
<1>5. CallType
  BY <1>2 DEF Init, CallType, NoCall
<1> QED BY <1>1, <1>3, <1>4, <1>5 DEF TypeInv

\* Steps that leave the calls alone, or the camera, or the library.
LEMMA CallsKept ==
    ASSUME CallType, call' = call
    PROVE  CallType'
BY DEF CallType

LEMMA CamKept ==
    ASSUME CamType, UNCHANGED camVars
    PROVE  CamType'
BY DEF CamType, camVars

LEMMA LibKept ==
    ASSUME LibType, UNCHANGED libVars
    PROVE  LibType'
BY DEF LibType, libVars

\* A crop of the rebuild is filed again, or passed over.
LEMMA RebuiltType ==
    ASSUME TypeInv, RebuildOne
    PROVE  /\ people' \subseteq Names /\ owner' \subseteq people' /\ samples' \subseteq Filings
           /\ forgotten' \subseteq Reviewed /\ cam' \in Cams /\ cam'.at = "rebuild"
<1>0. /\ cam \in Cams /\ owner \subseteq people /\ people \subseteq Names
      /\ samples \subseteq Filings /\ forgotten \subseteq Reviewed /\ cam.at = "rebuild"
  BY DEF TypeInv, LibType, CamType, RestType, RebuildOne
<1>1. PICK a \in cam.todo :
        /\ cam' = [cam EXCEPT !.todo = @ \ {a}]
        /\ \/ Enroll(a.name, {a.face}, FALSE)
           \/ forgotten' = forgotten \cup ({a} \ samples) /\ UNCHANGED <<people, owner, samples>>
  BY DEF RebuildOne
<1>2. a \in Reviewed /\ a.name \in Names /\ {a.face} \in SUBSET (Faces \cup {"stale"})
  BY <1>0 DEF Cams, Reviewed
<1>3. cam' \in Cams /\ cam'.at = "rebuild"
  BY <1>0, <1>1 DEF Cams
<1>4. CASE Enroll(a.name, {a.face}, FALSE)
  <2>1. people' \subseteq Names /\ owner' \subseteq people' /\ samples' \subseteq Filings
    BY <1>2, <1>4, EnrollType DEF TypeInv
  <2>2. forgotten' \subseteq Reviewed
    BY <1>0, <1>4 DEF Enroll
  <2> QED BY <1>3, <2>1, <2>2
<1>5. CASE forgotten' = forgotten \cup ({a} \ samples) /\ UNCHANGED <<people, owner, samples>>
  BY <1>0, <1>2, <1>3, <1>5
<1> QED BY <1>1, <1>4, <1>5

LEMMA StartingType ==
    ASSUME TypeInv, \/ StartVision \/ UseModel \/ CountSamples \/ ReadCrops \/ RebuildOne
                    \/ RebuildEnd \/ PrepareFails
    PROVE  TypeInv'
<1>1. /\ UNCHANGED <<pending, approved, track, view, seen, call, crashes>>
      /\ model' \in {model, "engine"}
  BY DEF StartVision, UseModel, CountSamples, ReadCrops, RebuildOne, RebuildEnd, PrepareFails,
     libVars
<1>2. /\ people' \subseteq Names /\ owner' \subseteq people' /\ samples' \subseteq Filings
      /\ cam' \in Cams /\ cam'.at # "record" /\ forgotten' \subseteq Reviewed
  <2>0. /\ cam \in Cams /\ owner \subseteq people /\ people \subseteq Names
        /\ samples \subseteq Filings /\ approved \subseteq Reviewed /\ forgotten \subseteq Reviewed
    BY DEF TypeInv, LibType, CamType, RestType
  <2>1. CASE StartVision
    BY <2>0, <2>1, OwnedType DEF StartVision, Cams, CamPlaces, TypeInv
  <2>2. CASE UseModel \/ CountSamples
    BY <2>0, <2>2 DEF UseModel, CountSamples, Cams, CamPlaces, libVars
  <2>3. CASE ReadCrops
    BY <2>0, <2>3 DEF ReadCrops, Cams, CamPlaces, libVars
  <2>4. CASE RebuildOne
    BY <2>4, RebuiltType
  <2>5. CASE RebuildEnd
    BY <2>0, <2>5, OwnedType DEF RebuildEnd, Cams, CamPlaces, TypeInv
  <2>6. CASE PrepareFails
    BY <2>0, <2>6 DEF PrepareFails, Cams, CamPlaces, libVars
  <2> QED BY <2>1, <2>2, <2>3, <2>4, <2>5, <2>6
<1>3. CallType'
  BY <1>1, CallsKept DEF TypeInv
<1> QED BY <1>1, <1>2, <1>3 DEF TypeInv, LibType, CamType, RestType, Models

LEMMA FrameType ==
    ASSUME TypeInv, BeginFrame \/ JudgeFace \/ RecordFace \/ PublishFrame
                        \/ \E f \in Faces : TrackEnds(f)
    PROVE  TypeInv'
<1> USE DEF TypeInv
<1>0. /\ UNCHANGED <<people, owner, samples, approved, model, call, forgotten, crashes>>
      /\ cam \in Cams /\ track \in [Faces -> Track] /\ view \in [Faces -> Looks] /\ seen \in Seens
  BY DEF BeginFrame, JudgeFace, RecordFace, PublishFrame, TrackEnds, libVars, CamType
<1>1. pending' \in Seq(Sighting)
  <2>1. CASE RecordFace
    BY <2>1, RecordedRow DEF RecordFace, LibType, CamType
  <2> QED BY <2>1 DEF BeginFrame, JudgeFace, PublishFrame, TrackEnds, libVars, LibType
<1>2. CamType'
  <2>1. CASE BeginFrame
    <3>1. view' \in [Faces -> Looks] /\ {f \in Faces : view'[f] # "away"} \in SUBSET Faces
      BY <2>1 DEF BeginFrame
    <3>2. cam' \in Cams /\ cam'.at = "faces"
      BY <1>0, <2>1, <3>1 DEF BeginFrame, Cams, CamPlaces
    <3> QED BY <1>0, <2>1, <3>1, <3>2 DEF BeginFrame, CamType
  <2>2. CASE JudgeFace
    <3>1. PICK f \in cam.queue : \E counts \in Counts(f), verdict \in Verdicts(f) :
            LET n == IF counts /\ track[f].n < Confirm THEN track[f].n + 1 ELSE track[f].n
                tr == Judged([track[f] EXCEPT !.n = n], verdict)
                records == tr.label = "unknown" /\ view[f] = "good" /\ ~tr.recorded
            IN /\ track' = [track EXCEPT ![f] = [tr EXCEPT !.recorded = @ \/ records]]
               /\ cam' = [cam EXCEPT !.queue = @ \ {f},
                                     !.sawOwner = @ \/ tr.label = "owner",
                                     !.at = IF records THEN "record" ELSE "faces",
                                     !.face = IF records THEN f ELSE "none"]
      BY <2>2 DEF JudgeFace
    <3>a. PICK counts \in Counts(f), verdict \in Verdicts(f) :
            LET n == IF counts /\ track[f].n < Confirm THEN track[f].n + 1 ELSE track[f].n
                tr == Judged([track[f] EXCEPT !.n = n], verdict)
                records == tr.label = "unknown" /\ view[f] = "good" /\ ~tr.recorded
            IN /\ track' = [track EXCEPT ![f] = [tr EXCEPT !.recorded = @ \/ records]]
               /\ cam' = [cam EXCEPT !.queue = @ \ {f},
                                     !.sawOwner = @ \/ tr.label = "owner",
                                     !.at = IF records THEN "record" ELSE "faces",
                                     !.face = IF records THEN f ELSE "none"]
      BY <3>1
    <3> DEFINE n == IF counts /\ track[f].n < Confirm THEN track[f].n + 1 ELSE track[f].n
               tr == Judged([track[f] EXCEPT !.n = n], verdict)
               records == tr.label = "unknown" /\ view[f] = "good" /\ ~tr.recorded
    <3>2. f \in Faces
      BY <1>0 DEF Cams
    <3>3. n \in 0..Confirm
      BY <1>0, <3>2, ConstantsAssumption DEF Track
    <3>4. [track[f] EXCEPT !.n = n] \in Track
      BY <1>0, <3>2, <3>3 DEF Track
    <3>5. tr \in Track
      BY <3>2, <3>4, JudgedType
    <3> HIDE DEF n, tr
    <3>6. /\ track' = [track EXCEPT ![f] = [tr EXCEPT !.recorded = @ \/ records]]
          /\ cam' = [cam EXCEPT !.queue = @ \ {f},
                                !.sawOwner = @ \/ tr.label = "owner",
                                !.at = IF records THEN "record" ELSE "faces",
                                !.face = IF records THEN f ELSE "none"]
      BY <3>a DEF n, tr
    <3>7. [tr EXCEPT !.recorded = @ \/ records] \in Track
      BY <3>5 DEF Track
    <3>8. track' \in [Faces -> Track]
      BY <1>0, <3>6, <3>7
    <3>9. cam' \in Cams /\ (cam'.at = "record" => cam'.face \in Faces)
      BY <1>0, <3>2, <3>6 DEF Cams, CamPlaces
    <3> QED BY <1>0, <2>2, <3>8, <3>9 DEF JudgeFace, CamType
  <2>3. CASE RecordFace
    BY <1>0, <2>3 DEF RecordFace, CamType, Cams, CamPlaces
  <2>4. CASE PublishFrame
    BY <1>0, <2>4 DEF PublishFrame, CamType, Cams, CamPlaces, Seens
  <2>5. ASSUME NEW f \in Faces, TrackEnds(f) PROVE CamType'
    <3>1. NoTrack \in Track
      BY ConstantsAssumption DEF NoTrack, Track, Labels
    <3> QED BY <1>0, <2>5, <3>1 DEF TrackEnds, CamType
  <2> QED BY <2>1, <2>2, <2>3, <2>4, <2>5
<1>3. LibType'
  BY <1>0, <1>1 DEF LibType
<1> QED BY <1>0, <1>2, <1>3, CallsKept DEF RestType

LEMMA ReviewType ==
    ASSUME TypeInv, NEW r \in Rpc, Review(r) \/ Proceed(r)
    PROVE  TypeInv'
<1> USE DEF TypeInv
<1>0. /\ UNCHANGED <<camVars, model, crashes>>
      /\ call \in [Rpc -> Calls] /\ call[r] \in Calls /\ NoCall \in Calls
  <2>1. NoCall \in Calls
    BY DEF NoCall, Calls, Models
  <2> QED BY <2>1 DEF Review, Proceed, Approve, Reject, SetOwner, EnrollOwner, EnrollLook,
             ApproveEnroll, ApproveUpdate, EnrollEnd, libVars, CallType
<1>1. CamType' /\ RestType'
  <2>1. forgotten \subseteq Reviewed
    BY DEF RestType
  <2>2. CASE ApproveUpdate(r)
    <3>1. [name |-> call[r].name, face |-> call[r].face] \in Reviewed
      BY <2>2 DEF ApproveUpdate, CallType, Reviewed
    <3>2. forgotten' \subseteq Reviewed
      BY <2>1, <2>2, <3>1 DEF ApproveUpdate
    <3> QED BY <1>0, <3>2, CamKept DEF RestType
  <2>3. CASE ~ApproveUpdate(r)
    <3>1. forgotten' \subseteq forgotten
      BY <2>3 DEF Review, Proceed, Approve, Reject, SetOwner, EnrollOwner, EnrollLook,
         ApproveEnroll, EnrollEnd, Enroll
    <3> QED BY <1>0, <2>1, <3>1, CamKept DEF RestType
  <2> QED BY <2>2, <2>3
<1>2. CASE Approve(r)
  <2>1. PICK i \in DOMAIN pending, name \in Names, own \in BOOLEAN :
            call' = [call EXCEPT ![r] = [NoCall EXCEPT !.at = "enroll", !.id = pending[i].id,
                                        !.face = pending[i].face, !.model = model,
                                        !.name = name, !.own = own]]
    BY <1>2 DEF Approve
  <2>2. pending[i] \in Sighting
    BY ElementOfSeq, LenProperties DEF LibType
  <2>3. CallType'
    <3> DEFINE new == [NoCall EXCEPT !.at = "enroll", !.id = pending[i].id,
                                     !.face = pending[i].face, !.model = model,
                                     !.name = name, !.own = own]
    <3>1. pending[i].id \in Ids /\ pending[i].face \in Faces /\ model \in Models
      BY <2>2 DEF Sighting, LibType
    <3>2. new \in Calls /\ new.at = "enroll" /\ new.face \in Faces /\ new.name \in Names
      BY <3>1 DEF Calls, NoCall
    <3>3. call' = [call EXCEPT ![r] = new]
      BY <2>1
    <3> HIDE DEF new
    <3>4. /\ call' \in [Rpc -> Calls] /\ call'[r] = new
          /\ \A u \in Rpc : u # r => call'[u] = call[u]
      BY <1>0, <3>2, <3>3
    <3> QED BY <3>2, <3>3, <3>4 DEF CallType
  <2> QED BY <1>1, <1>2, <2>3, LibKept DEF Approve
<1>3. CASE ApproveEnroll(r)
  <2>1. call[r].name \in Names /\ call[r].face \in Faces /\ call[r].own \in BOOLEAN
    BY <1>0, <1>3 DEF ApproveEnroll, CallType, Calls
  <2> DEFINE filed == {IF call[r].model = model THEN call[r].face ELSE "stale"}
  <2>2. LibType'
    <3>1. filed \in SUBSET (Faces \cup {"stale"})
      BY <2>1
    <3>2. Enroll(call[r].name, filed, call[r].own)
      BY <1>3 DEF ApproveEnroll
    <3> HIDE DEF filed
    <3>3. people' \subseteq Names /\ owner' \subseteq people' /\ samples' \subseteq Filings
      BY <2>1, <3>1, <3>2, EnrollType
    <3> QED BY <1>0, <1>3, <3>3 DEF ApproveEnroll, LibType
  <2>3. CallType'
    BY <1>0, <1>3 DEF ApproveEnroll, CallType, Calls
  <2> QED BY <1>1, <2>2, <2>3
<1>4. CASE ApproveUpdate(r)
  <2>1. [name |-> call[r].name, face |-> call[r].face] \in Reviewed
    BY <1>4 DEF ApproveUpdate, CallType, Reviewed
  <2>2. pending' \in Seq(Sighting) /\ approved' \subseteq Reviewed
    BY <1>4, <2>1, WithoutRow DEF ApproveUpdate, LibType
  <2>3. LibType'
    BY <1>4, <2>2 DEF ApproveUpdate, LibType
  <2>4. CallType'
    BY <1>0, <1>4 DEF ApproveUpdate, CallType, NoCall
  <2> QED BY <1>1, <2>3, <2>4
<1>5. CASE Reject(r)
  <2>1. pending' \in Seq(Sighting)
    BY <1>5, WithoutRow, EmptyRows DEF Reject, LibType
  <2>2. LibType'
    BY <1>5, <2>1 DEF Reject, LibType
  <2> QED BY <1>1, <1>5, <2>2, CallsKept DEF Reject
<1>6. CASE SetOwner(r)
  <2>1. LibType'
    BY <1>6, OwnedType DEF SetOwner, LibType
  <2> QED BY <1>1, <1>6, <2>1, CallsKept DEF SetOwner
<1>7. CASE EnrollOwner(r) \/ EnrollLook(r)
  <2>1. ASSUME EnrollOwner(r) PROVE CallType'
    <3>1. PICK name \in Names :
            call' = [call EXCEPT ![r] = [NoCall EXCEPT !.at = "look", !.name = name]]
      BY <2>1 DEF EnrollOwner
    <3>2. [NoCall EXCEPT !.at = "look", !.name = name] \in Calls
      BY DEF Calls, NoCall, Models
    <3> QED BY <1>0, <2>1, <3>1, <3>2 DEF EnrollOwner, CallType, NoCall, libVars
  <2>2. ASSUME EnrollLook(r) PROVE CallType'
    <3>1. seen.faces \in SUBSET Faces
      BY DEF CamType, Seens
    <3>2. call' = [call EXCEPT ![r].got = @ \cup seen.faces]
      BY <2>2 DEF EnrollLook
    <3>3. [call[r] EXCEPT !.got = @ \cup seen.faces] \in Calls
      BY <1>0, <3>1 DEF Calls
    <3>4. /\ call' \in [Rpc -> Calls]
          /\ \A u \in Rpc : /\ call'[u].at = call[u].at /\ call'[u].face = call[u].face
                            /\ call'[u].name = call[u].name
      BY <1>0, <3>2, <3>3 DEF Calls
    <3> QED BY <3>2, <3>4 DEF CallType
  <2>3. CallType'
    BY <1>7, <2>1, <2>2
  <2>4. LibType'
    BY <1>7, LibKept DEF EnrollOwner, EnrollLook
  <2> QED BY <1>1, <2>3, <2>4
<1>8. CASE EnrollEnd(r)
  <2>1. call[r].name \in Names /\ call[r].got \in SUBSET Faces
    BY <1>0, <1>8 DEF EnrollEnd, CallType, Calls
  <2>2. LibType'
    BY <1>8, <2>1, EnrollType DEF EnrollEnd, LibType
  <2>3. CallType'
    BY <1>0, <1>8 DEF EnrollEnd, CallType, NoCall
  <2> QED BY <1>1, <2>2, <2>3
<1> QED BY <1>2, <1>3, <1>4, <1>5, <1>6, <1>7, <1>8 DEF Review, Proceed

LEMMA CrashType == ASSUME TypeInv, Crash PROVE TypeInv'
<1> USE DEF TypeInv
<1>1. Boot \in Cams /\ NoTrack \in Track /\ Nothing \in Seens /\ NoCall \in Calls
  BY ConstantsAssumption DEF Boot, Cams, CamPlaces, NoTrack, Track, Labels, Nothing, Seens,
     NoCall, Calls, Models
<1>2. CamType'
  BY <1>1 DEF Crash, CamType, Boot
<1>3. CallType'
  BY <1>1 DEF Crash, CallType, NoCall
<1>4. RestType'
  <2>1. cam.todo \subseteq Reviewed
    BY DEF CamType, Cams
  <2> QED BY <2>1, ConstantsAssumption DEF Crash, RestType
<1> QED BY <1>2, <1>3, <1>4 DEF Crash, LibType, Models

LEMMA StepType == TypeInv /\ [Next]_vars => TypeInv'
<1> SUFFICES ASSUME TypeInv, [Next]_vars PROVE TypeInv'
  OBVIOUS
<1>1. CASE UNCHANGED vars
  BY <1>1, LibKept, CamKept, CallsKept DEF vars, TypeInv, libVars, RestType
<1> QED BY <1>1, StartingType, FrameType, ReviewType, CrashType DEF Next, Camera

LEMMA TypeAlways == Spec => []TypeInv
BY InitType, StepType, PTL DEF Spec

\* Every variable keeps its type; in particular the owner is one of the people,
\* whoever enrols, chooses or rebuilds in between.
THEOREM TypeCorrect == Spec => []TypeOK
BY TypeAlways, TypeInvIsType, PTL

-----------------------------------------------------------------------------
(* Nobody waits twice *)

LEMMA DistinctStep == TypeInv /\ OneReviewEach /\ [Next]_vars => OneReviewEach'
<1> SUFFICES ASSUME TypeInv, DistinctFaces(pending), [Next]_vars PROVE DistinctFaces(pending')
  BY DEF OneReviewEach, DistinctFaces
<1>0. pending \in Seq(Sighting) /\ model \in Models
  BY DEF TypeInv, LibType
<1>1. CASE RecordFace
  BY <1>0, <1>1, RecordedRow DEF RecordFace, TypeInv, CamType
<1>2. ASSUME NEW r \in Rpc, ApproveUpdate(r) \/ Reject(r) PROVE DistinctFaces(pending')
  BY <1>0, <1>2, WithoutRow, EmptyRows DEF ApproveUpdate, Reject
<1>3. CASE pending' = pending
  BY <1>3
<1>4. \/ pending' = pending \/ RecordFace \/ \E r \in Rpc : ApproveUpdate(r) \/ Reject(r)
  BY DEF Next, Camera, Review, Proceed, StartVision, UseModel, CountSamples, ReadCrops, RebuildOne,
     RebuildEnd, PrepareFails, BeginFrame, JudgeFace, PublishFrame, TrackEnds, Approve,
     ApproveEnroll, SetOwner, EnrollOwner, EnrollLook, EnrollEnd, Crash, vars, libVars
<1> QED BY <1>1, <1>2, <1>3, <1>4

\* However the camera, the reviewers and crashes interleave, a face waits for
\* review in one row of each recogniser.
THEOREM NobodyWaitsTwice == Spec => []OneReviewEach
<1>1. Init => OneReviewEach
  BY DEF Init, OneReviewEach
<1> QED BY <1>1, DistinctStep, TypeAlways, PTL DEF Spec

-----------------------------------------------------------------------------
(* The rebuild *)

\* The engine's model is the library's from UseModel on.
ModelKnown == cam.at \notin {"boot", "models"} => model = "engine"

LEMMA ModelKnownStep == TypeInv /\ ModelKnown /\ [Next]_vars => ModelKnown'
<1> SUFFICES ASSUME TypeInv, ModelKnown, [Next]_vars PROVE ModelKnown'
  OBVIOUS
<1>0. cam \in Cams
  BY DEF TypeInv, CamType
<1>1. CASE Camera \/ \E f \in Faces : TrackEnds(f)
  BY <1>0, <1>1 DEF Camera, TrackEnds, StartVision, UseModel, CountSamples, ReadCrops, RebuildOne,
     RebuildEnd, PrepareFails, BeginFrame, JudgeFace, RecordFace, PublishFrame, libVars, ModelKnown,
     Cams
<1>2. ASSUME NEW r \in Rpc, Review(r) \/ Proceed(r) PROVE ModelKnown'
  BY <1>2 DEF Review, Proceed, Approve, Reject, SetOwner, EnrollOwner, EnrollLook, ApproveEnroll,
     ApproveUpdate, EnrollEnd, libVars, camVars, ModelKnown
<1>3. CASE Crash
  BY <1>3 DEF Crash, ModelKnown, Boot
<1>4. CASE UNCHANGED vars
  BY <1>4 DEF vars, libVars, camVars, ModelKnown
<1> QED BY <1>1, <1>2, <1>3, <1>4 DEF Next

\* Only visitors of the older recogniser wait, and nothing else was seen.
Untouched ==
    /\ \A i \in DOMAIN pending : pending[i].model = "placeholder"
    /\ seen.faces = {}
    /\ \A r \in Rpc : call[r].got = {} /\ call[r].model = "placeholder"

NoneStale == \A a \in samples : a.face # "stale"

Covered ==
    NoneStale =>
        \/ approved \subseteq samples \cup forgotten
        \/ Untouched /\ cam.at \in {"boot", "models", "count", "read"} /\ samples = {}
        \/ cam.at = "rebuild" /\ approved \subseteq samples \cup forgotten \cup cam.todo

LEMMA CoveredInit == Init => Covered /\ ModelKnown
<1> SUFFICES ASSUME Init PROVE Covered /\ ModelKnown
  OBVIOUS
<1>1. Untouched
  BY DEF Init, Untouched, Nothing, NoCall
<1> QED BY <1>1 DEF Init, Covered, ModelKnown, Boot

\* Samples are never taken away, and what is reviewed is filed or named.
LEMMA Kept ==
    ASSUME [Next]_vars, ~ReadCrops
    PROVE  /\ samples \subseteq samples'
           /\ samples \cup forgotten \subseteq samples' \cup forgotten'
           /\ approved' \subseteq approved \cup samples' \cup forgotten'
<1>1. CASE RebuildOne
  BY <1>1 DEF RebuildOne, Enroll
<1>2. CASE StartVision \/ UseModel \/ CountSamples \/ RebuildEnd \/ PrepareFails
  BY <1>2 DEF StartVision, UseModel, CountSamples, RebuildEnd, PrepareFails, libVars
<1>3. CASE BeginFrame \/ JudgeFace \/ RecordFace \/ PublishFrame \/ \E f \in Faces : TrackEnds(f)
  BY <1>3 DEF BeginFrame, JudgeFace, RecordFace, PublishFrame, TrackEnds, libVars
<1>4. ASSUME NEW r \in Rpc, Review(r) PROVE UNCHANGED <<samples, approved, forgotten>>
  BY <1>4 DEF Review, Approve, Reject, SetOwner, EnrollOwner, EnrollLook, libVars
<1>5. ASSUME NEW r \in Rpc, ApproveEnroll(r) \/ EnrollEnd(r)
      PROVE  /\ samples \subseteq samples' /\ forgotten \subseteq samples' \cup forgotten'
             /\ approved' = approved
  BY <1>5 DEF ApproveEnroll, EnrollEnd, Enroll
<1>6. ASSUME NEW r \in Rpc, ApproveUpdate(r)
      PROVE  /\ samples' = samples /\ forgotten \subseteq forgotten'
             /\ approved' \subseteq approved \cup samples' \cup forgotten'
  BY <1>6 DEF ApproveUpdate
<1>7. CASE Crash
  BY <1>7 DEF Crash
<1>8. CASE UNCHANGED vars
  BY <1>8 DEF vars, libVars
<1> QED BY <1>1, <1>2, <1>3, <1>4, <1>5, <1>6, <1>7, <1>8 DEF Next, Camera, Proceed

\* Until a frame was looked at, the reviewers can file nothing for the engine's
\* model but what the older recogniser made.
LEMMA UntouchedReview ==
    ASSUME TypeInv, Untouched, samples = {}, NEW r \in Rpc, Review(r) \/ Proceed(r), NoneStale'
    PROVE  Untouched' /\ samples' = {} /\ UNCHANGED cam
<1>0. /\ call \in [Rpc -> Calls] /\ call[r] \in Calls /\ call[r].got = {} /\ seen.faces = {}
      /\ pending \in Seq(Sighting)
  BY DEF TypeInv, CallType, Untouched, LibType
<1>1. UNCHANGED <<cam, seen>>
  BY DEF Review, Proceed, Approve, Reject, SetOwner, EnrollOwner, EnrollLook, ApproveEnroll,
     ApproveUpdate, EnrollEnd, camVars
<1>2. samples' = {}
  <2>1. CASE ApproveEnroll(r)
    <3>1. call[r].model = "placeholder" /\ call[r].name \in Names
      BY <2>1 DEF Untouched, ApproveEnroll, TypeInv, CallType
    <3>2. CASE model = "engine"
      <4>1. samples' = samples \cup [name : {call[r].name}, face : {"stale"}]
        BY <2>1, <3>1, <3>2 DEF ApproveEnroll, Enroll
      <4>2. [name |-> call[r].name, face |-> "stale"] \in samples'
        BY <4>1
      <4> QED BY <4>2 DEF NoneStale
    <3>3. CASE model # "engine"
      BY <2>1, <3>3 DEF ApproveEnroll, Enroll
    <3> QED BY <3>2, <3>3
  <2>2. CASE ~ApproveEnroll(r)
    BY <1>0, <2>2 DEF Review, Proceed, Approve, Reject, SetOwner, EnrollOwner, EnrollLook,
       ApproveUpdate, EnrollEnd, libVars
  <2> QED BY <2>1, <2>2
<1>3. \A i \in DOMAIN pending' : pending'[i].model = "placeholder"
  <2>1. CASE pending' = pending
    BY <2>1 DEF Untouched
  <2>2. CASE pending' = <<>>
    BY <2>2
  <2>3. ASSUME NEW id \in PendingIds, pending' = Without(id)
        PROVE  \A i \in DOMAIN pending' : pending'[i].model = "placeholder"
    BY <1>0, <2>3, WithoutRow DEF Untouched
  <2> QED BY <2>1, <2>2, <2>3 DEF Review, Proceed, Approve, Reject, SetOwner, EnrollOwner,
          EnrollLook, ApproveEnroll, ApproveUpdate, EnrollEnd, libVars
<1>4. \A u \in Rpc : u # r => call'[u] = call[u]
  BY <1>0 DEF Review, Proceed, Approve, Reject, SetOwner, EnrollOwner, EnrollLook,
     ApproveEnroll, ApproveUpdate, EnrollEnd
<1>5. call'[r].got = {} /\ call'[r].model = "placeholder"
  <2>0. call[r].got = {} /\ call[r].model = "placeholder"
    BY DEF Untouched
  <2>1. CASE Reject(r) \/ SetOwner(r)
    BY <2>0, <2>1 DEF Reject, SetOwner
  <2>2. CASE EnrollOwner(r)
    BY <1>0, <2>2 DEF EnrollOwner, NoCall
  <2>3. CASE EnrollEnd(r) \/ ApproveUpdate(r)
    <3>1. call' = [call EXCEPT ![r] = NoCall]
      BY <2>3 DEF EnrollEnd, ApproveUpdate
    <3> QED BY <1>0, <3>1 DEF NoCall
  <2>4. ~EnrollLook(r)
    BY <1>0, FS_EmptySet DEF EnrollLook
  <2>5. CASE ApproveEnroll(r)
    BY <1>0, <2>0, <2>5 DEF ApproveEnroll, Calls
  <2>6. CASE Approve(r)
    <3>1. PICK i \in DOMAIN pending, name \in Names, own \in BOOLEAN :
            /\ pending[i].model = model
            /\ call' = [call EXCEPT ![r] = [NoCall EXCEPT !.at = "enroll", !.id = pending[i].id,
                                            !.face = pending[i].face, !.model = model,
                                            !.name = name, !.own = own]]
      BY <2>6 DEF Approve
    <3>2. model = "placeholder"
      BY <3>1 DEF Untouched
    <3> QED BY <1>0, <3>1, <3>2 DEF NoCall
  <2> QED BY <2>1, <2>2, <2>3, <2>4, <2>5, <2>6 DEF Review, Proceed
<1> QED BY <1>0, <1>1, <1>2, <1>3, <1>4, <1>5 DEF Untouched

LEMMA CoveredStep == TypeInv /\ ModelKnown /\ Covered /\ [Next]_vars => Covered'
<1> SUFFICES ASSUME TypeInv, ModelKnown, Covered, [Next]_vars, NoneStale' PROVE Covered'
  BY DEF Covered
<1>0. cam \in Cams /\ call \in [Rpc -> Calls]
  BY DEF TypeInv, CamType, CallType
<1>1. CASE ReadCrops
  <2>1. cam'.at = "rebuild" /\ approved' \subseteq cam'.todo
    BY <1>0, <1>1 DEF ReadCrops, Cams, libVars
  <2> QED BY <2>1 DEF Covered
<1>2. CASE ~ReadCrops
  <2>0. /\ samples \subseteq samples' /\ NoneStale
        /\ samples \cup forgotten \subseteq samples' \cup forgotten'
        /\ approved' \subseteq approved \cup samples' \cup forgotten'
    BY <1>2, Kept DEF NoneStale
  <2>1. CASE approved \subseteq samples \cup forgotten
    BY <2>0, <2>1 DEF Covered
  <2>2. CASE Untouched /\ cam.at \in {"boot", "models", "count", "read"} /\ samples = {}
    <3>1. CASE StartVision \/ UseModel \/ CountSamples
      BY <1>0, <2>2, <3>1 DEF StartVision, UseModel, CountSamples, Covered, Untouched, Cams, libVars
    <3>2. CASE PrepareFails
      BY <2>2, <3>2 DEF PrepareFails, Covered, libVars
    <3>3. ASSUME NEW r \in Rpc, Review(r) \/ Proceed(r) PROVE Covered'
      BY <2>2, <3>3, UntouchedReview DEF Covered
    <3>4. CASE Crash
      BY <2>2, <3>4 DEF Crash, Covered, Untouched, Boot, Nothing, NoCall
    <3>5. CASE UNCHANGED vars
      BY <2>2, <3>5 DEF vars, libVars, camVars, Covered, Untouched
    <3> QED BY <1>2, <2>2, <3>1, <3>2, <3>3, <3>4, <3>5 DEF Next, Camera, RebuildOne, RebuildEnd,
        BeginFrame, JudgeFace, RecordFace, PublishFrame, TrackEnds
  <2>3. CASE cam.at = "rebuild" /\ approved \subseteq samples \cup forgotten \cup cam.todo
    <3>1. CASE RebuildOne
      <4>1. PICK a \in cam.todo :
              /\ cam' = [cam EXCEPT !.todo = @ \ {a}]
              /\ \/ Enroll(a.name, {a.face}, FALSE)
                 \/ /\ forgotten' = forgotten \cup ({a} \ samples)
                    /\ UNCHANGED <<people, owner, samples>>
        BY <3>1 DEF RebuildOne
      <4>2. a \in Reviewed /\ a.name \in Names /\ {a.face} \in SUBSET (Faces \cup {"stale"})
        BY <1>0 DEF Cams, Reviewed
      <4>3. a \in samples' \cup forgotten'
        <5>1. CASE Enroll(a.name, {a.face}, FALSE)
          <6>1. [name |-> a.name, face |-> a.face] \in samples'
            BY <2>3, <4>2, <5>1, EnrollType DEF TypeInv, ModelKnown
          <6> QED BY <4>2, <6>1 DEF Reviewed
        <5>2. CASE forgotten' = forgotten \cup ({a} \ samples) /\ UNCHANGED <<people, owner, samples>>
          BY <5>2
        <5> QED BY <4>1, <5>1, <5>2
      <4>4. cam'.at = "rebuild" /\ cam'.todo = cam.todo \ {a} /\ approved' = approved
        BY <1>0, <2>3, <3>1, <4>1 DEF RebuildOne, Cams
      <4> QED BY <2>0, <2>3, <4>3, <4>4 DEF Covered
    <3>2. CASE RebuildEnd \/ PrepareFails
      BY <2>0, <2>3, <3>2 DEF RebuildEnd, PrepareFails, Covered, libVars
    <3>3. ASSUME NEW r \in Rpc, Review(r) \/ Proceed(r) PROVE Covered'
      <4>1. cam' = cam
        BY <3>3 DEF Review, Proceed, Approve, Reject, SetOwner, EnrollOwner, EnrollLook,
           ApproveEnroll, ApproveUpdate, EnrollEnd, camVars
      <4> QED BY <2>0, <2>3, <4>1 DEF Covered
    <3>4. CASE Crash
      BY <2>3, <3>4 DEF Crash, Covered
    <3>5. CASE UNCHANGED vars
      BY <2>0, <2>3, <3>5 DEF vars, camVars, Covered
    <3> QED BY <1>2, <2>3, <3>1, <3>2, <3>3, <3>4, <3>5 DEF Next, Camera, StartVision, UseModel,
        CountSamples, BeginFrame, JudgeFace, RecordFace, PublishFrame, TrackEnds
  <2> QED BY <2>0, <2>1, <2>2, <2>3 DEF Covered
<1> QED BY <1>1, <1>2

\* A change of the recogniser forgets nobody who was reviewed, but for the
\* exceptions that RebuildCoversAll names.
THEOREM RebuildForgetsNobody == Spec => []RebuildCoversAll
<1>1. Covered => RebuildCoversAll
  BY DEF Covered, RebuildCoversAll, NoneStale
<1> QED BY <1>1, CoveredInit, CoveredStep, ModelKnownStep, TypeAlways, PTL DEF Spec

=============================================================================
