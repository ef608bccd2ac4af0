---------------------------- MODULE FaceLibrary -----------------------------
(***************************************************************************)
(* The face library and the camera thread (runtime/vision.py): who is      *)
(* known, who owns the room, which visitors wait for review, and what the  *)
(* camera makes of the faces it sees.                                      *)
(*                                                                         *)
(* The library is an SQLite file that survives a crash.  Each of its       *)
(* methods commits one transaction under FaceLibrary._lock, and is one     *)
(* step here; rebuild, approve and enroll_owner are made of several, with  *)
(* the camera thread and the RPC threads in between.                       *)
(*                                                                         *)
(* Embeddings are abstracted to the face they are of and the recogniser    *)
(* that made them: a face matches the names it was filed under, and no     *)
(* vector of the other recogniser.  A face that nobody has is unknown, or  *)
(* too near to somebody to tell.  Left out: liveness, clothes, zones,      *)
(* gestures, posture, samples that are learned (they file a face under a   *)
(* name it is filed under already) or curated away, the rows of visitors   *)
(* that were already reported, and an engine that fails to load.           *)
(***************************************************************************)
EXTENDS Naturals, Sequences, FiniteSets, SequencesExt

CONSTANTS
    Rpc,          \* threads that serve one RPC connection each
    Names,        \* the names people are enrolled under
    Configured,   \* config owner
    Faces,        \* the people the camera may see
    Ids,          \* ids of pending sightings
    MaxPending,   \* faces.max_pending
    Confirm,      \* faces.confirm_frames
    Requests,     \* the kinds of requests that can come
    Crashes       \* bound: how often the process may die

ASSUME ConstantsAssumption ==
    /\ Configured \in Names
    /\ MaxPending \in Nat \ {0} /\ Confirm \in Nat \ {0} /\ Crashes \in Nat
    /\ "nobody" \notin Names /\ "none" \notin Faces \cup Ids /\ "stale" \notin Faces

VARIABLES
    people,       \* table people: the names
    owner,        \* the rows of people with owner = 1
    samples,      \* table embeddings: the faces filed under a name, for the engine's model
    pending,      \* table sightings: unknown and unreported, oldest first
    approved,     \* table sightings: owner or known
    model,        \* FaceLibrary.model: the placeholder, or the engine's
    cam,          \* the camera thread
    track,        \* FaceTracks: the track of each face
    view,         \* who is in the frame that is looked at, and how
    seen,         \* VisionState: owner_visible, and the reviewable faces of the frame
    call,         \* what each RPC thread is doing
    forgotten,    \* history: reviewed faces the engine's model was not given, and lacks still
    crashes

libVars == <<people, owner, samples, pending, approved, model>>
camVars == <<cam, track, view, seen>>
vars == <<libVars, camVars, call, forgotten, crashes>>

-----------------------------------------------------------------------------
(* Values *)

Models    == {"placeholder", "engine"}
Reviewed  == [name : Names, face : Faces]
Filings   == [name : Names, face : Faces \cup {"stale"}]
Looks     == {"away", "side", "good"}
Sighting  == [id : Ids, face : Faces, model : Models]
Labels    == {"none", "owner", "known", "unknown"}
Track     == [label : Labels, name : Names \cup {"nobody"}, n : 0..Confirm,
              unsure : BOOLEAN, recorded : BOOLEAN]
NoTrack   == [label |-> "none", name |-> "nobody", n |-> 0, unsure |-> FALSE,
              recorded |-> FALSE]
CamPlaces == {"boot", "models", "count", "read", "rebuild", "frames", "faces", "record"}
Boot      == [at |-> "boot", todo |-> {}, owner |-> {}, queue |-> {}, face |-> "none",
              sawOwner |-> FALSE]
NoCall    == [at |-> "idle", id |-> "none", face |-> "none", model |-> "placeholder",
              name |-> "nobody", own |-> FALSE, got |-> {}]
Nothing   == [owner |-> FALSE, faces |-> {}]

TypeOK ==
    /\ people \subseteq Names /\ owner \subseteq people
    /\ samples \subseteq Filings /\ approved \subseteq Reviewed
    /\ pending \in Seq(Sighting)
    /\ model \in Models
    /\ cam \in [at : CamPlaces, todo : SUBSET Reviewed, owner : SUBSET Names,
                queue : SUBSET Faces, face : Faces \cup {"none"}, sawOwner : BOOLEAN]
    /\ track \in [Faces -> Track]
    /\ view \in [Faces -> Looks]
    /\ seen \in [owner : BOOLEAN, faces : SUBSET Faces]
    /\ call \in [Rpc -> [at : {"idle", "enroll", "update", "look"}, id : Ids \cup {"none"},
                         face : Faces \cup {"none"}, model : Models,
                         name : Names \cup {"nobody"}, own : BOOLEAN, got : SUBSET Faces]]
    /\ forgotten \subseteq Reviewed
    /\ crashes \in 0..Crashes

PendingIds == {pending[i].id : i \in DOMAIN pending}
Without(id) == RemoveAt(pending, CHOOSE i \in DOMAIN pending : pending[i].id = id)

-----------------------------------------------------------------------------
(* Transactions of the library *)

\* Mutant: the sample of a new name is kept, the name is not.
EnrollUnlisted(name, faces, own) ==
    /\ UNCHANGED people
    /\ owner' = IF own THEN {name} ELSE owner
    /\ samples' = samples \cup (IF model = "engine" THEN [name : {name}, face : faces] ELSE {})
    /\ forgotten' = forgotten \ samples'

\* enroll: only an explicit owner action changes who owns the room.
Enroll(name, faces, own) ==
    /\ people' = people \cup {name}
    /\ owner' = IF own THEN {name} ELSE owner
    /\ samples' = samples \cup (IF model = "engine" THEN [name : {name}, face : faces] ELSE {})
    /\ forgotten' = forgotten \ samples'

\* set_owner: an unknown name changes nothing.
Owned(name) == IF name \in people THEN {name} ELSE owner

NamesOf(f) == {n \in Names : [name |-> n, face |-> f] \in samples}

SomebodyKnown == \E a \in samples : a.face # "stale"

\* match: the best sample decides, and two names can have one; a face that
\* nobody has is a stranger's, or near somebody but not near enough.
Verdicts(f) ==
    {[status |-> IF n \in owner THEN "owner" ELSE "known", name |-> n] : n \in NamesOf(f)}
    \cup {[status |-> st, name |-> "nobody"] :
             st \in IF NamesOf(f) # {} THEN {}
                    ELSE IF SomebodyKnown THEN {"unknown", "uncertain"} ELSE {"unknown"}}

\* A new row at the end; the oldest beyond MaxPending goes, of whatever model.
\* Bound: an id is used again once no row and no call has it.
AddRow(f) ==
    LET free == Ids \ (PendingIds \cup {call[r].id : r \in Rpc})
        row  == [id |-> CHOOSE id \in free : TRUE, face |-> f, model |-> model]
        all  == Append(pending, row)
    IN  /\ free # {}
        /\ pending' = SubSeq(all, 1 + (IF Len(all) > MaxPending THEN 1 ELSE 0), Len(all))

Waits(f) == \E i \in DOMAIN pending : pending[i].face = f /\ pending[i].model = model

\* Mutant: what was reported before is not looked up.
RecordAlways(f) == AddRow(f)

\* record_sighting: folds a face that waits already, with this model's vector.
RecordSighting(f) == IF Waits(f) THEN UNCHANGED pending ELSE AddRow(f)

-----------------------------------------------------------------------------
(* Starting: the library's model is known once the engine has loaded, and  *)
(* an empty library is rebuilt from the crops of the reviewed sightings.   *)

\* Runtime.start: the configured owner is made the owner again.
StartVision ==
    /\ cam.at = "boot"
    /\ owner' = Owned(Configured)
    /\ cam' = [cam EXCEPT !.at = "models"]
    /\ UNCHANGED <<people, samples, pending, approved, model, track, view, seen, call,
                   forgotten, crashes>>

UseModel ==
    /\ cam.at = "models"
    /\ model' = "engine"
    /\ cam' = [cam EXCEPT !.at = "count"]
    /\ UNCHANGED <<people, owner, samples, pending, approved, track, view, seen, call,
                   forgotten, crashes>>

\* samples_for() == 0
CountSamples ==
    /\ cam.at = "count"
    /\ cam' = [cam EXCEPT !.at = IF samples = {} THEN "read" ELSE "frames"]
    /\ UNCHANGED <<libVars, track, view, seen, call, forgotten, crashes>>

ReadCrops ==
    /\ cam.at = "read"
    /\ cam' = [cam EXCEPT !.at = "rebuild", !.todo = approved, !.owner = owner]
    /\ forgotten' = {}
    /\ UNCHANGED <<libVars, track, view, seen, call, crashes>>

\* Mutant: only the owner's crops are embedded again.
RebuildOneOwner ==
    /\ cam.at = "rebuild" /\ cam.todo # {}
    /\ \E a \in cam.todo :
        /\ Enroll(a.name, IF a.name \in owner THEN {a.face} ELSE {}, FALSE)
        /\ cam' = [cam EXCEPT !.todo = @ \ {a}]
    /\ UNCHANGED <<pending, approved, model, track, view, seen, call, crashes>>

\* A row without a crop, or whose crop is gone or shows no face any more, is
\* passed over.
RebuildOne ==
    /\ cam.at = "rebuild" /\ cam.todo # {}
    /\ \E a \in cam.todo :
        /\ cam' = [cam EXCEPT !.todo = @ \ {a}]
        /\ \/ Enroll(a.name, {a.face}, FALSE)
           \/ forgotten' = forgotten \cup ({a} \ samples) /\ UNCHANGED <<people, owner, samples>>
    /\ UNCHANGED <<pending, approved, model, track, view, seen, call, crashes>>

\* An exception on the way is logged, and the frames go on all the same.
PrepareFails ==
    /\ cam.at \in {"read", "rebuild"}
    /\ forgotten' = forgotten \cup ((IF cam.at = "read" THEN approved ELSE cam.todo) \ samples)
    /\ cam' = [cam EXCEPT !.at = "frames", !.todo = {}, !.owner = {}]
    /\ UNCHANGED <<libVars, track, view, seen, call, crashes>>

\* Who was the owner when the rebuild began is made the owner again.
RebuildEnd ==
    /\ cam.at = "rebuild" /\ cam.todo = {}
    /\ owner' = IF cam.owner = {} THEN owner ELSE Owned(CHOOSE n \in cam.owner : TRUE)
    /\ cam' = [cam EXCEPT !.at = "frames", !.owner = {}]
    /\ UNCHANGED <<people, samples, pending, approved, model, track, view, seen, call,
                   forgotten, crashes>>

-----------------------------------------------------------------------------
(* One frame: _apply_analysis judges its faces one by one, then publishes. *)

BeginFrame ==
    /\ cam.at = "frames"
    /\ view' \in [Faces -> Looks]
    /\ cam' = [cam EXCEPT !.at = "faces", !.sawOwner = FALSE,
                          !.queue = {f \in Faces : view'[f] # "away"}]
    /\ UNCHANGED <<libVars, track, seen, call, forgotten, crashes>>

\* Mutant: a stranger stays one while he is tracked, too.
JudgedOnce(tr, verdict) ==
    IF tr.label \in {"owner", "unknown"} \/ tr.n = 0 THEN tr
    ELSE IF verdict.status \in {"owner", "known"}
    THEN [tr EXCEPT !.label = verdict.status, !.name = verdict.name, !.unsure = FALSE]
    ELSE IF verdict.status = "unknown" /\ tr.n >= Confirm
    THEN [tr EXCEPT !.label = "unknown", !.name = "nobody", !.unsure = FALSE]
    ELSE [tr EXCEPT !.unsure = verdict.status = "uncertain"]

\* Track.judge: once the owner, always the owner; anybody else is judged anew
\* with every frame, and is a stranger only after Confirm of them.  A verdict
\* that cannot tell leaves the label as it was.
Judged(tr, verdict) ==
    IF tr.label = "owner" \/ tr.n = 0 THEN tr
    ELSE IF verdict.status \in {"owner", "known"}
    THEN [tr EXCEPT !.label = verdict.status, !.name = verdict.name, !.unsure = FALSE]
    ELSE IF verdict.status = "unknown" /\ tr.n >= Confirm
    THEN [tr EXCEPT !.label = "unknown", !.name = "nobody", !.unsure = FALSE]
    ELSE [tr EXCEPT !.unsure = verdict.status = "uncertain"]

\* Mutant: only a face that is somebody's counts, turned or not.
CountsKnown(f) == {NamesOf(f) # {}}

\* A face that is turned counts only if it is clearly somebody known.
Counts(f) ==
    IF view[f] = "good" THEN {TRUE} ELSE IF NamesOf(f) = {} THEN {FALSE} ELSE BOOLEAN

\* Bound: samples beyond Confirm change nothing.
JudgeFace ==
    /\ cam.at = "faces"
    /\ \E f \in cam.queue : \E counts \in Counts(f), verdict \in Verdicts(f) :
        LET n == IF counts /\ track[f].n < Confirm THEN track[f].n + 1 ELSE track[f].n
            tr == Judged([track[f] EXCEPT !.n = n], verdict)
            records == tr.label = "unknown" /\ view[f] = "good" /\ ~tr.recorded
        IN /\ track' = [track EXCEPT ![f] = [tr EXCEPT !.recorded = @ \/ records]]
           /\ cam' = [cam EXCEPT !.queue = @ \ {f},
                                 !.sawOwner = @ \/ tr.label = "owner",
                                 !.at = IF records THEN "record" ELSE "faces",
                                 !.face = IF records THEN f ELSE "none"]
    /\ UNCHANGED <<libVars, view, seen, call, forgotten, crashes>>

RecordFace ==
    /\ cam.at = "record"
    /\ RecordSighting(cam.face)
    /\ cam' = [cam EXCEPT !.at = "faces", !.face = "none"]
    /\ UNCHANGED <<people, owner, samples, approved, model, track, view, seen, call,
                   forgotten, crashes>>

PublishFrame ==
    /\ cam.at = "faces" /\ cam.queue = {}
    /\ seen' = [owner |-> cam.sawOwner, faces |-> {f \in Faces : view[f] = "good"}]
    /\ cam' = [cam EXCEPT !.at = "frames"]
    /\ UNCHANGED <<libVars, track, view, call, forgotten, crashes>>

\* FaceTracks.assign drops a face that was away for track_seconds.
TrackEnds(f) ==
    /\ cam.at = "frames" /\ view[f] = "away" /\ track[f] # NoTrack
    /\ track' = [track EXCEPT ![f] = NoTrack]
    /\ UNCHANGED <<libVars, cam, view, seen, call, forgotten, crashes>>

-----------------------------------------------------------------------------
(* Review over RPC *)

Begin(r, kind) == kind \in Requests /\ call[r].at = "idle"

\* approve reads the row; a face of the other model can only be rejected.  Two
\* calls for the same row at once are left out.
Approve(r) ==
    /\ Begin(r, "approve")
    /\ \E i \in DOMAIN pending, name \in Names, own \in BOOLEAN :
        /\ pending[i].model = model
        /\ \A u \in Rpc : call[u].id # pending[i].id
        /\ call' = [call EXCEPT ![r] = [NoCall EXCEPT !.at = "enroll", !.id = pending[i].id,
                                        !.face = pending[i].face, !.model = model,
                                        !.name = name, !.own = own]]
    /\ UNCHANGED <<libVars, camVars, forgotten, crashes>>

\* The vector is filed for the model of now, whichever recogniser made it.
ApproveEnroll(r) ==
    /\ call[r].at = "enroll"
    /\ Enroll(call[r].name, {IF call[r].model = model THEN call[r].face ELSE "stale"}, call[r].own)
    /\ call' = [call EXCEPT ![r].at = "update"]
    /\ UNCHANGED <<pending, approved, model, camVars, crashes>>

\* A row that was rejected or evicted in between is gone.
ApproveUpdate(r) ==
    /\ call[r].at = "update"
    /\ LET reviewed == [name |-> call[r].name, face |-> call[r].face]
       IN IF call[r].id \in PendingIds
          THEN /\ pending' = Without(call[r].id)
               /\ approved' = approved \cup {reviewed}
               /\ forgotten' = forgotten \cup ({reviewed} \ samples)
          ELSE UNCHANGED <<pending, approved, forgotten>>
    /\ call' = [call EXCEPT ![r] = NoCall]
    /\ UNCHANGED <<people, owner, samples, model, camVars, crashes>>

\* reject and mark_reported take one pending row, reject_all every one.
Reject(r) ==
    /\ Begin(r, "reject")
    /\ \/ pending # <<>> /\ pending' = <<>>
       \/ \E id \in PendingIds : pending' = Without(id)
    /\ UNCHANGED <<people, owner, samples, approved, model, camVars, call, forgotten, crashes>>

SetOwner(r) ==
    /\ Begin(r, "set_owner")
    /\ \E name \in Names : owner' = Owned(name)
    /\ UNCHANGED <<people, samples, pending, approved, model, camVars, call, forgotten, crashes>>

\* enroll_owner watches the published frames for some seconds.
EnrollOwner(r) ==
    /\ Begin(r, "enroll_owner")
    /\ \E name \in Names :
        call' = [call EXCEPT ![r] = [NoCall EXCEPT !.at = "look", !.name = name]]
    /\ UNCHANGED <<libVars, camVars, forgotten, crashes>>

EnrollLook(r) ==
    /\ call[r].at = "look" /\ Cardinality(seen.faces) = 1
    /\ call' = [call EXCEPT ![r].got = @ \cup seen.faces]
    /\ UNCHANGED <<libVars, camVars, forgotten, crashes>>

EnrollEnd(r) ==
    /\ call[r].at = "look"
    /\ IF call[r].got = {} THEN UNCHANGED <<people, owner, samples, forgotten>>
       ELSE Enroll(call[r].name, call[r].got, TRUE)
    /\ call' = [call EXCEPT ![r] = NoCall]
    /\ UNCHANGED <<pending, approved, model, camVars, crashes>>

\* The process dies and is started again.
Crash ==
    /\ crashes < Crashes /\ crashes' = crashes + 1
    /\ forgotten' = forgotten \cup (cam.todo \ samples)
    /\ model' = "placeholder"
    /\ cam' = Boot
    /\ track' = [f \in Faces |-> NoTrack]
    /\ seen' = Nothing
    /\ call' = [r \in Rpc |-> NoCall]
    /\ UNCHANGED <<people, owner, samples, pending, approved, view>>

-----------------------------------------------------------------------------
(* The specification *)

\* The recogniser was changed: nothing is filed for the engine's model yet, and
\* visitors that the other one found may wait for review still.
Init ==
    /\ owner = {Configured}
    /\ samples = {}
    /\ pending \in SeqOf(Sighting, MaxPending)
    /\ \A i, j \in DOMAIN pending :
        /\ pending[i].model = "placeholder"
        /\ pending[i].id = pending[j].id \/ pending[i].face = pending[j].face => i = j
    /\ approved \in SUBSET Reviewed
    /\ people = owner \cup {a.name : a \in approved}
    /\ model = "placeholder"
    /\ cam = Boot
    /\ track = [f \in Faces |-> NoTrack]
    /\ view = [f \in Faces |-> "away"]
    /\ seen = Nothing
    /\ call = [r \in Rpc |-> NoCall]
    /\ forgotten = {} /\ crashes = 0

Camera ==
    \/ StartVision \/ UseModel \/ CountSamples \/ ReadCrops \/ RebuildOne \/ RebuildEnd
    \/ PrepareFails \/ BeginFrame \/ JudgeFace \/ RecordFace \/ PublishFrame

Review(r) ==
    \/ Approve(r) \/ Reject(r) \/ SetOwner(r) \/ EnrollOwner(r) \/ EnrollLook(r)

Proceed(r) == ApproveEnroll(r) \/ ApproveUpdate(r) \/ EnrollEnd(r)

Next ==
    \/ Camera \/ Crash
    \/ \E f \in Faces : TrackEnds(f)
    \/ \E r \in Rpc : Review(r) \/ Proceed(r)

Spec == Init /\ [][Next]_vars

\* The camera thread and the calls go on.
Fairness == WF_vars(Camera) /\ \A r \in Rpc : WF_vars(Proceed(r))

FairSpec == Spec /\ Fairness

-----------------------------------------------------------------------------
(* Properties *)

\* Nobody waits for review twice, but for visitors of the other recogniser, who
\* are not recognised by this one.
OneReviewEach ==
    \A i, j \in DOMAIN pending :
        pending[i].face = pending[j].face /\ pending[i].model = pending[j].model => i = j

\* After a change of the recogniser nobody has to be enrolled again: every
\* reviewed face is known when the camera looks at its first frame.  The named
\* exceptions: the faces the last rebuild passed over for want of a usable crop,
\* or did not come to because it failed or died (no later start catches up with
\* them); those reviewed while the library still had the placeholder's model;
\* and all of them, when such a review was filed for the engine's model after
\* all: the library is not empty then, and no rebuild is made.
RebuildCoversAll ==
    /\ cam.at \in {"frames", "faces", "record"}
    /\ \A a \in samples : a.face # "stale"
    => approved \subseteq samples \cup forgotten

\* The owner who stays in front of the camera is recognised at last, also when
\* he was taken for a visitor before his face was filed.
OwnerIsSeen ==
    \A f \in Faces :
        <>[](view[f] = "good" /\ NamesOf(f) = owner) => <>[]seen.owner

\* A visitor who stays in front of the camera is offered for review, unless he is
\* taken for "could not tell" again and again: his track does not stay unjudged
\* for ever.
VisitorIsFiled ==
    \A f \in Faces : ~<>[](/\ view[f] = "good" /\ NamesOf(f) = {}
                           /\ ~track[f].recorded /\ ~track[f].unsure
                           /\ cam.at \in {"frames", "faces", "record"})

=============================================================================
