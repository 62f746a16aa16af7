---------------------------- MODULE FilterWindow ----------------------------
(***************************************************************************)
(* One camera measurement on its way through the OpenVINS filter           *)
(* (VioManager::track_image_and_update and do_feature_propagate_update):   *)
(* the tracker's feature database, the zero-velocity update, the window of *)
(* clones, the MSCKF and SLAM updates, anchors and marginalisation.        *)
(*                                                                         *)
(* The update worker is the only caller, so the steps of one measurement   *)
(* follow one another.  What an estimator decides from real numbers (is a  *)
(* feature tracked, does a triangulation or a gate accept it, does the     *)
(* platform stand still) is a free choice.  A measurement of a feature is  *)
(* its time; one stream of messages shows it, in one or both images.       *)
(***************************************************************************)
EXTENDS Integers, FiniteSets

CONSTANTS
    Points,        \* KLT features: an identifier never returns once it is lost
    Corners,       \* corners of ArUco tags: they may leave and return
    Cams,          \* camera streams: single cameras, or one of pairs
    CamOf,         \* the stream that shows a feature
    Views,         \* most images of one message that show a feature: 2 for a pair
    MaxTime,       \* bound: times are 1..MaxTime
    MaxCloneSize,  \* state_options.max_clone_size
    MaxSlam,       \* state_options.max_slam_features
    MaxMsckf,      \* state_options.max_msckf_in_update
    SlamDelay,     \* params.dt_slam_delay
    MinMeas,       \* times a SLAM update needs: 2 for single inverse depth
    TryZupt,       \* params.try_zupt
    ZuptOnlyAtBeginning  \* params.zupt_only_at_beginning

Feats == Points \cup Corners
Times == 1..MaxTime

ASSUME WindowAssumption ==
    /\ IsFiniteSet(Feats) /\ Points \cap Corners = {}
    /\ CamOf \in [Feats -> Cams] /\ Cams \subseteq Nat
    /\ MaxTime \in Nat /\ MaxCloneSize \in Nat \ {0} /\ MaxSlam \in Nat
    /\ MaxMsckf \in Nat /\ SlamDelay \in Nat
    /\ Views \in {1, 2} /\ MinMeas \in {1, 2} /\ Views + MinMeas <= 3
    /\ TryZupt \in BOOLEAN /\ ZuptOnlyAtBeginning \in BOOLEAN

VARIABLES
    pc,           \* the step the measurement has reached
    message,      \* its camera and time
    timestamp,    \* state->_timestamp
    clones,       \* the keys of state->_clones_IMU
    slam,         \* state->_features_SLAM
    db,           \* measurement times of each feature in its tracker's database
    klt,          \* Points: not seen yet, tracked, or lost
    work,         \* the feature lists of the current update
    moved,        \* has_moved_since_zupt
    zupt,         \* did_zupt_update, last_zupt_state_timestamp, last_zupt_count
    used,         \* measurements that entered an update (history)
    reused        \* one of them entered an update again (history)

vars == <<pc, message, timestamp, clones, slam, db, klt, work, moved, zupt,
          used, reused>>

NoWork == [msckf |-> {}, update |-> {}, twice |-> {}, delayed |-> {}]

Smaller(a, b) == IF a < b THEN a ELSE b

\* The newest image of the camera that sees a feature, when message is the last
\* that was handled.
NewestImage(f) == IF CamOf[f] <= message.cam THEN message.ts ELSE message.ts - 1

Least(S)  == CHOOSE t \in S : \A u \in S : t <= u
Newest(S) == CHOOSE t \in S : \A u \in S : u <= t
margtimestep == Least(clones)

\* The clones of the catch-up over the first n images that waited: every CloneRate-th.
CloneRate(n) == n \div MaxCloneSize + 1
CatchUp(n) == {1 + i * CloneRate(n) : i \in 0..(MaxCloneSize - 1)} \cap 1..n

\* try_to_initialize leaves no clone, or those of the images that arrived while its
\* thread was running; the trackers went on meanwhile, and until its success is seen.
Init ==
    /\ pc = "idle" /\ work = NoWork /\ moved \in BOOLEAN
    /\ \E c \in Cams, images \in 0..MaxTime : \E late \in 0..images :
        /\ message = [cam |-> c, ts |-> images]
        /\ clones = CatchUp(late)
    /\ timestamp = IF clones = {} THEN 0 ELSE Newest(clones)
    /\ slam = [f \in {} |-> 0]
    /\ \E first, last \in [Points -> 1..(message.ts + 1)] :
        db = [f \in Feats |-> IF f \in Points
                             THEN first[f]..Smaller(last[f], NewestImage(f)) ELSE {}]
    /\ klt = [f \in Points |-> IF db[f] = {} THEN "new"
                              ELSE IF NewestImage(f) \in db[f] THEN "tracked" ELSE "lost"]
    /\ zupt = [did |-> FALSE, last |-> 0, count |-> 0]
    /\ used = [f \in Feats |-> {}] /\ reused = FALSE

------------------------------------------------------------------------------
(* Tracking and the zero-velocity update *)

\* Does track_image_and_update ask for a zero-velocity update?
WantsZupt == TryZupt /\ (~ZuptOnlyAtBeginning \/ ~moved)

\* feed_new_camera: the trackers add the measurements of what they see.
FeedNewCamera(c, t, seen) ==
    /\ pc = "idle"
    /\ message.ts < t \/ (message.ts = t /\ message.cam < c)
    /\ message' = [cam |-> c, ts |-> t]
    /\ \A f \in seen : CamOf[f] = c /\ (f \in Points => klt[f] # "lost")
    /\ db' = [f \in Feats |-> IF f \in seen THEN db[f] \cup {t} ELSE db[f]]
    /\ klt' = [f \in Points |-> IF f \in seen THEN "tracked"
                                ELSE IF CamOf[f] = c /\ klt[f] = "tracked"
                                     THEN "lost" ELSE klt[f]]
    /\ pc' = IF WantsZupt THEN "zupt" ELSE "propagate"
    /\ UNCHANGED <<timestamp, clones, slam, work, moved, zupt, used, reused>>

\* Mutant of KeepDecision: the decision is not kept for the second camera.
KeepDecisionNever == FALSE

\* If the state is already at this time, the previous decision holds.
KeepDecision == zupt.did

ZuptAgain ==
    /\ pc = "zupt" /\ timestamp = message.ts
    /\ pc' = IF KeepDecision THEN "idle" ELSE "propagate"
    /\ UNCHANGED <<message, timestamp, clones, slam, db, klt, work, moved, zupt,
                   used, reused>>

\* cleanup_measurements_exact: all measurements of one time, of KLT features.
WithoutTime(t) == [f \in Feats |-> IF f \in Points THEN db[f] \ {t} ELSE db[f]]

\* try_update accepts: no clone is made, the state moves to the new time.
ZuptAccept ==
    /\ pc = "zupt" /\ timestamp # message.ts
    /\ db' = IF zupt.count >= 2 THEN WithoutTime(zupt.last) ELSE db
    /\ timestamp' = message.ts
    /\ zupt' = [did |-> TRUE, last |-> message.ts,
                count |-> Smaller(zupt.count + 1, 2)]
    /\ pc' = "idle"
    /\ UNCHANGED <<message, clones, slam, klt, work, moved, used, reused>>

\* Rejected by the gate, or returned early for want of inertial readings: the
\* early return resets the time but not the count.
ZuptReject ==
    /\ pc = "zupt" /\ timestamp # message.ts
    /\ \E count \in {0, zupt.count} :
           zupt' = [did |-> FALSE, last |-> 0, count |-> count]
    /\ pc' = "propagate"
    /\ UNCHANGED <<message, timestamp, clones, slam, db, klt, work, moved,
                   used, reused>>

------------------------------------------------------------------------------
(* Propagation *)

\* No propagation is needed, or none is possible.
AlreadyThere == timestamp >= message.ts

\* augment_clone, after the state has moved to the measurement.
CloneHere == clones \cup {message.ts}

\* propagate_and_clone, which exits when asked to stand still or go back, and
\* augment_clone, which exits when the clone exists.
Propagate ==
    /\ pc = "propagate"
    /\ IF AlreadyThere
       THEN UNCHANGED <<timestamp, clones>>
       ELSE timestamp' = message.ts /\ clones' = CloneHere
    /\ pc' = IF timestamp > message.ts THEN "idle"
             ELSE IF ~AlreadyThere /\ message.ts \in clones THEN "exit"
             ELSE IF Cardinality(clones') < Smaller(MaxCloneSize, 5) THEN "idle"
             ELSE "select"
    /\ moved' = (moved \/ pc' = "select")
    /\ UNCHANGED <<message, slam, db, klt, work, zupt, used, reused>>

------------------------------------------------------------------------------
(* Choosing features *)

\* Seen by this camera, but not in the newest image.
FeatsLost == {f \in Points : /\ db[f] # {} /\ \A t \in db[f] : t < timestamp
                             /\ CamOf[f] = message.cam}

WindowIsFull == Cardinality(clones) > MaxCloneSize \/ Cardinality(clones) > 5

\* features_containing(margtimestep)
AtMargTime(S) == IF WindowIsFull THEN {f \in S : margtimestep \in db[f]} ELSE {}

\* Tracked longer than the window: candidates for a SLAM landmark.  The images of
\* a pair are counted apart, so that a track may be too short in both.
MaxTracks == {f \in AtMargTime(Points) : Cardinality(db[f]) > MaxCloneSize}

\* Mutant of RoomForSlam: forgets the landmarks that are there.
RoomForSlamAll == IF message.ts >= SlamDelay THEN MaxSlam ELSE 0

\* How many point landmarks may still be added.
RoomForSlam ==
    IF message.ts >= SlamDelay
    THEN MaxSlam - Cardinality(DOMAIN slam \cap Points) ELSE 0

\* Landmarks that have lost tracking or have failed twice; never corners.
Finished ==
    {f \in DOMAIN slam \cap Points :
        \/ (db[f] = {} /\ CamOf[f] = message.cam)
        \/ slam[f].fail_count > 1}

\* Corners whose oldest measurement is about to leave the window.
CornersAtMarg == IF message.ts >= SlamDelay THEN AtMargTime(Corners) ELSE {}

\* Longest tracks first, at most MaxMsckf of them; a time counts once for each
\* image that showed the feature.
IsBest(best, S) ==
    /\ best \subseteq S
    /\ Cardinality(best) = Smaller(Cardinality(S), MaxMsckf)
    /\ \A f \in best, g \in S \ best : Cardinality(db[g]) <= Views * Cardinality(db[f])

\* Mutant of MsckfCandidates: keeps the tracks given to SLAM.
MsckfCandidatesAll(new) == FeatsLost \cup AtMargTime(Points)

\* What remains for the MSCKF update when new are to become landmarks.
MsckfCandidates(new) == (FeatsLost \cup AtMargTime(Points)) \ new

\* Everything up to the sorted and truncated MSCKF list, with
\* StateHelper::marginalize_slam on the way.
SelectFeatures ==
    /\ pc = "select"
    /\ \E new \in SUBSET MaxTracks, best \in SUBSET Feats :
        LET listed == {f \in DOMAIN slam : db[f] # {}}
            kept == DOMAIN slam \ Finished
            chosen == CornersAtMarg \cup new \cup listed
            room == IF RoomForSlam > 0 THEN RoomForSlam ELSE 0
        IN  /\ Cardinality(new) <= room
            /\ Views = 1 => Cardinality(new) = Smaller(Cardinality(MaxTracks), room)
            /\ IsBest(best, MsckfCandidates(new))
            /\ slam' = [f \in kept |-> slam[f]]
            /\ work' = [msckf |-> best,
                        update |-> chosen \cap kept,
                        twice |-> CornersAtMarg \cap listed \cap kept,
                        delayed |-> chosen \ kept]
    /\ pc' = "update"
    /\ UNCHANGED <<message, timestamp, clones, db, klt, moved, zupt, used, reused>>

------------------------------------------------------------------------------
(* The updates *)

\* Feature::clean_old_measurements: only times with a clone are usable.
Usable(f) == db[f] \cap clones

\* Two measurements, at two times or in both images of one.
Triangulable(f) == Views * Cardinality(Usable(f)) >= 2

\* UpdaterMSCKF::update.  Every candidate is marked for deletion; those that
\* triangulate and pass the gate enter the update.
UpdateMsckf ==
    /\ pc = "update"
    /\ \E taken \in SUBSET {f \in work.msckf : Triangulable(f)} :
        /\ reused' = (reused \/ \E f \in taken : Usable(f) \cap used[f] # {})
        /\ used' = [f \in Feats |-> IF f \in taken THEN used[f] \cup Usable(f)
                                    ELSE used[f]]
    /\ pc' = "slam"
    /\ UNCHANGED <<message, timestamp, clones, slam, db, klt, work, moved, zupt>>

\* A landmark that fails its gate counts the failure.  The count is read for
\* points only (the code counts for three of a tag's corners too), so it is kept
\* for points.
FailCount(f) ==
    IF f \in Points THEN Smaller(slam[f].fail_count + 1, 2) ELSE slam[f].fail_count

\* UpdaterSLAM::update, over all batches of feats_slam_UPDATE.  A feature that
\* was listed twice enters the system twice.
UpdateSlam ==
    /\ pc = "slam"
    /\ LET measured == {f \in work.update : Cardinality(Usable(f)) >= MinMeas}
       IN \E taken \in SUBSET measured :
        /\ reused' = (reused \/ \E f \in taken : Usable(f) \cap used[f] # {}
                             \/ taken \cap work.twice # {})
        /\ used' = [f \in Feats |-> IF f \in taken THEN used[f] \cup Usable(f)
                                    ELSE used[f]]
        /\ slam' = [f \in DOMAIN slam |->
                       IF f \in measured \ taken
                       THEN [slam[f] EXCEPT !.fail_count = FailCount(f)]
                       ELSE slam[f]]
    /\ pc' = "delayed"
    /\ UNCHANGED <<message, timestamp, clones, db, klt, work, moved, zupt>>

\* UpdaterSLAM::delayed_init: a feature that triangulates and passes the gate
\* becomes a landmark, anchored at its newest usable measurement.
DelayedInit ==
    /\ pc = "delayed"
    /\ \E taken \in SUBSET {f \in work.delayed : Triangulable(f)} :
        /\ reused' = (reused \/ \E f \in taken : Usable(f) \cap used[f] # {})
        /\ used' = [f \in Feats |-> IF f \in taken THEN used[f] \cup Usable(f)
                                    ELSE used[f]]
        /\ slam' = [f \in DOMAIN slam \cup taken |->
                       IF f \in taken
                       THEN [anchor |-> Newest(Usable(f)), fail_count |-> 0]
                       ELSE slam[f]]
    /\ pc' = "cleanup"
    /\ UNCHANGED <<message, timestamp, clones, db, klt, work, moved, zupt>>

------------------------------------------------------------------------------
(* Cleanup and marginalisation *)

\* Features handed to an updater carry to_delete, but for those that wait for
\* a second measurement.
Deletable ==
    work.msckf \cup work.delayed
    \cup {f \in work.update : Cardinality(Usable(f)) \notin 1..(MinMeas - 1)}

\* What a landmark keeps for a later update are measurements at clones.
Cleanup ==
    /\ pc = "cleanup"
    /\ db' = [f \in Feats |-> IF f \in Deletable THEN {}
                             ELSE IF f \in work.update THEN Usable(f) ELSE db[f]]
    /\ work' = NoWork
    /\ pc' = "anchors"
    /\ UNCHANGED <<message, timestamp, clones, slam, klt, moved, zupt, used, reused>>

\* Mutant of AnchorsToMove: none is moved.
AnchorsToMoveNone == {}

\* Landmarks anchored in the clone that is about to be marginalised.
AnchorsToMove == {f \in DOMAIN slam : slam[f].anchor = margtimestep}

\* UpdaterSLAM::change_anchors: to the clone of the newest measurement, which
\* has to be there.
ChangeAnchors ==
    /\ pc = "anchors"
    /\ IF Cardinality(clones) <= MaxCloneSize
       THEN pc' = "idle" /\ UNCHANGED slam
       ELSE IF AnchorsToMove # {} /\ timestamp \notin clones
       THEN pc' = "exit" /\ UNCHANGED slam
       ELSE /\ slam' = [f \in DOMAIN slam |->
                           IF f \in AnchorsToMove
                           THEN [slam[f] EXCEPT !.anchor = timestamp]
                           ELSE slam[f]]
            /\ pc' = "marg"
    /\ UNCHANGED <<message, timestamp, clones, db, klt, work, moved, zupt,
                   used, reused>>

\* Mutant of Outlived: measurements at the boundary stay.
OutlivedBefore(t) == t < margtimestep

\* cleanup_measurements(margtimestep) removes this time too.
Outlived(t) == t <= margtimestep

\* cleanup_measurements of both databases, then marginalize_old_clone.
MarginalizeOldClone ==
    /\ pc = "marg"
    /\ db' = [f \in Feats |-> {t \in db[f] : ~Outlived(t)}]
    /\ clones' = clones \ {margtimestep}
    /\ pc' = "idle"
    /\ UNCHANGED <<message, timestamp, slam, klt, work, moved, zupt, used, reused>>

Next ==
    \/ \E c \in Cams, t \in Times, seen \in SUBSET Feats : FeedNewCamera(c, t, seen)
    \/ ZuptAgain \/ ZuptAccept \/ ZuptReject
    \/ Propagate \/ SelectFeatures
    \/ UpdateMsckf \/ UpdateSlam \/ DelayedInit
    \/ Cleanup \/ ChangeAnchors \/ MarginalizeOldClone

Spec == Init /\ [][Next]_vars
------------------------------------------------------------------------------
(* Properties *)

TypeOK ==
    /\ pc \in {"idle", "zupt", "propagate", "select", "update", "slam", "delayed",
               "cleanup", "anchors", "marg", "exit"}
    /\ timestamp \in 0..MaxTime /\ clones \subseteq Times
    /\ DOMAIN slam \subseteq Feats
    /\ \A f \in DOMAIN slam : slam[f].anchor \in Times /\ slam[f].fail_count \in 0..2
    /\ db \in [Feats -> SUBSET Times]

\* The filter never asks StateHelper for what makes it exit the process (a
\* second clone at one time, an anchor in a clone that is not there), and an
\* update runs at a time that has a clone, also when the second camera of an
\* instant arrives, after standing still and after early returns
\* (retriangulate_active_tracks asserts it).
UpdatesAtClone ==
    /\ pc # "exit"
    /\ pc \in {"select", "update", "slam", "delayed", "cleanup", "anchors", "marg"}
        => timestamp = message.ts /\ message.ts \in clones

\* A measurement corrects the state once: no feature enters a second update
\* with a measurement that was in an earlier one, whichever updater it was
\* ("we don't want to reuse information").
InformationUsedOnce == ~reused

\* The anchor of every landmark is a clone of the window, also while clones are
\* being replaced; the updaters look it up with at().
AnchorsInWindow == \A f \in DOMAIN slam : slam[f].anchor \in clones

\* Over any history the filter stays within its limits: max_clone_size clones
\* between measurements, max_slam_features points in the state, and no landmark
\* that failed its gate twice is taken into another update.
Bounded ==
    /\ TypeOK
    /\ Cardinality(clones) <= MaxCloneSize + 1
    /\ pc = "idle" => Cardinality(clones) <= MaxCloneSize
    /\ Cardinality(DOMAIN slam \cap Points) <= MaxSlam
    /\ pc = "update" => \A f \in DOMAIN slam \cap Points : slam[f].fail_count < 2

\* A clone that leaves the window takes its measurements with it, those of
\* corners and of features that were never selected included; a later update
\* would look them up among the clones.
ClonesTakeMeasurements ==
    [][\A t \in clones \ clones' : \A f \in Feats : t \notin db'[f]]_vars
==============================================================================
