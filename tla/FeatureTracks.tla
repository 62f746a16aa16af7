--------------------------- MODULE FeatureTracks ---------------------------
(***************************************************************************)
(* How the trackers of ov_core give feature ids to image points:           *)
(* TrackKLT, TrackDescriptor and TrackAruco, for one camera, for two       *)
(* cameras tracked on their own in two worker threads (binocular), and for *)
(* a stereo pair.                                                          *)
(*                                                                         *)
(* A point is an id and the cell it lies in of the grid with which the     *)
(* tracker keeps points apart (grid_2d_close).  What an image shows is     *)
(* free: which cells hold a corner, where a point moves, which points are  *)
(* lost, masked or outside, and which descriptors match.                   *)
(***************************************************************************)
EXTENDS Integers, FiniteSets

CONSTANTS
    Cells,        \* cells of grid_2d_close
    NumFeatures,  \* num_features
    MinMatches,   \* points needed for RANSAC, 10 in the code
    NumAruco,     \* num_aruco
    Tags,         \* tags the dictionary of the detector has
    Kinds,        \* the trackers configured: subset of {"KLT", "ORB", "ARUCO"}
    Modes,        \* subset of {"mono", "binocular", "stereo"}
    MaxImages,    \* bound of the model: messages fed
    MaxIds,       \* bound of the model: ids given before the last detection
    MaxPairs,     \* bound of the model: pairs TrackDescriptor matches
    MaxMasked     \* bound of the model: corners of tags masked in an image

ASSUME CountsAssumption ==
    NumFeatures \in Nat /\ MinMatches \in Nat /\ NumAruco \in Nat

ASSUME BoundAssumption == MaxImages \in Nat /\ MaxMasked \in Nat

ASSUME ConfigAssumption ==
    /\ Kinds \subseteq {"KLT", "ORB", "ARUCO"}
    /\ Modes \subseteq {"mono", "binocular", "stereo"}

(***************************************************************************)
(* The dictionary has at most num_aruco tags, as with the default of 1024  *)
(* and the dictionary of 1000 tags.  The test of TrackAruco, which lets    *)
(* the tag num_aruco pass, does not keep ids apart without it.             *)
(***************************************************************************)
ASSUME TagsAssumption == \A tag \in Tags : tag \in Nat /\ tag < NumAruco

VARIABLES
    kind, mode,   \* the configured tracker, fixed
    pc,           \* where the worker of each camera is
    points,       \* pts_last and ids_last of each camera
    work,         \* pts0/ids0 and pts1/ids1 of the running detection
    todo,         \* cells of the corners found and not yet numbered
    currid,       \* the last id given
    images,       \* messages fed
    seen          \* history: every id a camera has held

vars == <<kind, mode, pc, points, work, todo, currid, images, seen>>

Cams == {0, 1}
Ids(S) == {p.id : p \in S}
CellsOf(S) == {p.cell : p \in S}

\* Mutant of FirstId: the counter starts behind the tags, not behind their corners.
FirstIdTags == NumAruco + 1

FirstId == 4 * NumAruco + 1

\* The ids in use.
Held == UNION {Ids(points[c]) \cup Ids(work[c]) : c \in Cams}

\* Mutant of NextId: the least id no camera holds is given again.
NextIdFree == CHOOSE i \in FirstId + 1 .. currid + 1 :
                  i \notin Held /\ FirstId + 1 .. i - 1 \subseteq Held

NextId == currid + 1

\* The cameras a message has images of.
Fed == IF mode = "mono" THEN {0} ELSE Cams

Init ==
    /\ kind \in Kinds
    /\ mode \in Modes
    /\ pc = [c \in Cams |-> "idle"]
    /\ points = [c \in Cams |-> {}]
    /\ work = [c \in Cams |-> {}]
    /\ todo = [c \in Cams |-> {}]
    /\ currid = FirstId
    /\ images = 0
    /\ seen = {}

(***************************************************************************)
(* A message with one or two images: each camera tracks on its own, or the *)
(* right one waits for the left (tags are always tracked by image).        *)
(* TrackDescriptor starts from no points, TrackKLT from the last ones.     *)
(***************************************************************************)
FeedNewCamera ==
    /\ \A c \in Cams : pc[c] = "idle"
    /\ images < MaxImages
    /\ images' = images + 1
    /\ pc' = [c \in Cams |-> IF c \notin Fed THEN "idle"
                             ELSE IF mode # "stereo" \/ kind = "ARUCO" THEN "detect"
                             ELSE IF kind = "ORB" THEN "pair"
                             ELSE IF c = 0 THEN "detect" ELSE "wait"]
    /\ work' = [c \in Cams |-> IF kind = "KLT" /\ c \in Fed THEN points[c] ELSE {}]
    /\ UNCHANGED <<kind, mode, points, todo, currid, seen>>

(***************************************************************************)
(* Detection.                                                              *)
(***************************************************************************)
Least(a, b) == IF a < b THEN a ELSE b
Half == Least(20, NumFeatures \div 2)
HasRoom(kept) == IF mode = "stereo" THEN NumFeatures - Cardinality(kept) > Half
                                    ELSE NumFeatures - Cardinality(kept) >= Half

\* In the right image a point the left image has too stays, even beside another.
MayMeet(c, p, q) ==
    /\ mode = "stereo"
    /\ c = 1
    /\ p.id \in Ids(work[0]) \/ q.id \in Ids(work[0])

\* Mutant of Apart: the grid is not looked at for the points of the last image.
ApartNot(c, S) == TRUE

Apart(c, S) == \A p, q \in S : p.cell = q.cell => p = q \/ MayMeet(c, p, q)

\* TrackKLT drops points that left the image or lie too close, and fills up.
DetectKlt(c) ==
    /\ kind = "KLT"
    /\ pc[c] = "detect"
    /\ \E kept \in SUBSET work[c] :
        /\ Apart(c, kept)
        /\ work' = [work EXCEPT ![c] = kept]
        /\ \E found \in SUBSET (Cells \ CellsOf(kept)) :
            /\ HasRoom(kept) \/ found = {}
            /\ currid + Cardinality(found) <= FirstId + MaxIds
            /\ todo' = [todo EXCEPT ![c] = found]
    /\ pc' = [pc EXCEPT ![c] = "number"]
    /\ UNCHANGED <<kind, mode, points, currid, images, seen>>

\* TrackDescriptor extracts every image anew.
DetectDescriptor(c) ==
    /\ kind = "ORB"
    /\ pc[c] = "detect"
    /\ \E found \in SUBSET Cells :
        /\ currid + Cardinality(found) <= FirstId + MaxIds
        /\ todo' = [todo EXCEPT ![c] = found]
    /\ pc' = [pc EXCEPT ![c] = "number"]
    /\ UNCHANGED <<kind, mode, points, work, currid, images, seen>>

(***************************************************************************)
(* One corner gets its id: ++currid, atomic, with the two workers of       *)
(* binocular tracking interleaved.  Of a stereo pair the right image may   *)
(* show the corner of the left one, anywhere; then both get the one id.    *)
(***************************************************************************)
Number(c) ==
    /\ pc[c] = "number"
    /\ \E cell \in todo[c] :
        LET left == [id |-> NextId, cell |-> cell] IN
        /\ todo' = [todo EXCEPT ![c] = @ \ {cell}]
        /\ \/ work' = [work EXCEPT ![c] = @ \cup {left}]
           \/ /\ mode = "stereo" /\ c = 0
              /\ \E r \in Cells :
                    work' = [d \in Cams |-> work[d] \cup
                                IF d = 0 THEN {left} ELSE {[id |-> NextId, cell |-> r]}]
    /\ currid' = NextId
    /\ UNCHANGED <<kind, mode, pc, points, images, seen>>

\* The left image of a stereo pair is done: the right one is searched.
LeftDone ==
    /\ pc[0] = "number" /\ todo[0] = {}
    /\ pc[1] = "wait"
    /\ pc' = [c \in Cams |-> IF c = 0 THEN "done" ELSE "detect"]
    /\ UNCHANGED <<kind, mode, points, work, todo, currid, images, seen>>

\* TrackDescriptor matches a corner of the left image with one of the right.
\* Its two grids are never marked: pairs may lie anywhere.
NumberPair ==
    /\ pc[0] = "pair"
    /\ Cardinality(work[0]) < MaxPairs
    /\ \E l, r \in Cells :
        work' = [c \in Cams |-> work[c] \cup
                    {[id |-> NextId, cell |-> IF c = 0 THEN l ELSE r]}]
    /\ currid' = NextId
    /\ UNCHANGED <<kind, mode, pc, points, todo, images, seen>>

(***************************************************************************)
(* Tracking into the new image and the new pts_last and ids_last.          *)
(***************************************************************************)
\* Some of the points are found again, somewhere; too few, and all are lost.
Tracked(c) ==
    IF Cardinality(work[c]) < MinMatches THEN {{}}
    ELSE UNION {{{[id |-> p.id, cell |-> f[p]] : p \in good} : f \in [good -> Cells]}
                : good \in SUBSET work[c]}

\* robust_match: at most one old point (its id, else 0) for each new one.
Matches(c) ==
    {m \in [Ids(work[c]) -> Ids(points[c]) \cup {0}] :
        /\ \A i, j \in Ids(work[c]) : m[i] = m[j] => i = j \/ m[i] = 0
        /\ \A i \in Ids(work[c]) : m[i] = 0 \/ MinMatches <=
              Least(Cardinality(work[c]), Cardinality(points[c]))}

Renamed(c, m) ==
    {[id |-> IF m[p.id] = 0 THEN p.id ELSE m[p.id], cell |-> p.cell] : p \in work[c]}

\* The ids last held replace the new ones of what was matched.
Followed(c) == IF kind = "KLT" THEN Tracked(c) ELSE {Renamed(c, m) : m \in Matches(c)}

\* With nothing held the detection is stored as it is, and not measured.
Store(c) ==
    /\ mode # "stereo"
    /\ pc[c] = "number" /\ todo[c] = {}
    /\ \E next \in IF points[c] = {} THEN {work[c]} ELSE Followed(c) :
        /\ points' = [points EXCEPT ![c] = next]
        /\ seen' = seen \cup Ids(next)
    /\ work' = [work EXCEPT ![c] = {}]
    /\ pc' = [pc EXCEPT ![c] = "idle"]
    /\ UNCHANGED <<kind, mode, todo, currid, images>>

\* Mutant of Linked: each image keeps the old id it found.
LinkedEach(ll, rr, i) == ll[i] # 0 /\ rr[i] # 0

\* A pair keeps an old id only if both images found it under that id.
Linked(ll, rr, i) == ll[i] = rr[i]

Links(ll, rr) == [i \in Ids(work[0]) |-> IF Linked(ll, rr, i) THEN ll[i] ELSE 0]
LinksRight(ll, rr) == [i \in Ids(work[0]) |-> IF Linked(ll, rr, i) THEN rr[i] ELSE 0]

FollowedPair ==
    IF kind = "KLT" THEN {<<l, r>> : l \in Tracked(0), r \in Tracked(1)}
    ELSE {<<Renamed(0, Links(mm[1], mm[2])), Renamed(1, LinksRight(mm[1], mm[2]))>>
            : mm \in Matches(0) \X Matches(1)}

\* TrackKLT starts again when both images hold nothing, TrackDescriptor when one does.
StartsAgain == IF kind = "KLT" THEN points[0] = {} /\ points[1] = {}
                               ELSE points[0] = {} \/ points[1] = {}

StoreStereo ==
    /\ \/ pc[0] = "pair"
       \/ pc[0] = "done" /\ pc[1] = "number" /\ todo[1] = {}
    /\ \E next \in IF StartsAgain THEN {<<work[0], work[1]>>} ELSE FollowedPair :
        /\ points' = [c \in Cams |-> next[c + 1]]
        /\ seen' = seen \cup Ids(next[1]) \cup Ids(next[2])
    /\ work' = [c \in Cams |-> {}]
    /\ pc' = [c \in Cams |-> "idle"]
    /\ UNCHANGED <<kind, mode, todo, currid, images>>

(***************************************************************************)
(* TrackAruco: the corners of the tags an image shows, less those that are *)
(* masked.  A corner has the place <<tag, n>>; no tag is shown twice.      *)
(***************************************************************************)
CornerId(tag, n) == tag + n * NumAruco

PerformTracking(c) ==
    /\ kind = "ARUCO"
    /\ pc[c] = "detect"
    /\ \E shown \in SUBSET {tag \in Tags : tag <= NumAruco} :
       \E masked \in {m \in SUBSET (shown \X (0 .. 3)) : Cardinality(m) <= MaxMasked} :
        points' = [points EXCEPT ![c] =
            {[id |-> CornerId(k[1], k[2]), cell |-> k]
                : k \in (shown \X (0 .. 3)) \ masked}]
    /\ pc' = [pc EXCEPT ![c] = "idle"]
    /\ UNCHANGED <<kind, mode, work, todo, currid, images, seen>>

Next ==
    \/ FeedNewCamera \/ LeftDone \/ NumberPair \/ StoreStereo
    \/ \E c \in Cams : \/ DetectKlt(c) \/ DetectDescriptor(c) \/ Number(c)
                       \/ Store(c) \/ PerformTracking(c)

Spec == Init /\ [][Next]_vars

-----------------------------------------------------------------------------
TypeOK ==
    /\ kind \in Kinds /\ mode \in Modes
    /\ pc \in [Cams -> {"idle", "detect", "number", "wait", "done", "pair"}]
    /\ \A c \in Cams : /\ \A p \in points[c] \cup work[c] : p.id \in Nat
                       /\ todo[c] \subseteq Cells
    /\ currid \in Nat /\ images \in 0 .. MaxImages /\ seen \subseteq Nat

(***************************************************************************)
(* The id names the point.  Within a camera two points never have one id,  *)
(* although two workers number at once and matched points take old ids     *)
(* over; and what the filter takes for a corner of a tag by its id         *)
(* (at most 4 * max_aruco_features, VioManager.cpp:440) is one, and        *)
(* nothing else is.                                                        *)
(***************************************************************************)
IdNamesPoint ==
    /\ TypeOK
    /\ \A c \in Cams :
        /\ \A p, q \in points[c] : p.id = q.id => p = q
        /\ \A p \in points[c] : p.id <= 4 * NumAruco <=> kind = "ARUCO"

(***************************************************************************)
(* An id in both cameras is one feature seen twice, so it was given to a   *)
(* pair: cameras that track on their own share none, and the descriptor    *)
(* tracker of a stereo pair, whose measurements of the right image are     *)
(* filed under the left id (TrackDescriptor.cpp:322), holds the same ids   *)
(* in both.                                                                *)
(***************************************************************************)
SharedByPairs ==
    /\ kind # "ARUCO" /\ mode # "stereo" => Ids(points[0]) \cap Ids(points[1]) = {}
    /\ kind = "ORB" /\ mode = "stereo" => Ids(points[0]) = Ids(points[1])

(***************************************************************************)
(* A track that was lost stays lost: an id that appears in an image was    *)
(* held by the camera at the image before, or no camera ever held it.  The *)
(* filter counts on it: a feature it used and deleted must not come back   *)
(* under its id.                                                           *)
(***************************************************************************)
NeverReturns ==
    [][\A c \in Cams : kind = "ARUCO" \/
            (Ids(points'[c]) \ Ids(points[c])) \cap seen = {}]_vars

(***************************************************************************)
(* Two points that drifted into one cell are not both followed further.    *)
(* Only in the right image of a pair one that the left image has as well   *)
(* may go on beside another.                                               *)
(***************************************************************************)
TwinsPart ==
    [][\A c \in Cams : kind = "KLT" /\ pc[c] # "idle" /\ pc'[c] = "idle" =>
        \A p, q \in points[c] :
            /\ p # q /\ p.cell = q.cell
            /\ {p.id, q.id} \subseteq Ids(points'[c])
            => /\ mode = "stereo" /\ c = 1
               /\ \E r \in points[0] : r.id \in {p.id, q.id}]_vars

=============================================================================
