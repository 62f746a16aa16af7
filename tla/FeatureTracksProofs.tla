------------------------ MODULE FeatureTracksProofs ------------------------
(***************************************************************************)
(* Proofs about FeatureTracks: a lost track never returns, ids are shared  *)
(* between cameras only by pairs, an id names one point of a camera, and   *)
(* points that drifted into one cell part, for any number of images,       *)
(* points, cells and tags.                                                 *)
(***************************************************************************)
EXTENDS FeatureTracks, TLAPS

(***************************************************************************)
(* The invariant is about the running detection.  Every id of it is one    *)
(* the camera held, or one no camera has ever held; the second stays so    *)
(* because the counter is beyond every id in use and because cameras that  *)
(* track on their own have no id in common.                                *)
(***************************************************************************)
Shape ==
    /\ kind \in {"KLT", "ORB", "ARUCO"} /\ mode \in {"mono", "binocular", "stereo"}
    /\ DOMAIN pc = Cams /\ DOMAIN points = Cams /\ DOMAIN work = Cams
    /\ currid \in Nat
    /\ kind = "ARUCO" => seen = {}

\* Which worker positions a configuration has.
Positions ==
    /\ mode # "stereo" => \A c \in Cams : pc[c] \in {"idle", "detect", "number"}
    /\ kind = "ORB" /\ mode = "stereo" => \A c \in Cams : pc[c] \in {"idle", "pair"}
    /\ kind = "ARUCO" => \A c \in Cams : pc[c] \in {"idle", "detect"}

CountedFor(c) == /\ \A i \in Ids(work[c]) : i \in Nat /\ i <= currid
                 /\ kind # "ARUCO" => Ids(points[c]) \subseteq seen

Counted == /\ \A i \in seen : i \in Nat /\ i <= currid
           /\ \A c \in Cams : CountedFor(c)

KnownOrNew == \A c \in Cams : \A i \in Ids(work[c]) : i \in Ids(points[c]) \/ i \notin seen

Used(c) == Ids(points[c]) \cup Ids(work[c])

Separate == mode # "stereo" /\ kind # "ARUCO" => Used(0) \cap Used(1) = {}

Paired == kind = "ORB" /\ mode = "stereo" =>
            Ids(work[0]) = Ids(work[1]) /\ Ids(points[0]) = Ids(points[1])

\* NeverReturns, of one step.
NeverReturnsStep == \A c \in Cams : kind = "ARUCO" \/
                        (Ids(points'[c]) \ Ids(points[c])) \cap seen = {}

Inv == Shape /\ Positions /\ Counted /\ KnownOrNew /\ Separate /\ Paired

-----------------------------------------------------------------------------
(* What tracking and matching do to the ids of a camera. *)

LEMMA IdsOfOneMore == \A S, p : Ids(S \cup {p}) = Ids(S) \cup {p.id}
BY DEF Ids

LEMMA TrackedIds ==
    ASSUME NEW c, NEW next \in Tracked(c)
    PROVE  Ids(next) \subseteq Ids(work[c])
<1>1. CASE Cardinality(work[c]) < MinMatches
  BY <1>1 DEF Tracked, Ids
<1>2. CASE ~ (Cardinality(work[c]) < MinMatches)
  <2>1. next \in UNION {{{[id |-> p.id, cell |-> f[p]] : p \in good} : f \in [good -> Cells]}
                           : good \in SUBSET work[c]}
    BY <1>2 DEF Tracked
  <2>2. PICK good \in SUBSET work[c] :
            next \in {{[id |-> p.id, cell |-> f[p]] : p \in good} : f \in [good -> Cells]}
    BY <2>1
  <2>3. PICK f \in [good -> Cells] : next = {[id |-> p.id, cell |-> f[p]] : p \in good}
    BY <2>2
  <2> QED
    BY <2>3 DEF Ids
<1> QED
  BY <1>1, <1>2

LEMMA RenamedIds ==
    ASSUME NEW c, NEW old, NEW m \in [Ids(work[c]) -> old \cup {0}]
    PROVE  Ids(Renamed(c, m)) \subseteq Ids(work[c]) \cup old
<1> SUFFICES ASSUME NEW p \in work[c]
             PROVE  (IF m[p.id] = 0 THEN p.id ELSE m[p.id]) \in Ids(work[c]) \cup old
  BY DEF Renamed, Ids
<1>1. p.id \in Ids(work[c])
  BY DEF Ids
<1>2. m[p.id] \in old \cup {0}
  BY <1>1
<1> QED
  BY <1>1, <1>2

LEMMA FollowedIds ==
    ASSUME NEW c, NEW next \in Followed(c)
    PROVE  Ids(next) \subseteq Used(c)
<1>1. CASE kind = "KLT"
  BY <1>1, TrackedIds DEF Followed, Used
<1>2. CASE kind # "KLT"
  <2>1. PICK m \in Matches(c) : next = Renamed(c, m)
    BY <1>2 DEF Followed
  <2>2. m \in [Ids(work[c]) -> Ids(points[c]) \cup {0}]
    BY DEF Matches
  <2> QED
    BY <2>1, <2>2, RenamedIds DEF Used
<1> QED
  BY <1>1, <1>2

\* Both images of a pair of the descriptor tracker end with the same ids.
LEMMA FollowedPairIds ==
    ASSUME NEW next \in FollowedPair, Inv, mode = "stereo", kind # "ARUCO"
    PROVE  /\ Ids(next[1]) \subseteq Used(0) /\ Ids(next[2]) \subseteq Used(1)
           /\ kind = "ORB" => Ids(next[1]) = Ids(next[2])
<1>1. CASE kind = "KLT"
  <2>1. PICK l \in Tracked(0), r \in Tracked(1) : next = <<l, r>>
    BY <1>1 DEF FollowedPair
  <2> QED
    BY <1>1, <2>1, TrackedIds DEF Used
<1>2. CASE kind = "ORB"
  <2>1. PICK mm \in Matches(0) \X Matches(1) :
            next = <<Renamed(0, Links(mm[1], mm[2])), Renamed(1, LinksRight(mm[1], mm[2]))>>
    BY <1>2 DEF FollowedPair
  <2> DEFINE ll == mm[1]
             rr == mm[2]
             W == Ids(work[0])
  <2>2. W = Ids(work[1]) /\ Ids(points[0]) = Ids(points[1])
    BY <1>2 DEF Inv, Paired
  <2>3. ll \in [W -> Ids(points[0]) \cup {0}] /\ rr \in [W -> Ids(points[1]) \cup {0}]
    BY <2>2 DEF Matches
  <2>4. Links(ll, rr) = LinksRight(ll, rr)
    BY DEF Links, LinksRight, Linked
  <2>5. Links(ll, rr) \in [W -> Ids(points[0]) \cup {0}]
    BY <2>3 DEF Links
  <2>6. Ids(Renamed(0, Links(ll, rr))) \subseteq Used(0)
    BY <2>5, RenamedIds DEF Used
  <2>7. Ids(Renamed(1, Links(ll, rr))) \subseteq Used(1)
    BY <2>2, <2>5, RenamedIds DEF Used
  <2>8. \A m : Ids(Renamed(0, m)) = Ids(Renamed(1, m))
    <3> DEFINE New(m, i) == IF m[i] = 0 THEN i ELSE m[i]
    <3>1. ASSUME NEW m, NEW c \in Cams
          PROVE  Ids(Renamed(c, m)) = {New(m, i) : i \in Ids(work[c])}
      <4> DEFINE P(p) == [id |-> New(m, p.id), cell |-> p.cell]
      <4>1. Renamed(c, m) = {P(p) : p \in work[c]}
        BY DEF Renamed
      <4>2. \A p : P(p).id = New(m, p.id)
        OBVIOUS
      <4> HIDE DEF P, New
      <4>3. Ids(Renamed(c, m)) = {P(p).id : p \in work[c]}
        BY <4>1 DEF Ids
      <4>4. @ = {New(m, p.id) : p \in work[c]}
        BY <4>2
      <4> QED
        BY <4>3, <4>4 DEF Ids
    <3> HIDE DEF New
    <3>2. ASSUME NEW m
          PROVE  Ids(Renamed(0, m)) = Ids(Renamed(1, m))
      <4>1. Ids(Renamed(0, m)) = {New(m, i) : i \in Ids(work[0])}
        BY <3>1 DEF Cams
      <4>2. Ids(Renamed(1, m)) = {New(m, i) : i \in Ids(work[1])}
        BY <3>1 DEF Cams
      <4> QED
        BY <4>1, <4>2, <2>2
    <3> QED
      BY <3>2
  <2> QED
    BY <2>1, <2>4, <2>6, <2>7, <2>8
<1> QED
  BY <1>1, <1>2 DEF Inv, Shape

-----------------------------------------------------------------------------
(* The invariant, one step for each action. *)

LEMMA InitInv == Init => Inv
BY ConfigAssumption, CountsAssumption DEF Init, Inv, Shape, Positions, Counted, CountedFor,
   KnownOrNew, Separate, Paired, Used, Ids, Cams, FirstId

\* Nothing but the positions of the workers changes.
LEMMA QuietInv ==
    ASSUME Inv, UNCHANGED <<kind, mode, points, work, currid, seen>>,
           DOMAIN pc' = Cams, Positions'
    PROVE  Inv'
BY DEF Inv, Shape, Counted, CountedFor, KnownOrNew, Separate, Paired, Used, Ids

\* A detection loses points, or starts from those of the last image or none.
LEMMA FewerInv ==
    ASSUME Inv, UNCHANGED <<kind, mode, points, currid, seen>>,
           DOMAIN pc' = Cams, Positions', DOMAIN work' = Cams,
           \A c \in Cams : Ids(work'[c]) \subseteq Used(c),
           kind = "ORB" /\ mode = "stereo" => Ids(work'[0]) = Ids(work'[1]),
           kind = "ARUCO" => \A c \in Cams : work'[c] = {}
    PROVE  Inv'
<1>1. Shape' /\ Paired'
  BY DEF Inv, Shape, Paired
<1>2. ASSUME NEW c \in Cams PROVE CountedFor(c)'
  BY <1>2 DEF Inv, Counted, CountedFor, Used, Ids
<1>3. Counted'
  BY <1>2 DEF Inv, Counted
<1>4. KnownOrNew'
  BY DEF Inv, KnownOrNew, Used
<1>5. Separate'
  BY DEF Inv, Separate, Used, Cams
<1> QED
  BY <1>1, <1>3, <1>4, <1>5 DEF Inv

LEMMA FeedInv == Inv /\ FeedNewCamera => Inv'
<1> SUFFICES ASSUME Inv, FeedNewCamera PROVE Inv'
  OBVIOUS
<1>1. DOMAIN pc' = Cams /\ DOMAIN work' = Cams
  BY DEF FeedNewCamera
<1>2. Positions'
  BY DEF FeedNewCamera, Positions, Inv, Shape, Fed, Cams
<1>3. \A c \in Cams : work'[c] = points[c] \/ work'[c] = {}
  BY DEF FeedNewCamera
<1>4. \A c \in Cams : Ids(work'[c]) \subseteq Used(c)
  BY <1>3 DEF Used, Ids
<1>5. kind # "KLT" => \A c \in Cams : work'[c] = {}
  BY DEF FeedNewCamera
<1>6. kind = "ORB" /\ mode = "stereo" => Ids(work'[0]) = Ids(work'[1])
  BY <1>5 DEF Cams
<1> QED
  BY <1>1, <1>2, <1>4, <1>5, <1>6, FewerInv DEF FeedNewCamera

LEMMA DetectKltInv == \A c \in Cams : Inv /\ DetectKlt(c) => Inv'
<1> SUFFICES ASSUME NEW c \in Cams, Inv, DetectKlt(c) PROVE Inv'
  OBVIOUS
<1>1. PICK kept \in SUBSET work[c] : work' = [work EXCEPT ![c] = kept]
  BY DEF DetectKlt
<1>2. DOMAIN work' = Cams /\ DOMAIN pc' = Cams
  BY <1>1 DEF Inv, Shape, DetectKlt
<1>3. \A d \in Cams : work'[d] \subseteq work[d]
  BY <1>1 DEF Inv, Shape
<1>4. \A d \in Cams : Ids(work'[d]) \subseteq Used(d)
  BY <1>3 DEF Used, Ids
<1>5. Positions'
  BY DEF Inv, Shape, Positions, DetectKlt
<1> QED
  BY <1>2, <1>4, <1>5, FewerInv DEF DetectKlt

LEMMA DetectDescriptorInv == \A c \in Cams : Inv /\ DetectDescriptor(c) => Inv'
<1> SUFFICES ASSUME NEW c \in Cams, Inv, DetectDescriptor(c) PROVE Inv'
  OBVIOUS
<1>1. DOMAIN pc' = Cams /\ Positions'
  BY DEF Inv, Shape, Positions, DetectDescriptor
<1> QED
  BY <1>1, QuietInv DEF DetectDescriptor

LEMMA LeftDoneInv == Inv /\ LeftDone => Inv'
<1> SUFFICES ASSUME Inv, LeftDone PROVE Inv'
  OBVIOUS
<1>1. DOMAIN pc' = Cams /\ Positions'
  BY DEF Inv, Shape, Positions, LeftDone, Cams
<1> QED
  BY <1>1, QuietInv DEF LeftDone

\* The next id is given to points of one camera, or of both as a pair.
LEMMA NumberedInv ==
    ASSUME Inv, UNCHANGED <<kind, mode, pc, points, seen>>, currid' = NextId,
           kind # "ARUCO", DOMAIN work' = Cams,
           NEW D \in SUBSET Cams, mode # "stereo" => 0 \notin D \/ 1 \notin D,
           kind = "ORB" /\ mode = "stereo" => D = Cams,
           \A c \in Cams : Ids(work'[c]) = Ids(work[c]) \cup IF c \in D THEN {NextId} ELSE {}
    PROVE  Inv'
<1>1. Shape' /\ Positions' /\ Paired'
  BY DEF Inv, Shape, Positions, Paired, NextId, Cams
<1>2. currid \in Nat /\ NextId = currid + 1
  BY DEF Inv, Shape, NextId
<1>3. NextId \notin seen /\ \A c \in Cams : NextId \notin Used(c)
  <2>1. \A i \in seen : i \in Nat /\ i <= currid
    BY DEF Inv, Counted
  <2>2. ASSUME NEW c \in Cams, NEW i \in Used(c) PROVE i \in Nat /\ i <= currid
    BY <2>1, <2>2 DEF Inv, Counted, CountedFor, Used
  <2> QED
    BY <1>2, <2>1, <2>2
<1>4. ASSUME NEW c \in Cams PROVE CountedFor(c)'
  <2>1. \A i \in Ids(work[c]) : i \in Nat /\ i <= currid
    BY DEF Inv, Counted, CountedFor
  <2>2. \A i \in Ids(work'[c]) : i \in Nat /\ i <= currid'
    BY <1>2, <2>1
  <2> QED
    BY <2>2 DEF Inv, Counted, CountedFor, Ids
<1>5. Counted'
  <2>1. \A i \in seen' : i \in Nat /\ i <= currid'
    BY <1>2 DEF Inv, Counted
  <2> QED
    BY <2>1, <1>4 DEF Counted
<1>6. KnownOrNew'
  BY <1>3 DEF Inv, KnownOrNew, Used
<1>7. Separate'
  <2> SUFFICES ASSUME mode # "stereo" PROVE Used(0)' \cap Used(1)' = {}
    BY DEF Separate
  <2>1. \A c \in Cams : Used(c)' = Used(c) \cup IF c \in D THEN {NextId} ELSE {}
    BY DEF Used
  <2> QED
    BY <2>1, <1>3 DEF Inv, Separate, Cams
<1> QED
  BY <1>1, <1>5, <1>6, <1>7 DEF Inv

LEMMA NumberInv == \A c \in Cams : Inv /\ Number(c) => Inv'
<1> SUFFICES ASSUME NEW c \in Cams, Inv, Number(c) PROVE Inv'
  OBVIOUS
<1>1. kind # "ARUCO" /\ ~ (kind = "ORB" /\ mode = "stereo")
  BY DEF Number, Inv, Positions
<1>2. PICK cell \in todo[c] :
          LET left == [id |-> NextId, cell |-> cell] IN
          \/ work' = [work EXCEPT ![c] = @ \cup {left}]
          \/ /\ mode = "stereo" /\ c = 0
             /\ \E r \in Cells :
                   work' = [d \in Cams |-> work[d] \cup
                               IF d = 0 THEN {left} ELSE {[id |-> NextId, cell |-> r]}]
  BY DEF Number
<1> DEFINE left == [id |-> NextId, cell |-> cell]
<1>3. CASE work' = [work EXCEPT ![c] = @ \cup {left}]
  <2>1. DOMAIN work' = Cams
    BY <1>3 DEF Inv, Shape
  <2>2. \A d \in Cams : work'[d] = work[d] \cup IF d \in {c} THEN {left} ELSE {}
    BY <1>3 DEF Inv, Shape
  <2>3. \A d \in Cams : Ids(work'[d]) = Ids(work[d]) \cup IF d \in {c} THEN {NextId} ELSE {}
    <3>1. Ids(work[c] \cup {left}) = Ids(work[c]) \cup {left.id} /\ left.id = NextId
      BY IdsOfOneMore
    <3> HIDE DEF left
    <3> QED
      BY <2>2, <3>1
  <2>4. {c} \in SUBSET Cams /\ (0 \notin {c} \/ 1 \notin {c})
    OBVIOUS
  <2> HIDE DEF left
  <2> QED
    BY <1>1, <2>1, <2>3, <2>4, NumberedInv DEF Number
<1>4. CASE /\ mode = "stereo"
           /\ \E r \in Cells :
                  work' = [d \in Cams |-> work[d] \cup
                              IF d = 0 THEN {left} ELSE {[id |-> NextId, cell |-> r]}]
  <2>1. DOMAIN work' = Cams
    BY <1>4
  <2>2. PICK r \in Cells :
            work' = [d \in Cams |-> work[d] \cup
                        IF d = 0 THEN {left} ELSE {[id |-> NextId, cell |-> r]}]
    BY <1>4
  <2> DEFINE right == [id |-> NextId, cell |-> r]
  <2>3. left.id = NextId /\ right.id = NextId
    OBVIOUS
  <2>4. \A d \in Cams : work'[d] = work[d] \cup {left} \/ work'[d] = work[d] \cup {right}
    BY <2>2
  <2> HIDE DEF left, right
  <2>5. \A d \in Cams : Ids(work'[d]) = Ids(work[d]) \cup {NextId}
    BY <2>3, <2>4, IdsOfOneMore
  <2>6. \A d \in Cams : Ids(work'[d]) = Ids(work[d]) \cup IF d \in Cams THEN {NextId} ELSE {}
    BY <2>5
  <2> QED
    BY <1>1, <1>4, <2>1, <2>6, NumberedInv DEF Number
<1> QED
  BY <1>2, <1>3, <1>4

LEMMA NumberPairInv == Inv /\ NumberPair => Inv'
<1> SUFFICES ASSUME Inv, NumberPair PROVE Inv'
  OBVIOUS
<1>1. PICK l \in Cells, r \in Cells :
          work' = [c \in Cams |-> work[c] \cup {[id |-> NextId, cell |-> IF c = 0 THEN l ELSE r]}]
  BY DEF NumberPair
<1>2. DOMAIN work' = Cams
  BY <1>1
<1>3. \A d \in Cams : Ids(work'[d]) = Ids(work[d]) \cup IF d \in Cams THEN {NextId} ELSE {}
  <2> SUFFICES ASSUME NEW d \in Cams PROVE Ids(work'[d]) = Ids(work[d]) \cup {NextId}
    OBVIOUS
  <2> DEFINE p == [id |-> NextId, cell |-> IF d = 0 THEN l ELSE r]
  <2>1. work'[d] = work[d] \cup {p} /\ p.id = NextId
    BY <1>1
  <2> HIDE DEF p
  <2> QED
    BY <2>1, IdsOfOneMore
<1>4. kind # "ARUCO" /\ mode = "stereo"
  BY DEF NumberPair, Inv, Shape, Positions, Cams
<1> QED
  BY <1>2, <1>3, <1>4, NumberedInv DEF NumberPair

\* The detection becomes what the cameras hold.
LEMMA StoredInv ==
    ASSUME Inv, UNCHANGED <<kind, mode, currid>>, kind # "ARUCO",
           DOMAIN pc' = Cams, Positions', DOMAIN work' = Cams, DOMAIN points' = Cams,
           NEW D \in SUBSET Cams, mode = "stereo" => D = Cams,
           \A c \in D : Ids(points'[c]) \subseteq Used(c) /\ work'[c] = {},
           \A c \in Cams \ D : UNCHANGED <<points[c], work[c]>>,
           seen' = seen \cup UNION {Ids(points'[c]) : c \in D},
           kind = "ORB" /\ mode = "stereo" => Ids(points'[0]) = Ids(points'[1])
    PROVE  Inv' /\ NeverReturnsStep
<1>1. \A c \in Cams : \A i \in Used(c) : i \in Nat /\ i <= currid
  BY DEF Inv, Counted, CountedFor, Used
<1>2. \A c \in Cams : Used(c)' \subseteq Used(c)
  BY DEF Used, Ids
<1>3. Shape' /\ Paired'
  BY DEF Inv, Shape, Paired, Cams
<1>4. \A i \in seen' : i \in Nat /\ i <= currid'
  BY <1>1, <1>2 DEF Inv, Counted
<1>5. ASSUME NEW c \in Cams PROVE CountedFor(c)'
  BY <1>1, <1>2 DEF Inv, Counted, CountedFor, Used
<1>6. Counted'
  BY <1>4, <1>5 DEF Counted
<1>7. Separate'
  BY <1>2 DEF Inv, Separate, Cams
<1>8. KnownOrNew'
  <2> SUFFICES ASSUME NEW c \in Cams \ D, NEW i \in Ids(work[c]), i \in seen'
               PROVE  i \in Ids(points[c])
    BY DEF KnownOrNew, Ids
  <2>1. CASE i \in seen
    BY <2>1 DEF Inv, KnownOrNew
  <2>2. CASE i \notin seen
    <3>1. PICK d \in D : i \in Used(d)
      BY <2>2
    <3>2. mode # "stereo" /\ d # c
      OBVIOUS
    <3>3. i \in Used(0) \cap Used(1)
      BY <3>1, <3>2 DEF Used, Cams
    <3> QED
      BY <3>2, <3>3 DEF Inv, Separate
  <2> QED
    BY <2>1, <2>2
<1>9. NeverReturnsStep
  BY DEF NeverReturnsStep, Inv, KnownOrNew, Used
<1> QED
  BY <1>3, <1>6, <1>7, <1>8, <1>9 DEF Inv

LEMMA StoreInv == \A c \in Cams : Inv /\ Store(c) => Inv' /\ NeverReturnsStep
<1> SUFFICES ASSUME NEW c \in Cams, Inv, Store(c) PROVE Inv' /\ NeverReturnsStep
  OBVIOUS
<1>1. PICK next \in IF points[c] = {} THEN {work[c]} ELSE Followed(c) :
          points' = [points EXCEPT ![c] = next] /\ seen' = seen \cup Ids(next)
  BY DEF Store
<1>2. Ids(next) \subseteq Used(c)
  BY <1>1, FollowedIds DEF Used
<1>3. DOMAIN pc' = Cams /\ DOMAIN work' = Cams /\ DOMAIN points' = Cams
  BY <1>1 DEF Store, Inv, Shape
<1>4. points'[c] = next /\ work'[c] = {}
  BY <1>1 DEF Store, Inv, Shape
<1>5. \A d \in Cams \ {c} : UNCHANGED <<points[d], work[d]>>
  BY <1>1 DEF Store, Inv, Shape
<1>6. Positions' /\ kind # "ARUCO" /\ mode # "stereo"
  BY DEF Store, Inv, Shape, Positions
<1>7. seen' = seen \cup UNION {Ids(points'[d]) : d \in {c}}
  BY <1>1, <1>4
<1>8. \A d \in {c} : Ids(points'[d]) \subseteq Used(d) /\ work'[d] = {}
  BY <1>2, <1>4
<1>9. {c} \in SUBSET Cams /\ UNCHANGED <<kind, mode, currid>>
  BY DEF Store
<1> QED
  BY <1>3, <1>5, <1>6, <1>7, <1>8, <1>9, StoredInv

LEMMA StoreStereoInv == Inv /\ StoreStereo => Inv' /\ NeverReturnsStep
<1> SUFFICES ASSUME Inv, StoreStereo PROVE Inv' /\ NeverReturnsStep
  OBVIOUS
<1>1. PICK next \in IF StartsAgain THEN {<<work[0], work[1]>>} ELSE FollowedPair :
          /\ points' = [c \in Cams |-> next[c + 1]]
          /\ seen' = seen \cup Ids(next[1]) \cup Ids(next[2])
  BY DEF StoreStereo
<1>2. mode = "stereo" /\ kind # "ARUCO"
  BY DEF StoreStereo, Inv, Shape, Positions, Cams
<1>3. /\ Ids(next[1]) \subseteq Used(0) /\ Ids(next[2]) \subseteq Used(1)
      /\ kind = "ORB" => Ids(next[1]) = Ids(next[2])
  <2>1. CASE StartsAgain
    BY <1>1, <1>2, <2>1 DEF Used, Inv, Paired
  <2>2. CASE ~ StartsAgain
    BY <1>1, <1>2, <2>2, FollowedPairIds
  <2> QED
    BY <2>1, <2>2
<1>4. points'[0] = next[1] /\ points'[1] = next[2]
  BY <1>1 DEF Cams
<1>5. DOMAIN pc' = Cams /\ DOMAIN work' = Cams /\ DOMAIN points' = Cams
  BY <1>1 DEF StoreStereo
<1>6. Positions'
  BY DEF StoreStereo, Positions
<1>7. seen' = seen \cup UNION {Ids(points'[d]) : d \in Cams}
  BY <1>1, <1>4 DEF Cams
<1>8. \A d \in Cams : Ids(points'[d]) \subseteq Used(d) /\ work'[d] = {}
  BY <1>3, <1>4 DEF Cams, StoreStereo
<1>9. UNCHANGED <<kind, mode, currid>>
  BY DEF StoreStereo
<1>10. kind = "ORB" /\ mode = "stereo" => Ids(points'[0]) = Ids(points'[1])
  BY <1>3, <1>4
<1>11. Cams \in SUBSET Cams /\ \A c \in Cams \ Cams : UNCHANGED <<points[c], work[c]>>
  OBVIOUS
<1> QED
  BY <1>2, <1>5, <1>6, <1>7, <1>8, <1>9, <1>10, <1>11, StoredInv

LEMMA PerformTrackingInv == \A c \in Cams : Inv /\ PerformTracking(c) => Inv'
<1> SUFFICES ASSUME NEW c \in Cams, Inv, PerformTracking(c) PROVE Inv'
  OBVIOUS
<1>1. DOMAIN points' = Cams /\ DOMAIN pc' = Cams /\ \A d \in Cams : Ids(work[d]) = Ids(work'[d])
  BY DEF PerformTracking, Inv, Shape
<1>2. Positions'
  BY DEF PerformTracking, Inv, Shape, Positions
<1>3. Shape' /\ Separate' /\ Paired'
  BY <1>1 DEF PerformTracking, Inv, Shape, Separate, Paired
<1>4. Counted'
  <2>1. ASSUME NEW d \in Cams PROVE CountedFor(d)'
    BY DEF PerformTracking, Inv, Counted, CountedFor
  <2> QED
    BY <2>1 DEF PerformTracking, Inv, Counted
<1>5. KnownOrNew'
  BY DEF PerformTracking, Inv, Shape, KnownOrNew
<1> QED
  BY <1>2, <1>3, <1>4, <1>5 DEF Inv

LEMMA StepInv == Inv /\ [Next]_vars => Inv' /\ NeverReturnsStep
<1> SUFFICES ASSUME Inv, [Next]_vars PROVE Inv' /\ NeverReturnsStep
  OBVIOUS
<1>1. points' = points => NeverReturnsStep
  BY DEF NeverReturnsStep
<1>2. CASE FeedNewCamera
  BY <1>2, <1>1, FeedInv DEF FeedNewCamera
<1>3. CASE LeftDone
  BY <1>3, <1>1, LeftDoneInv DEF LeftDone
<1>4. CASE NumberPair
  BY <1>4, <1>1, NumberPairInv DEF NumberPair
<1>5. CASE StoreStereo
  BY <1>5, StoreStereoInv
<1>6. ASSUME NEW c \in Cams, DetectKlt(c) PROVE Inv' /\ NeverReturnsStep
  BY <1>6, <1>1, DetectKltInv DEF DetectKlt
<1>7. ASSUME NEW c \in Cams, DetectDescriptor(c) PROVE Inv' /\ NeverReturnsStep
  BY <1>7, <1>1, DetectDescriptorInv DEF DetectDescriptor
<1>8. ASSUME NEW c \in Cams, Number(c) PROVE Inv' /\ NeverReturnsStep
  BY <1>8, <1>1, NumberInv DEF Number
<1>9. ASSUME NEW c \in Cams, Store(c) PROVE Inv' /\ NeverReturnsStep
  BY <1>9, StoreInv
<1>10. ASSUME NEW c \in Cams, PerformTracking(c) PROVE Inv' /\ NeverReturnsStep
  <2>1. kind = "ARUCO"
    BY <1>10 DEF PerformTracking
  <2> QED
    BY <1>10, <2>1, PerformTrackingInv DEF NeverReturnsStep
<1>11. CASE UNCHANGED vars
  <2>1. Inv'
    BY <1>11 DEF vars, Inv, Shape, Positions, Counted, CountedFor, KnownOrNew, Separate, Paired, Used
  <2> QED
    BY <1>11, <1>1, <2>1 DEF vars
<1> QED
  BY <1>2, <1>3, <1>4, <1>5, <1>6, <1>7, <1>8, <1>9, <1>10, <1>11 DEF Next

(***************************************************************************)
(* A lost track never returns (TrackKLT and TrackDescriptor): an id that   *)
(* enters a camera's points is one no camera ever held.                    *)
(***************************************************************************)
THEOREM NoReturn == Spec => NeverReturns
<1>1. Init => Inv
  BY InitInv
<1>2. Inv /\ [Next]_vars => Inv' /\ [NeverReturnsStep]_vars
  BY StepInv
<1> QED
  BY <1>1, <1>2, PTL DEF Spec, NeverReturns, NeverReturnsStep

(***************************************************************************)
(* Ids are shared by pairs only: cameras tracked on their own (the two     *)
(* workers of feed_monocular) have none in common, the two images of       *)
(* TrackDescriptor's stereo have all.                                      *)
(***************************************************************************)
THEOREM SharedOnlyByPairs == Spec => []SharedByPairs
<1>1. Inv /\ [Next]_vars => Inv'
  BY StepInv
<1>2. Inv => SharedByPairs
  BY DEF Inv, Separate, Paired, Used, SharedByPairs
<1> QED
  BY InitInv, <1>1, <1>2, PTL DEF Spec
-----------------------------------------------------------------------------
(***************************************************************************)
(* An id names one point.  Ids within a set of points are distinct; those  *)
(* of a camera are corners of tags exactly for TrackAruco; and what        *)
(* TrackDescriptor extracted has ids no camera ever held, so that a point  *)
(* that takes an old id over cannot meet one that keeps its new one.       *)
(***************************************************************************)
OneEach(S) == \A p, q \in S : p.id = q.id => p = q

Places == {"idle", "detect", "number", "wait", "done", "pair"}

IdsFit(c) ==
    /\ OneEach(points[c]) /\ OneEach(work[c])
    /\ \A i \in Used(c) : i \in Nat /\ (kind = "ARUCO" <=> i <= 4 * NumAruco)
    /\ kind = "ORB" => Ids(work[c]) \cap seen = {}
    /\ kind = "ARUCO" => work[c] = {}

Named ==
    /\ DOMAIN todo = Cams /\ currid >= FirstId
    /\ \A c \in Cams : IdsFit(c)

NameInv == TypeOK /\ Named

LEMMA OneEachMore ==
    ASSUME NEW S, NEW p, OneEach(S), p.id \notin Ids(S)
    PROVE  OneEach(S \cup {p})
<1>1. \A q \in S : q.id # p.id
  BY DEF Ids
<1> QED
  BY <1>1 DEF OneEach

LEMMA OneEachTracked ==
    ASSUME NEW c, OneEach(work[c]), NEW next \in Tracked(c)
    PROVE  OneEach(next)
<1>1. CASE Cardinality(work[c]) < MinMatches
  BY <1>1 DEF Tracked, OneEach
<1>2. CASE ~ (Cardinality(work[c]) < MinMatches)
  <2>1. next \in UNION {{{[id |-> p.id, cell |-> f[p]] : p \in good} : f \in [good -> Cells]}
                           : good \in SUBSET work[c]}
    BY <1>2 DEF Tracked
  <2>2. PICK good \in SUBSET work[c] :
            next \in {{[id |-> p.id, cell |-> f[p]] : p \in good} : f \in [good -> Cells]}
    BY <2>1
  <2>3. PICK f \in [good -> Cells] : next = {[id |-> p.id, cell |-> f[p]] : p \in good}
    BY <2>2
  <2>4. ASSUME NEW a \in good, NEW b \in good,
               [id |-> a.id, cell |-> f[a]].id = [id |-> b.id, cell |-> f[b]].id
        PROVE  [id |-> a.id, cell |-> f[a]] = [id |-> b.id, cell |-> f[b]]
    BY <2>4 DEF OneEach
  <2> QED
    BY <2>3, <2>4 DEF OneEach
<1> QED
  BY <1>1, <1>2

\* Old ids taken over by at most one point each leave the ids distinct.
LEMMA OneEachRenamed ==
    ASSUME NEW c, OneEach(work[c]), NEW old, Ids(work[c]) \cap old = {},
           NEW m \in [Ids(work[c]) -> old \cup {0}],
           \A i, j \in Ids(work[c]) : m[i] = m[j] => i = j \/ m[i] = 0
    PROVE  OneEach(Renamed(c, m))
<1> DEFINE N(p) == IF m[p.id] = 0 THEN p.id ELSE m[p.id]
<1>1. ASSUME NEW p \in work[c], NEW q \in work[c], N(p) = N(q) PROVE p = q
  <2>1. p.id \in Ids(work[c]) /\ q.id \in Ids(work[c])
    BY DEF Ids
  <2>2. m[p.id] \in old \cup {0} /\ m[q.id] \in old \cup {0}
    BY <2>1
  <2>3. p.id = q.id
    BY <1>1, <2>1, <2>2
  <2> QED
    BY <2>3 DEF OneEach
<1> DEFINE R(p) == [id |-> N(p), cell |-> p.cell]
<1>2. Renamed(c, m) = {R(p) : p \in work[c]}
  BY DEF Renamed
<1>3. \A p : R(p).id = N(p)
  OBVIOUS
<1> HIDE DEF N, R
<1> QED
  BY <1>1, <1>2, <1>3 DEF OneEach

\* The corners waiting for their ids.
LEMMA TodoShape == NameInv => DOMAIN todo = Cams /\ \A c \in Cams : todo[c] \subseteq Cells
<1>1. NameInv => DOMAIN todo = Cams
  BY DEF NameInv, Named
<1>2. ASSUME NameInv, NEW c \in Cams PROVE todo[c] \subseteq Cells
  <2>1. TypeOK
    BY <1>2 DEF NameInv
  <2>2. \A d \in Cams : (\A p \in points[d] \cup work[d] : p.id \in Nat) /\ todo[d] \subseteq Cells
    BY <2>1, Zenon DEF TypeOK
  <2> QED
    BY <2>2
<1> QED
  BY <1>1, <1>2

\* The numbers of the constants.
LEMMA IdNumbers ==
    ASSUME Inv, NameInv
    PROVE  /\ currid \in Nat /\ NumAruco \in Nat /\ MaxImages \in Nat
           /\ NextId = currid + 1 /\ NextId \in Nat /\ ~ (NextId <= 4 * NumAruco)
           /\ NextId \notin seen /\ \A c \in Cams : NextId \notin Ids(work[c])
           /\ kind # "ARUCO" => \A c \in Cams : Ids(points[c]) \subseteq seen
<1>1. /\ currid \in Nat /\ NumAruco \in Nat /\ NextId = currid + 1 /\ MaxImages \in Nat
      /\ currid >= FirstId /\ FirstId = 4 * NumAruco + 1
  BY CountsAssumption, BoundAssumption DEF Inv, Shape, NextId, NameInv, Named, FirstId
<1>2. \A i \in seen : i \in Nat /\ i <= currid
  BY DEF Inv, Counted
<1>3. \A c \in Cams : \A i \in Ids(work[c]) : i \in Nat /\ i <= currid
  BY DEF Inv, Counted, CountedFor
<1>4. NextId \in Nat /\ ~ (NextId <= 4 * NumAruco)
  BY <1>1
<1>5. NextId \notin seen /\ \A c \in Cams : NextId \notin Ids(work[c])
  BY <1>1, <1>2, <1>3
<1> QED
  BY <1>1, <1>4, <1>5 DEF Inv, Counted, CountedFor

LEMMA InitNames == Init => NameInv
<1> SUFFICES ASSUME Init PROVE NameInv
  OBVIOUS
<1>1. NumAruco \in Nat /\ MaxImages \in Nat /\ FirstId \in Nat
  BY CountsAssumption, BoundAssumption DEF FirstId
<1>2. TypeOK
  BY <1>1 DEF Init, TypeOK, Cams
<1>3. Named
  BY <1>1 DEF Init, Named, IdsFit, OneEach, Used, Ids, Cams
<1> QED
  BY <1>2, <1>3 DEF NameInv

\* What is kept when the points of a camera are, and its detection loses some.
LEMMA FewerNames ==
    ASSUME Inv, NameInv, UNCHANGED <<kind, mode, points, currid, seen>>,
           pc' \in [Cams -> Places], images' \in 0..MaxImages,
           DOMAIN todo' = Cams, \A c \in Cams : todo'[c] \subseteq Cells,
           \A c \in Cams : \/ work'[c] \subseteq work[c] \/ work'[c] = {}
                           \/ kind = "KLT" /\ work'[c] = points[c]
    PROVE  NameInv'
<1>1. ASSUME NEW c \in Cams PROVE IdsFit(c)'
  <2>1. IdsFit(c)
    BY DEF NameInv, Named
  <2>2. CASE work'[c] \subseteq work[c]
    BY <2>1, <2>2 DEF IdsFit, OneEach, Used, Ids
  <2>3. CASE work'[c] = {}
    BY <2>1, <2>3 DEF IdsFit, OneEach, Used, Ids
  <2>4. CASE kind = "KLT" /\ work'[c] = points[c]
    BY <2>1, <2>4 DEF IdsFit, OneEach, Used, Ids
  <2> QED
    BY <2>2, <2>3, <2>4
<1>2. Named'
  BY <1>1 DEF NameInv, Named, FirstId
<1>3. ASSUME NEW c \in Cams PROVE \A p \in points'[c] \cup work'[c] : p.id \in Nat
  <2>1. \A i \in Used(c)' : i \in Nat
    BY <1>1 DEF IdsFit
  <2> QED
    BY <2>1 DEF Used, Ids
<1>4. TypeOK'
  BY <1>3 DEF NameInv, TypeOK, Places
<1> QED
  BY <1>2, <1>4 DEF NameInv

LEMMA FeedNames == Inv /\ NameInv /\ FeedNewCamera => NameInv'
<1> SUFFICES ASSUME Inv, NameInv, FeedNewCamera PROVE NameInv'
  OBVIOUS
<1>1. pc' \in [Cams -> Places]
  BY DEF FeedNewCamera, Places
<1>2. images' \in 0..MaxImages
  BY BoundAssumption DEF FeedNewCamera, NameInv, TypeOK
<1>3. \A c \in Cams : work'[c] = {} \/ (kind = "KLT" /\ work'[c] = points[c])
  BY DEF FeedNewCamera
<1> QED
  BY <1>1, <1>2, <1>3, FewerNames, TodoShape DEF FeedNewCamera

LEMMA DetectNames == \A c \in Cams : Inv /\ NameInv /\ (DetectKlt(c) \/ DetectDescriptor(c)) => NameInv'
<1> SUFFICES ASSUME NEW c \in Cams, Inv, NameInv, DetectKlt(c) \/ DetectDescriptor(c) PROVE NameInv'
  OBVIOUS
<1>1. pc' \in [Cams -> Places]
  BY DEF DetectKlt, DetectDescriptor, NameInv, TypeOK, Places
<1>2. PICK found \in SUBSET Cells : todo' = [todo EXCEPT ![c] = found]
  BY DEF DetectKlt, DetectDescriptor
<1>3. DOMAIN todo' = Cams /\ \A d \in Cams : todo'[d] \subseteq Cells
  BY <1>2, TodoShape
<1>4. \A d \in Cams : work'[d] \subseteq work[d]
  BY DEF DetectKlt, DetectDescriptor, Inv, Shape
<1>5. images' \in 0..MaxImages /\ UNCHANGED <<kind, mode, points, currid, seen>>
  BY DEF DetectKlt, DetectDescriptor, NameInv, TypeOK
<1> QED
  BY <1>1, <1>3, <1>4, <1>5, FewerNames

LEMMA LeftNames == Inv /\ NameInv /\ LeftDone => NameInv'
<1> SUFFICES ASSUME Inv, NameInv, LeftDone PROVE NameInv'
  OBVIOUS
<1>1. pc' \in [Cams -> Places]
  BY DEF LeftDone, Places
<1>2. images' \in 0..MaxImages
  BY DEF LeftDone, NameInv, TypeOK
<1> QED
  BY <1>1, <1>2, FewerNames, TodoShape DEF LeftDone

\* A new point, of one camera or both, gets an id nothing has.
LEMMA NumberedNames ==
    ASSUME Inv, NameInv, UNCHANGED <<kind, mode, pc, points, images, seen>>, currid' = NextId,
           kind # "ARUCO", DOMAIN todo' = Cams, \A c \in Cams : todo'[c] \subseteq Cells,
           \A c \in Cams : work'[c] = work[c] \/
               \E p : p.id = NextId /\ work'[c] = work[c] \cup {p}
    PROVE  NameInv'
<1>1. ASSUME NEW c \in Cams PROVE IdsFit(c)'
  <2>1. IdsFit(c)
    BY DEF NameInv, Named
  <2>2. CASE work'[c] = work[c]
    BY <2>1, <2>2 DEF IdsFit, Used
  <2>3. ASSUME NEW p, p.id = NextId, work'[c] = work[c] \cup {p} PROVE IdsFit(c)'
    <3>1. OneEach(work'[c])
      <4>1. OneEach(work[c]) /\ p.id \notin Ids(work[c])
        BY <2>1, <2>3, IdNumbers DEF IdsFit
      <4> QED
        <5>1. OneEach(work[c] \cup {p})
          BY <4>1, OneEachMore
        <5> QED
          BY <2>3, <5>1
    <3>2. Ids(work'[c]) = Ids(work[c]) \cup {NextId}
      BY <2>3, IdsOfOneMore
    <3>3. \A i \in Used(c)' : i \in Nat /\ (kind = "ARUCO" <=> i <= 4 * NumAruco)
      BY <2>1, <3>2, IdNumbers DEF IdsFit, Used
    <3>4. kind = "ORB" => Ids(work'[c]) \cap seen = {}
      BY <2>1, <3>2, IdNumbers DEF IdsFit
    <3> QED
      BY <2>1, <3>1, <3>3, <3>4 DEF IdsFit
  <2> QED
    BY <2>2, <2>3
<1>2. Named'
  <2>1. currid' >= FirstId
    BY IdNumbers, CountsAssumption DEF NameInv, Named, FirstId
  <2> QED
    BY <1>1, <2>1 DEF Named, FirstId
<1>3. ASSUME NEW c \in Cams PROVE \A p \in points'[c] \cup work'[c] : p.id \in Nat
  <2>1. \A i \in Used(c)' : i \in Nat
    BY <1>1 DEF IdsFit
  <2> QED
    BY <2>1 DEF Used, Ids
<1>4. TypeOK'
  BY <1>3, IdNumbers DEF NameInv, TypeOK
<1> QED
  BY <1>2, <1>4 DEF NameInv

\* Numbering a corner adds one point with the next id.
LEMMA NumberAdds ==
    ASSUME Inv, NEW c \in Cams, Number(c), NEW d \in Cams
    PROVE  work'[d] = work[d] \/ \E p : p.id = NextId /\ work'[d] = work[d] \cup {p}
<1>1. PICK cell \in todo[c] :
          LET left == [id |-> NextId, cell |-> cell] IN
          \/ work' = [work EXCEPT ![c] = @ \cup {left}]
          \/ \E r \in Cells :
                work' = [e \in Cams |-> work[e] \cup
                            IF e = 0 THEN {left} ELSE {[id |-> NextId, cell |-> r]}]
  BY DEF Number
<1> DEFINE left == [id |-> NextId, cell |-> cell]
<1>2. left.id = NextId /\ \A r : [id |-> NextId, cell |-> r].id = NextId
  OBVIOUS
<1>3. CASE work' = [work EXCEPT ![c] = @ \cup {left}]
  <2>1. work'[d] = work[d] \/ work'[d] = work[d] \cup {left}
    BY <1>3 DEF Inv, Shape
  <2> QED
    BY <1>2, <2>1
<1>4. ASSUME NEW r \in Cells,
             work' = [e \in Cams |-> work[e] \cup
                         IF e = 0 THEN {left} ELSE {[id |-> NextId, cell |-> r]}]
      PROVE  \E p : p.id = NextId /\ work'[d] = work[d] \cup {p}
  <2> DEFINE right == [id |-> NextId, cell |-> r]
  <2>1. work'[d] = work[d] \cup {left} \/ work'[d] = work[d] \cup {right}
    BY <1>4
  <2> QED
    BY <1>2, <2>1
<1> QED
  BY <1>1, <1>3, <1>4

LEMMA NumberNames == \A c \in Cams : Inv /\ NameInv /\ Number(c) => NameInv'
<1> SUFFICES ASSUME NEW c \in Cams, Inv, NameInv, Number(c) PROVE NameInv'
  OBVIOUS
<1>1. kind # "ARUCO"
  BY DEF Number, Inv, Positions
<1>2. PICK cell \in todo[c] : todo' = [todo EXCEPT ![c] = @ \ {cell}]
  BY DEF Number
<1>3. DOMAIN todo' = Cams /\ \A d \in Cams : todo'[d] \subseteq Cells
  BY <1>2, TodoShape
<1> QED
  BY <1>1, <1>3, NumberAdds, NumberedNames DEF Number

LEMMA NumberPairNames == Inv /\ NameInv /\ NumberPair => NameInv'
<1> SUFFICES ASSUME Inv, NameInv, NumberPair PROVE NameInv'
  OBVIOUS
<1>1. kind # "ARUCO"
  BY DEF NumberPair, Inv, Positions, Cams
<1>2. PICK l \in Cells, r \in Cells :
          work' = [c \in Cams |-> work[c] \cup {[id |-> NextId, cell |-> IF c = 0 THEN l ELSE r]}]
  BY DEF NumberPair
<1>3. ASSUME NEW d \in Cams PROVE \E p : p.id = NextId /\ work'[d] = work[d] \cup {p}
  <2> DEFINE p == [id |-> NextId, cell |-> IF d = 0 THEN l ELSE r]
  <2>1. work'[d] = work[d] \cup {p} /\ p.id = NextId
    BY <1>2
  <2> QED
    BY <2>1
<1>4. DOMAIN todo' = Cams /\ \A c \in Cams : todo'[c] \subseteq Cells
  BY TodoShape DEF NumberPair
<1> QED
  BY <1>1, <1>3, <1>4, NumberedNames DEF NumberPair

\* What is found again keeps its id or takes one of the camera's over.
LEMMA FollowedNames ==
    ASSUME Inv, NameInv, kind # "ARUCO", NEW c \in Cams, NEW next \in Followed(c)
    PROVE  OneEach(next)
<1>1. IdsFit(c) /\ Ids(points[c]) \subseteq seen
  BY IdNumbers DEF NameInv, Named
<1>2. CASE kind = "KLT"
  BY <1>1, <1>2, OneEachTracked DEF Followed, IdsFit
<1>3. CASE kind = "ORB"
  <2>1. PICK m \in Matches(c) : next = Renamed(c, m)
    BY <1>3 DEF Followed
  <2>2. /\ m \in [Ids(work[c]) -> Ids(points[c]) \cup {0}]
        /\ \A i, j \in Ids(work[c]) : m[i] = m[j] => i = j \/ m[i] = 0
    BY DEF Matches
  <2>3. Ids(work[c]) \cap Ids(points[c]) = {} /\ OneEach(work[c])
    BY <1>1, <1>3 DEF IdsFit
  <2> QED
    BY <2>1, <2>2, <2>3, OneEachRenamed
<1> QED
  BY <1>2, <1>3 DEF Inv, Shape

LEMMA FollowedPairNames ==
    ASSUME Inv, NameInv, kind # "ARUCO", mode = "stereo", NEW next \in FollowedPair
    PROVE  OneEach(next[1]) /\ OneEach(next[2])
<1>1. ASSUME NEW c \in Cams PROVE IdsFit(c) /\ Ids(points[c]) \subseteq seen
  BY IdNumbers DEF NameInv, Named
<1>2. CASE kind = "KLT"
  <2>1. PICK l \in Tracked(0), r \in Tracked(1) : next = <<l, r>>
    BY <1>2 DEF FollowedPair
  <2>2. OneEach(work[0]) /\ OneEach(work[1])
    BY <1>1 DEF IdsFit, Cams
  <2> QED
    BY <2>1, <2>2, OneEachTracked
<1>3. CASE kind = "ORB"
  <2>1. PICK mm \in Matches(0) \X Matches(1) :
            next = <<Renamed(0, Links(mm[1], mm[2])), Renamed(1, LinksRight(mm[1], mm[2]))>>
    BY <1>3 DEF FollowedPair
  <2> DEFINE ll == mm[1]
             rr == mm[2]
             W == Ids(work[0])
             m == Links(ll, rr)
  <2>2. W = Ids(work[1]) /\ Ids(points[0]) = Ids(points[1])
    BY <1>3 DEF Inv, Paired
  <2>3. /\ ll \in [W -> Ids(points[0]) \cup {0}]
        /\ \A i, j \in W : ll[i] = ll[j] => i = j \/ ll[i] = 0
    BY DEF Matches
  <2>4. Links(ll, rr) = LinksRight(ll, rr)
    BY DEF Links, LinksRight, Linked
  <2>5. /\ m \in [W -> Ids(points[0]) \cup {0}]
        /\ \A i, j \in W : m[i] = m[j] => i = j \/ m[i] = 0
    BY <2>3 DEF Links
  <2> HIDE DEF m
  <2>6. /\ W \cap Ids(points[0]) = {} /\ OneEach(work[0]) /\ OneEach(work[1])
    BY <1>1, <1>3 DEF IdsFit, Cams
  <2>7. OneEach(Renamed(0, m))
    BY <2>5, <2>6, OneEachRenamed
  <2>8. OneEach(Renamed(1, m))
    BY <2>2, <2>5, <2>6, OneEachRenamed
  <2> QED
    BY <2>1, <2>4, <2>7, <2>8 DEF m
<1> QED
  BY <1>2, <1>3 DEF Inv, Shape

\* The detection becomes what the cameras of D hold.
LEMMA StoredNames ==
    ASSUME Inv, NameInv, kind # "ARUCO", UNCHANGED <<kind, mode, currid, images, todo>>,
           pc' \in [Cams -> Places],
           NEW D \in SUBSET Cams, mode = "stereo" => D = Cams,
           \A c \in D : Ids(points'[c]) \subseteq Used(c) /\ work'[c] = {} /\ OneEach(points'[c]),
           \A c \in Cams \ D : UNCHANGED <<points[c], work[c]>>,
           seen' = seen \cup UNION {Ids(points'[c]) : c \in D}
    PROVE  NameInv'
<1>1. ASSUME NEW c \in Cams PROVE IdsFit(c)'
  <2>1. IdsFit(c)
    BY DEF NameInv, Named
  <2>2. CASE c \in D
    <3>1. Used(c)' \subseteq Used(c) /\ Ids(work'[c]) = {} /\ OneEach(work'[c])
      BY <2>2 DEF Used, Ids, OneEach
    <3> QED
      BY <2>1, <2>2, <3>1 DEF IdsFit
  <2>3. CASE c \notin D
    <3>1. ASSUME NEW i \in Ids(work[c]), i \in seen', kind = "ORB" PROVE FALSE
      <4>1. i \notin seen
        BY <2>1, <3>1 DEF IdsFit
      <4>2. PICK d \in D : i \in Used(d)
        BY <3>1, <4>1
      <4>3. mode # "stereo" /\ d # c /\ i \in Used(c)
        BY <2>3 DEF Used
      <4>4. i \in Used(0) \cap Used(1)
        BY <4>2, <4>3 DEF Cams
      <4> QED
        BY <4>3, <4>4, <3>1 DEF Inv, Separate
    <3>2. UNCHANGED <<points[c], work[c]>>
      BY <2>3
    <3>3. Ids(work'[c]) = Ids(work[c]) /\ Used(c)' = Used(c)
      BY <3>2 DEF Ids, Used
    <3> QED
      BY <2>1, <3>1, <3>2, <3>3 DEF IdsFit
  <2> QED
    BY <2>2, <2>3
<1>2. Named'
  BY <1>1 DEF NameInv, Named, FirstId
<1>3. ASSUME NEW c \in Cams PROVE \A p \in points'[c] \cup work'[c] : p.id \in Nat
  <2>1. \A i \in Used(c)' : i \in Nat
    BY <1>1 DEF IdsFit
  <2> QED
    BY <2>1 DEF Used, Ids
<1>4. seen' \subseteq Nat
  <2>1. ASSUME NEW c \in D PROVE Ids(points'[c]) \subseteq Nat
    BY <1>3 DEF Ids
  <2>2. seen \subseteq Nat
    BY DEF NameInv, TypeOK
  <2>3. UNION {Ids(points'[c]) : c \in D} \subseteq Nat
    BY <2>1
  <2>4. seen' = seen \cup UNION {Ids(points'[c]) : c \in D}
    OBVIOUS
  <2> QED
    BY <2>2, <2>3, <2>4
<1>5. TypeOK'
  <2>1. /\ kind' \in Kinds /\ mode' \in Modes /\ currid' \in Nat /\ images' \in 0..MaxImages
        /\ \A c \in Cams : todo'[c] \subseteq Cells
    BY TodoShape DEF NameInv, TypeOK
  <2> QED
    BY <1>3, <1>4, <2>1 DEF TypeOK, Places
<1> QED
  BY <1>2, <1>5 DEF NameInv

LEMMA StoreNames == \A c \in Cams : Inv /\ NameInv /\ Store(c) => NameInv'
<1> SUFFICES ASSUME NEW c \in Cams, Inv, NameInv, Store(c) PROVE NameInv'
  OBVIOUS
<1>1. PICK next \in IF points[c] = {} THEN {work[c]} ELSE Followed(c) :
          points' = [points EXCEPT ![c] = next] /\ seen' = seen \cup Ids(next)
  BY DEF Store
<1>2. mode # "stereo" /\ kind # "ARUCO"
  BY DEF Store, Inv, Positions
<1>3. Ids(next) \subseteq Used(c)
  BY <1>1, FollowedIds DEF Used
<1>4. OneEach(next)
  BY <1>1, <1>2, FollowedNames DEF NameInv, Named, IdsFit
<1>5. pc' \in [Cams -> Places]
  BY DEF Store, NameInv, TypeOK, Places
<1>6. points'[c] = next /\ work'[c] = {}
  BY <1>1 DEF Store, Inv, Shape
<1>7. \A d \in Cams \ {c} : UNCHANGED <<points[d], work[d]>>
  BY <1>1 DEF Store, Inv, Shape
<1>8. seen' = seen \cup UNION {Ids(points'[d]) : d \in {c}}
  BY <1>1, <1>6
<1>9. \A d \in {c} : Ids(points'[d]) \subseteq Used(d) /\ work'[d] = {} /\ OneEach(points'[d])
  BY <1>3, <1>4, <1>6
<1>10. {c} \in SUBSET Cams /\ UNCHANGED <<kind, mode, currid, images, todo>>
  BY DEF Store
<1> QED
  BY <1>2, <1>5, <1>7, <1>8, <1>9, <1>10, StoredNames

LEMMA StoreStereoNames == Inv /\ NameInv /\ StoreStereo => NameInv'
<1> SUFFICES ASSUME Inv, NameInv, StoreStereo PROVE NameInv'
  OBVIOUS
<1>1. PICK next \in IF StartsAgain THEN {<<work[0], work[1]>>} ELSE FollowedPair :
          /\ points' = [c \in Cams |-> next[c + 1]]
          /\ seen' = seen \cup Ids(next[1]) \cup Ids(next[2])
  BY DEF StoreStereo
<1>2. mode = "stereo" /\ kind # "ARUCO"
  BY DEF StoreStereo, Inv, Shape, Positions, Cams
<1>3. /\ Ids(next[1]) \subseteq Used(0) /\ Ids(next[2]) \subseteq Used(1)
      /\ OneEach(next[1]) /\ OneEach(next[2])
  <2>1. CASE StartsAgain
    BY <1>1, <2>1 DEF Used, NameInv, Named, IdsFit, Cams
  <2>2. CASE ~ StartsAgain
    BY <1>1, <1>2, <2>2, FollowedPairIds, FollowedPairNames
  <2> QED
    BY <2>1, <2>2
<1>4. points'[0] = next[1] /\ points'[1] = next[2]
  BY <1>1 DEF Cams
<1>5. pc' \in [Cams -> Places]
  BY DEF StoreStereo, Places
<1>6. seen' = seen \cup UNION {Ids(points'[d]) : d \in Cams}
  BY <1>1, <1>4 DEF Cams
<1>7. \A d \in Cams : Ids(points'[d]) \subseteq Used(d) /\ work'[d] = {} /\ OneEach(points'[d])
  BY <1>3, <1>4 DEF Cams, StoreStereo
<1>8. UNCHANGED <<kind, mode, currid, images, todo>>
  BY DEF StoreStereo
<1>9. Cams \in SUBSET Cams /\ \A c \in Cams \ Cams : UNCHANGED <<points[c], work[c]>>
  OBVIOUS
<1> QED
  BY <1>2, <1>5, <1>6, <1>7, <1>8, <1>9, StoredNames

\* A corner's id says which tag and which corner.
LEMMA CornerIds ==
    ASSUME NEW a \in Tags, NEW b \in Tags, NEW m \in 0..3, NEW n \in 0..3
    PROVE  /\ CornerId(a, m) \in Nat /\ CornerId(a, m) <= 4 * NumAruco
           /\ CornerId(a, m) = CornerId(b, n) => a = b /\ m = n
<1>1. a \in Nat /\ b \in Nat /\ a < NumAruco /\ b < NumAruco /\ NumAruco \in Nat
  BY TagsAssumption, CountsAssumption
<1>2. \A k \in 0..3 : k = 0 \/ k = 1 \/ k = 2 \/ k = 3
  OBVIOUS
<1>3. CornerId(a, m) \in {a, a + NumAruco, a + 2 * NumAruco, a + 3 * NumAruco}
  <2>1. m = 0 \/ m = 1 \/ m = 2 \/ m = 3
    BY <1>2
  <2>2. m = 0 => CornerId(a, m) = a
    BY <1>1 DEF CornerId
  <2>3. m = 1 => CornerId(a, m) = a + NumAruco
    BY <1>1 DEF CornerId
  <2> QED
    BY <2>1, <2>2, <2>3 DEF CornerId
<1>4. CornerId(a, m) \in Nat /\ CornerId(a, m) <= 4 * NumAruco
  BY <1>1, <1>3
<1>5. ASSUME CornerId(a, m) = CornerId(b, n) PROVE a = b /\ m = n
  <2>1. a + m * NumAruco = b + n * NumAruco
    BY <1>5 DEF CornerId
  <2>2. m = 0 \/ m = 1 \/ m = 2 \/ m = 3
    BY <1>2
  <2>3. n = 0 \/ n = 1 \/ n = 2 \/ n = 3
    BY <1>2
  <2>4. CASE m = 0
    BY <1>1, <2>1, <2>3, <2>4
  <2>5. CASE m = 1
    BY <1>1, <2>1, <2>3, <2>5
  <2>6. CASE m = 2
    BY <1>1, <2>1, <2>3, <2>6
  <2>7. CASE m = 3
    BY <1>1, <2>1, <2>3, <2>7
  <2> QED
    BY <2>2, <2>4, <2>5, <2>6, <2>7
<1> QED
  BY <1>4, <1>5

LEMMA TagNames == \A c \in Cams : Inv /\ NameInv /\ PerformTracking(c) => NameInv'
<1> SUFFICES ASSUME NEW c \in Cams, Inv, NameInv, PerformTracking(c) PROVE NameInv'
  OBVIOUS
<1>1. PICK S \in SUBSET (Tags \X (0 .. 3)) :
          points' = [points EXCEPT ![c] = {[id |-> CornerId(k[1], k[2]), cell |-> k] : k \in S}]
  <2>1. PICK shown \in SUBSET {tag \in Tags : tag <= NumAruco} :
          \E masked \in {m \in SUBSET (shown \X (0 .. 3)) : Cardinality(m) <= MaxMasked} :
          points' = [points EXCEPT ![c] = {[id |-> CornerId(k[1], k[2]), cell |-> k]
                                              : k \in (shown \X (0 .. 3)) \ masked}]
    BY DEF PerformTracking
  <2>2. PICK masked \in {m \in SUBSET (shown \X (0 .. 3)) : Cardinality(m) <= MaxMasked} :
          points' = [points EXCEPT ![c] = {[id |-> CornerId(k[1], k[2]), cell |-> k]
                                              : k \in (shown \X (0 .. 3)) \ masked}]
    BY <2>1
  <2>3. (shown \X (0 .. 3)) \ masked \in SUBSET (Tags \X (0 .. 3))
    OBVIOUS
  <2> QED
    BY <2>2, <2>3
<1> DEFINE C(k) == [id |-> CornerId(k[1], k[2]), cell |-> k]
<1>2. \A k : C(k).id = CornerId(k[1], k[2])
  OBVIOUS
<1>3. points'[c] = {C(k) : k \in S}
  BY <1>1 DEF Inv, Shape
<1> HIDE DEF C
<1>4. ASSUME NEW k \in S
      PROVE  /\ C(k).id \in Nat /\ C(k).id <= 4 * NumAruco
             /\ \A l \in S : C(k).id = C(l).id => k = l
  <2>1. k[1] \in Tags /\ k[2] \in 0 .. 3 /\ k = <<k[1], k[2]>>
    OBVIOUS
  <2>2. ASSUME NEW l \in S, C(k).id = C(l).id PROVE k = l
    <3>1. l[1] \in Tags /\ l[2] \in 0 .. 3 /\ l = <<l[1], l[2]>>
      OBVIOUS
    <3>2. k[1] = l[1] /\ k[2] = l[2]
      BY <1>2, <2>1, <2>2, <3>1, CornerIds
    <3> QED
      BY <2>1, <3>1, <3>2
  <2> QED
    BY <1>2, <2>1, <2>2, CornerIds
<1>5. OneEach(points'[c])
  BY <1>3, <1>4 DEF OneEach
<1>6. \A i \in Ids(points'[c]) : i \in Nat /\ i <= 4 * NumAruco
  BY <1>3, <1>4 DEF Ids
<1>7. kind = "ARUCO" /\ UNCHANGED <<kind, mode, work, todo, currid, images, seen>>
  BY DEF PerformTracking
<1>8. \A d \in Cams : d # c => points'[d] = points[d]
  BY <1>1 DEF Inv, Shape
<1>9. ASSUME NEW d \in Cams PROVE IdsFit(d)'
  <2>1. IdsFit(d)
    BY DEF NameInv, Named
  <2>2. CASE d = c
    <3>1. work'[d] = {} /\ Ids(work'[d]) = {} /\ OneEach(work'[d])
      BY <1>7, <2>1 DEF IdsFit, Ids, OneEach
    <3>2. \A i \in Used(d)' : i \in Nat /\ i <= 4 * NumAruco
      BY <1>6, <2>2, <3>1 DEF Used
    <3> QED
      BY <1>5, <1>7, <2>2, <3>1, <3>2 DEF IdsFit
  <2>3. CASE d # c
    BY <1>7, <1>8, <2>1, <2>3 DEF IdsFit, Used
  <2> QED
    BY <2>2, <2>3
<1>10. Named'
  BY <1>7, <1>9 DEF NameInv, Named, FirstId
<1>11. ASSUME NEW d \in Cams PROVE \A p \in points'[d] \cup work'[d] : p.id \in Nat
  <2>1. \A i \in Used(d)' : i \in Nat
    BY <1>9 DEF IdsFit
  <2> QED
    BY <2>1 DEF Used, Ids
<1>12. pc' \in [Cams -> Places]
  BY DEF PerformTracking, NameInv, TypeOK, Places
<1>13. TypeOK'
  <2>1. /\ kind' \in Kinds /\ mode' \in Modes /\ currid' \in Nat /\ images' \in 0..MaxImages
        /\ seen' \subseteq Nat /\ \A d \in Cams : todo'[d] \subseteq Cells
    BY <1>7, TodoShape DEF NameInv, TypeOK
  <2> QED
    BY <1>11, <1>12, <2>1 DEF TypeOK, Places
<1> QED
  BY <1>10, <1>13 DEF NameInv

LEMMA StepNames == Inv /\ NameInv /\ [Next]_vars => NameInv'
<1> SUFFICES ASSUME Inv, NameInv, [Next]_vars PROVE NameInv'
  OBVIOUS
<1>1. CASE UNCHANGED vars
  BY <1>1 DEF vars, NameInv, TypeOK, Named, IdsFit, Used, FirstId
<1>2. ASSUME NEW c \in Cams,
             DetectKlt(c) \/ DetectDescriptor(c) \/ Number(c) \/ Store(c) \/ PerformTracking(c)
      PROVE  NameInv'
  BY <1>2, DetectNames, NumberNames, StoreNames, TagNames
<1> QED
  BY <1>1, <1>2, FeedNames, LeftNames, NumberPairNames, StoreStereoNames DEF Next

(***************************************************************************)
(* An id names one point: within a camera no two points have one id, and   *)
(* those the filter takes for corners of tags are (TrackKLT,               *)
(* TrackDescriptor and TrackAruco), for any number of images, points and   *)
(* tags of the dictionary.                                                 *)
(***************************************************************************)
THEOREM IdsName == Spec => []IdNamesPoint
<1>1. Inv /\ [Next]_vars => Inv'
  BY StepInv
<1>2. NameInv => IdNamesPoint
  <2> SUFFICES ASSUME NameInv PROVE IdNamesPoint
    OBVIOUS
  <2>1. ASSUME NEW c \in Cams, NEW p \in points[c]
        PROVE  /\ p.id <= 4 * NumAruco <=> kind = "ARUCO"
               /\ \A q \in points[c] : p.id = q.id => p = q
    <3>1. IdsFit(c) /\ p.id \in Used(c)
      BY DEF NameInv, Named, Used, Ids
    <3> QED
      BY <3>1 DEF IdsFit, OneEach
  <2>2. TypeOK
    BY DEF NameInv
  <2> QED
    BY <2>1, <2>2 DEF IdNamesPoint
<1> QED
  BY InitInv, InitNames, StepNames, <1>1, <1>2, PTL DEF Spec

-----------------------------------------------------------------------------
(***************************************************************************)
(* Twins: of the points TrackKLT held, those its detection kept lie apart, *)
(* and what it added has ids the camera did not hold.                      *)
(***************************************************************************)
RightTwins(c, p, q) ==
    mode = "stereo" /\ c = 1 /\ \E r \in points[0] : r.id \in {p.id, q.id}

KeptOrAdded(c) == \A p \in work[c] : p \in points[c] \/ p.id \notin Ids(points[c])

KeptApart(c) ==
    pc[c] \in {"number", "done"} =>
        \A p, q \in work[c] \cap points[c] : p.cell = q.cell => p = q \/ RightTwins(c, p, q)

Twins == kind = "KLT" => \A c \in Cams : pc[c] # "pair" /\ KeptOrAdded(c) /\ KeptApart(c)

\* TwinsPart, of one step.
TwinsPartStep ==
    \A c \in Cams : kind = "KLT" /\ pc[c] # "idle" /\ pc'[c] = "idle" =>
        \A p, q \in points[c] :
            /\ p # q /\ p.cell = q.cell
            /\ {p.id, q.id} \subseteq Ids(points'[c])
            => RightTwins(c, p, q)

\* The detection of the left image, as far as it is held in the right one too.
LEMMA SharedHeld ==
    ASSUME Inv, kind = "KLT", NEW p \in points[1], p.id \in Ids(work[0])
    PROVE  \E r \in points[0] : r.id = p.id
<1>1. p.id \in Ids(points[1]) /\ Ids(points[1]) \subseteq seen
  BY DEF Inv, Counted, CountedFor, Ids, Cams
<1>2. p.id \in Ids(points[0])
  BY <1>1 DEF Inv, KnownOrNew, Cams
<1> QED
  BY <1>2 DEF Ids

LEMMA DetectTwins == \A c \in Cams : Inv /\ Twins /\ DetectKlt(c) => Twins'
<1> SUFFICES ASSUME NEW c \in Cams, Inv, Twins, DetectKlt(c) PROVE Twins'
  OBVIOUS
<1>1. PICK kept \in SUBSET work[c] : Apart(c, kept) /\ work' = [work EXCEPT ![c] = kept]
  BY DEF DetectKlt
<1>2. /\ kind = "KLT" /\ UNCHANGED <<kind, mode, points>>
      /\ pc' = [pc EXCEPT ![c] = "number"] /\ DOMAIN pc = Cams /\ DOMAIN work = Cams
  BY DEF DetectKlt, Inv, Shape
<1>3. ASSUME NEW d \in Cams PROVE pc'[d] # "pair" /\ KeptOrAdded(d)'
  BY <1>1, <1>2 DEF Twins, KeptOrAdded
<1>4. ASSUME NEW d \in Cams, d # c PROVE KeptApart(d)'
  BY <1>1, <1>2, <1>4 DEF Twins, KeptApart, RightTwins
<1>5. ASSUME NEW p \in kept \cap points[c], NEW q \in kept \cap points[c], p.cell = q.cell, p # q
      PROVE  RightTwins(c, p, q)
  <2>1. MayMeet(c, p, q)
    BY <1>1, <1>5 DEF Apart
  <2>2. mode = "stereo" /\ c = 1 /\ (p.id \in Ids(work[0]) \/ q.id \in Ids(work[0]))
    BY <2>1 DEF MayMeet
  <2> QED
    BY <1>2, <2>2, SharedHeld DEF RightTwins
<1>6. KeptApart(c)'
  <2>1. work'[c] = kept /\ points'[c] = points[c]
    BY <1>1, <1>2
  <2>2. \A p, q : RightTwins(c, p, q)' <=> RightTwins(c, p, q)
    BY <1>2 DEF RightTwins
  <2> QED
    BY <1>5, <2>1, <2>2 DEF KeptApart
<1> QED
  BY <1>2, <1>3, <1>4, <1>6 DEF Twins

LEMMA FeedTwins == Twins /\ FeedNewCamera => Twins'
<1> SUFFICES ASSUME FeedNewCamera, kind = "KLT", NEW c \in Cams
             PROVE  pc'[c] # "pair" /\ KeptOrAdded(c)' /\ KeptApart(c)'
  BY DEF Twins, FeedNewCamera
<1>1. pc'[c] \in {"idle", "detect", "wait"}
  BY DEF FeedNewCamera
<1>2. work'[c] = points'[c] \/ work'[c] = {}
  BY DEF FeedNewCamera
<1> QED
  BY <1>1, <1>2 DEF KeptOrAdded, KeptApart

LEMMA LeftTwins == Inv /\ Twins /\ LeftDone => Twins'
<1> SUFFICES ASSUME Inv, Twins, LeftDone, kind = "KLT", NEW c \in Cams
             PROVE  pc'[c] # "pair" /\ KeptOrAdded(c)' /\ KeptApart(c)'
  BY DEF Twins, LeftDone
<1>1. pc'[c] = IF c = 0 THEN "done" ELSE "detect"
  BY DEF LeftDone
<1>2. pc[0] = "number" /\ UNCHANGED <<kind, mode, points, work>> /\ c \in {0, 1}
  BY DEF LeftDone, Cams
<1> QED
  BY <1>1, <1>2 DEF Twins, KeptOrAdded, KeptApart, RightTwins

LEMMA NumberTwins == \A c \in Cams : Inv /\ NameInv /\ Twins /\ Number(c) => Twins'
<1> SUFFICES ASSUME NEW c \in Cams, Inv, NameInv, Twins, Number(c), kind = "KLT", NEW d \in Cams
             PROVE  pc'[d] # "pair" /\ KeptOrAdded(d)' /\ KeptApart(d)'
  BY DEF Twins, Number
<1>1. UNCHANGED <<kind, mode, pc, points>>
  BY DEF Number
<1>2. pc[d] # "pair" /\ KeptOrAdded(d) /\ KeptApart(d)
  BY DEF Twins
<1>3. NextId \notin Ids(points[d])
  BY IdNumbers
<1>4. work'[d] = work[d] \/ \E p : p.id = NextId /\ work'[d] = work[d] \cup {p}
  BY NumberAdds
<1>5. CASE work'[d] = work[d]
  BY <1>1, <1>2, <1>5 DEF KeptOrAdded, KeptApart, RightTwins
<1>6. ASSUME NEW p, p.id = NextId, work'[d] = work[d] \cup {p}
      PROVE  KeptOrAdded(d)' /\ KeptApart(d)'
  <2>1. p \notin points[d]
    BY <1>3, <1>6 DEF Ids
  <2>2. work'[d] \cap points'[d] = work[d] \cap points[d]
    BY <1>1, <1>6, <2>1
  <2>3. KeptApart(d)'
    BY <1>1, <1>2, <2>2 DEF KeptApart, RightTwins
  <2>4. KeptOrAdded(d)'
    BY <1>1, <1>2, <1>3, <1>6 DEF KeptOrAdded
  <2> QED
    BY <2>3, <2>4
<1> QED
  BY <1>1, <1>2, <1>4, <1>5, <1>6

\* Of the points held, those whose ids the detection has are in it.
LEMMA StillThere ==
    ASSUME NameInv, NEW c \in Cams, KeptOrAdded(c), NEW p \in points[c], p.id \in Ids(work[c])
    PROVE  p \in work[c] \cap points[c]
<1>1. PICK w \in work[c] : w.id = p.id
  BY DEF Ids
<1>2. p.id \in Ids(points[c]) /\ OneEach(points[c])
  BY DEF Ids, NameInv, Named, IdsFit
<1> QED
  BY <1>1, <1>2 DEF KeptOrAdded, OneEach

\* What is stored for a camera is followed from its detection.
LEMMA FollowedTwins ==
    ASSUME NameInv, Twins, kind = "KLT", NEW c \in Cams, pc[c] \in {"number", "done"},
           Ids(points'[c]) \subseteq Ids(work[c]),
           NEW p \in points[c], NEW q \in points[c], p # q, p.cell = q.cell,
           {p.id, q.id} \subseteq Ids(points'[c])
    PROVE  RightTwins(c, p, q)
<1>1. KeptOrAdded(c) /\ KeptApart(c)
  BY DEF Twins
<1>2. p \in work[c] \cap points[c] /\ q \in work[c] \cap points[c]
  BY <1>1, StillThere
<1> QED
  BY <1>1, <1>2 DEF KeptApart

LEMMA StoreTwins == \A c \in Cams : Inv /\ NameInv /\ Twins /\ Store(c) => Twins' /\ TwinsPartStep
<1> SUFFICES ASSUME NEW c \in Cams, Inv, NameInv, Twins, Store(c), kind = "KLT"
             PROVE  Twins' /\ TwinsPartStep
  BY DEF Twins, TwinsPartStep, Store
<1>1. PICK next \in IF points[c] = {} THEN {work[c]} ELSE Followed(c) :
          points' = [points EXCEPT ![c] = next]
  BY DEF Store
<1>2. /\ mode # "stereo" /\ pc[c] = "number" /\ UNCHANGED <<kind, mode>>
      /\ pc' = [pc EXCEPT ![c] = "idle"] /\ work' = [work EXCEPT ![c] = {}]
      /\ DOMAIN pc = Cams /\ DOMAIN work = Cams /\ DOMAIN points = Cams
  BY DEF Store, Inv, Shape
<1>3. points'[c] = next
  BY <1>1, <1>2
<1>4. points[c] # {} => Ids(next) \subseteq Ids(work[c])
  BY <1>1, TrackedIds DEF Followed
<1>5. \A d \in Cams : pc[d] # "idle" /\ pc'[d] = "idle" => d = c
  BY <1>2
<1>6. TwinsPartStep
  BY <1>2, <1>3, <1>4, <1>5, FollowedTwins DEF TwinsPartStep
<1>7. ASSUME NEW d \in Cams PROVE pc'[d] # "pair" /\ KeptOrAdded(d)' /\ KeptApart(d)'
  <2>1. CASE d = c
    <3>1. pc'[d] = "idle" /\ work'[d] = {}
      BY <1>2, <2>1
    <3> QED
      BY <3>1 DEF KeptOrAdded, KeptApart
  <2>2. CASE d # c
    <3>1. pc'[d] = pc[d] /\ work'[d] = work[d] /\ points'[d] = points[d]
      BY <1>1, <1>2, <2>2
    <3>2. pc[d] # "pair" /\ KeptOrAdded(d) /\ KeptApart(d)
      BY DEF Twins
    <3>3. KeptApart(d)'
      BY <1>2, <3>1, <3>2 DEF KeptApart, RightTwins
    <3> QED
      BY <3>1, <3>2, <3>3 DEF KeptOrAdded
  <2> QED
    BY <2>1, <2>2
<1> QED
  BY <1>6, <1>7 DEF Twins

LEMMA StoreStereoTwins == Inv /\ NameInv /\ Twins /\ StoreStereo => Twins' /\ TwinsPartStep
<1> SUFFICES ASSUME Inv, NameInv, Twins, StoreStereo, kind = "KLT"
             PROVE  Twins' /\ TwinsPartStep
  BY DEF Twins, TwinsPartStep, StoreStereo
<1>1. PICK next \in IF StartsAgain THEN {<<work[0], work[1]>>} ELSE FollowedPair :
          points' = [c \in Cams |-> next[c + 1]]
  BY DEF StoreStereo
<1>2. /\ pc[0] = "done" /\ pc[1] = "number" /\ UNCHANGED <<kind, mode>>
      /\ \A c \in Cams : pc'[c] = "idle" /\ work'[c] = {}
  BY DEF StoreStereo, Twins, Cams
<1>3. points'[0] = next[1] /\ points'[1] = next[2]
  BY <1>1 DEF Cams
<1>4. ASSUME NEW c \in Cams, points[c] # {} PROVE Ids(points'[c]) \subseteq Ids(work[c])
  <2>1. next \in FollowedPair
    BY <1>1, <1>4 DEF StartsAgain, Cams
  <2>2. PICK l \in Tracked(0), r \in Tracked(1) : next = <<l, r>>
    BY <2>1 DEF FollowedPair
  <2> QED
    BY <1>3, <2>2, TrackedIds DEF Cams
<1>5. TwinsPartStep
  BY <1>2, <1>4, FollowedTwins DEF TwinsPartStep, Cams
<1>6. Twins'
  BY <1>2 DEF Twins, KeptOrAdded, KeptApart
<1> QED
  BY <1>5, <1>6

LEMMA StepTwins == Inv /\ NameInv /\ Twins /\ [Next]_vars => Twins' /\ TwinsPartStep
<1> SUFFICES ASSUME Inv, NameInv, Twins, [Next]_vars PROVE Twins' /\ TwinsPartStep
  OBVIOUS
<1>1. (\A c \in Cams : pc'[c] = "idle" => pc[c] = "idle") => TwinsPartStep
  BY DEF TwinsPartStep
<1>2. kind # "KLT" /\ kind' = kind => Twins' /\ TwinsPartStep
  BY DEF Twins, TwinsPartStep
<1>3. CASE FeedNewCamera
  BY <1>1, <1>3, FeedTwins DEF FeedNewCamera
<1>4. CASE LeftDone
  BY <1>1, <1>4, LeftTwins DEF LeftDone
<1>5. CASE NumberPair
  BY <1>2, <1>5 DEF NumberPair, Twins, Cams
<1>6. CASE StoreStereo
  BY <1>6, StoreStereoTwins
<1>7. ASSUME NEW c \in Cams, DetectKlt(c) PROVE Twins' /\ TwinsPartStep
  <2>1. \A d \in Cams : pc'[d] = "idle" => pc[d] = "idle"
    BY <1>7 DEF DetectKlt, Inv, Shape
  <2> QED
    BY <1>1, <1>7, <2>1, DetectTwins
<1>8. ASSUME NEW c \in Cams, Number(c) PROVE Twins' /\ TwinsPartStep
  BY <1>1, <1>8, NumberTwins DEF Number
<1>9. ASSUME NEW c \in Cams, Store(c) PROVE Twins' /\ TwinsPartStep
  BY <1>9, StoreTwins
<1>10. ASSUME NEW c \in Cams, DetectDescriptor(c) \/ PerformTracking(c)
       PROVE  Twins' /\ TwinsPartStep
  <2>1. kind # "KLT" /\ kind' = kind
    BY <1>10 DEF DetectDescriptor, PerformTracking
  <2> QED
    BY <1>2, <2>1
<1>11. CASE UNCHANGED vars
  BY <1>1, <1>11 DEF vars, Twins, KeptOrAdded, KeptApart, RightTwins
<1> QED
  BY <1>3, <1>4, <1>5, <1>6, <1>7, <1>8, <1>9, <1>10, <1>11 DEF Next

(***************************************************************************)
(* Points that drifted together part (TrackKLT, its two detections): of   *)
(* two in one cell at most one is followed further, but for those of a     *)
(* right image that the left one has as well.                              *)
(***************************************************************************)
THEOREM DriftedPart == Spec => TwinsPart
<1>1. Init => Twins
  BY DEF Init, Twins, KeptOrAdded, KeptApart, Cams
<1>2. Inv /\ [Next]_vars => Inv'
  BY StepInv
<1>3. Inv /\ NameInv /\ Twins /\ [Next]_vars => Twins' /\ [TwinsPartStep]_vars
  BY StepTwins
<1>4. TwinsPartStep =>
        \A c \in Cams : kind = "KLT" /\ pc[c] # "idle" /\ pc'[c] = "idle" =>
            \A p, q \in points[c] :
                /\ p # q /\ p.cell = q.cell
                /\ {p.id, q.id} \subseteq Ids(points'[c])
                => /\ mode = "stereo" /\ c = 1
                   /\ \E r \in points[0] : r.id \in {p.id, q.id}
  BY DEF TwinsPartStep, RightTwins
<1> QED
  BY InitInv, InitNames, StepNames, <1>1, <1>2, <1>3, <1>4, PTL DEF Spec, TwinsPart
=============================================================================
