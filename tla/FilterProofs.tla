---------------------------- MODULE FilterProofs ----------------------------
(***************************************************************************)
(* What is proved about the OpenVINS filter: that the update of one camera *)
(* measurement (FilterWindow) keeps its window, its anchors and its limits *)
(* and uses no measurement twice; and, in the second part, that the ids of *)
(* the state (StateCov) point at their own rows of the covariance.         *)
(*                                                                         *)
(* The invariant of FilterWindow counts the clones at every step (Sizes),  *)
(* says where the state stands with respect to them (StandsAtClone), that  *)
(* anchors are among them (Anchored) and that landmarks and those to come  *)
(* fit (Counted).  That information is used once also needs that images    *)
(* come one after the other (Seen), that no landmark is left with a        *)
(* measurement it could use (NothingWaits), which the lists of an update   *)
(* then keep apart (ListsApart), and what is unused at each step (UsedOnce).*)
(*                                                                         *)
(* In StateCov, that two blocks do not overlap is not part of the          *)
(* invariant: it follows from the labels of the rows, because an overlap   *)
(* would give one row two labels.                                          *)
(***************************************************************************)
EXTENDS FilterWindow, StateCov, FiniteSetTheorems, WellFoundedInduction, TLAPS

Updating == {"select", "update", "slam", "delayed", "cleanup", "anchors", "marg"}
LandmarkRecords == [anchor : Times, fail_count : 0..2]
Works == [msckf : SUBSET Points, update : SUBSET Feats, twice : SUBSET Feats,
          delayed : SUBSET Feats]

\* The types, with those of the records.
Typed ==
    /\ TypeOK
    /\ message \in [cam : Cams, ts : 0..MaxTime]
    /\ pc # "idle" => message.ts \in Times
    /\ slam \in [DOMAIN slam -> LandmarkRecords]
    /\ moved \in BOOLEAN
    /\ zupt \in [did : BOOLEAN, last : 0..MaxTime, count : 0..2]
    /\ work \in Works
    /\ used \in [Feats -> SUBSET Times]

------------------------------------------------------------------------------
(* Sets of times *)

\* A set of times that is not empty has a least and a newest element.
LEMMA LeastMember ==
  ASSUME NEW T \in SUBSET Nat, T # {}
  PROVE  Least(T) \in T /\ \A u \in T : Least(T) <= u
<1> DEFINE R == OpToRel(<, Nat)
<1>1. IsWellFoundedOn(R, Nat)
  BY NatLessThanWellFounded
<1>2. \A x, y \in Nat : y < x => <<y, x>> \in R
  BY DEF OpToRel
<1> HIDE DEF R
<1>3. PICK x \in T : \A y \in T : ~(<<y, x>> \in R)
  BY <1>1, WFMin
<1>4. ASSUME NEW y \in T PROVE x <= y
  <2>1. ~(y < x)
    BY <1>2, <1>3
  <2> QED BY <2>1
<1> QED BY <1>4 DEF Least

\* A set of times that is not empty has a newest element.
LEMMA NewestMember ==
  ASSUME NEW T \in SUBSET Times, T # {}
  PROVE  Newest(T) \in T /\ \A u \in T : u <= Newest(T)
<1>1. MaxTime \in Nat /\ \A t \in T : t \in Nat /\ t <= MaxTime
  BY WindowAssumption DEF WindowAssumption, Times
<1> DEFINE U == {MaxTime - t : t \in T}
<1>2. U \in SUBSET Nat /\ U # {}
  BY <1>1
<1>3. Least(U) \in U /\ \A u \in U : Least(U) <= u
  BY <1>2, LeastMember
<1>4. PICK x \in T : Least(U) = MaxTime - x
  BY <1>3
<1>5. \A y \in T : y <= x
  <2> TAKE y \in T
  <2>1. MaxTime - y \in U
    OBVIOUS
  <2>2. MaxTime - x <= MaxTime - y
    BY <1>3, <1>4, <2>1
  <2> QED BY <1>1, <2>2
<1> QED BY <1>5 DEF Newest

\* Times are few.
LEMMA TimesFinite ==
  ASSUME NEW T \in SUBSET Times
  PROVE  IsFiniteSet(T) /\ Cardinality(T) \in Nat
<1>1. 1 \in Int /\ MaxTime \in Int
  BY WindowAssumption DEF WindowAssumption
<1>2. IsFiniteSet(Times)
  BY <1>1, FS_Interval DEF Times
<1>3. IsFiniteSet(T)
  BY <1>2, FS_Subset
<1> QED BY <1>3, FS_CardinalityType

\* Sets of features are finite.
LEMMA FeatsFinite ==
  ASSUME NEW S \in SUBSET Feats
  PROVE  IsFiniteSet(S) /\ Cardinality(S) \in Nat
<1>1. IsFiniteSet(S)
  BY WindowAssumption, FS_Subset DEF WindowAssumption
<1> QED BY <1>1, FS_CardinalityType

\* The numbers.
LEMMA Numbers ==
  /\ MaxTime \in Nat /\ MaxCloneSize \in Nat /\ MaxCloneSize >= 1 /\ MaxSlam \in Nat
  /\ Views \in {1, 2} /\ MinMeas \in {1, 2} /\ Times \subseteq Nat /\ Cams \subseteq Nat
  /\ Points \cap Corners = {} /\ Points \subseteq Feats /\ Corners \subseteq Feats
BY WindowAssumption DEF WindowAssumption, Times, Feats

------------------------------------------------------------------------------
(* Types *)

\* The catch-up leaves at most a window of clones.
LEMMA CatchUpFits ==
  ASSUME NEW n \in 0..MaxTime
  PROVE  /\ CatchUp(n) \in SUBSET (1..n) /\ CatchUp(n) \in SUBSET Times
         /\ Cardinality(CatchUp(n)) <= MaxCloneSize
<1> DEFINE Steps == 0..(MaxCloneSize - 1)
           at == [i \in Steps |-> 1 + i * CloneRate(n)]
           Visited == {at[i] : i \in Steps}
<1>1. IsFiniteSet(Steps) /\ Cardinality(Steps) = MaxCloneSize
  BY Numbers, FS_Interval
<1>2. at \in Surjection(Steps, Visited)
  BY DEF Surjection
<1>3. IsFiniteSet(Visited) /\ Cardinality(Visited) <= MaxCloneSize
  <2> HIDE DEF at, Visited, Steps
  <2> QED BY <1>1, <1>2, FS_Surjection
<1>4. CatchUp(n) \in SUBSET Visited /\ CatchUp(n) \in SUBSET (1..n)
  BY DEF CatchUp
<1>5. Cardinality(CatchUp(n)) \in Nat /\ Cardinality(Visited) \in Nat
      /\ Cardinality(CatchUp(n)) <= Cardinality(Visited)
  <2> HIDE DEF Visited
  <2> QED BY <1>3, <1>4, FS_Subset, FS_CardinalityType
<1>6. CatchUp(n) \in SUBSET Times
  BY <1>4, Numbers DEF Times
<1> QED BY <1>3, <1>4, <1>5, <1>6, Numbers

\* The state stands at the newest of them, or at none.
LEMMA InitClones ==
  ASSUME Init
  PROVE  /\ clones \in SUBSET Times /\ Cardinality(clones) <= MaxCloneSize
         /\ timestamp \in 0..MaxTime /\ timestamp <= message.ts
         /\ \A t \in clones : t <= timestamp
         /\ timestamp # 0 => timestamp \in clones
<1>0. PICK images \in 0..MaxTime :
         \E late \in 0..images : message.ts = images /\ clones = CatchUp(late)
  BY DEF Init
<1>1. PICK late \in 0..images : message.ts = images /\ clones = CatchUp(late)
  BY <1>0
<1>2. /\ late \in 0..MaxTime /\ clones \in SUBSET (1..late) /\ clones \in SUBSET Times
      /\ Cardinality(clones) <= MaxCloneSize
  <2>1. late \in 0..MaxTime
    BY Numbers
  <2> QED BY <1>1, <2>1, CatchUpFits
<1>3. CASE clones = {}
  BY <1>1, <1>2, <1>3, Numbers DEF Init
<1>4. CASE clones # {}
  <2>1. timestamp = Newest(clones)
    BY <1>4 DEF Init
  <2>2. timestamp \in clones /\ \A t \in clones : t <= timestamp
    BY <1>2, <1>4, <2>1, NewestMember
  <2>3. timestamp \in 1..late
    BY <1>2, <2>2
  <2> QED BY <1>1, <1>2, <2>2, <2>3, Numbers
<1> QED BY <1>3, <1>4

\* The state try_to_initialize leaves has the types, records included.
LEMMA InitTyped == Init => Typed
<1> SUFFICES ASSUME Init PROVE Typed
  OBVIOUS
<1> USE Numbers
<1>1. timestamp \in 0..MaxTime /\ clones \subseteq Times
  BY InitClones DEF Times
<1>2. PICK c \in Cams, images \in 0..MaxTime : message = [cam |-> c, ts |-> images]
  BY DEF Init
<1>3. message \in [cam : Cams, ts : 0..MaxTime]
  BY <1>2
<1>4. db \in [Feats -> SUBSET Times]
  <2>1. PICK first, last \in [Points -> 1..(message.ts + 1)] :
           db = [f \in Feats |-> IF f \in Points
                             THEN first[f]..Smaller(last[f], NewestImage(f)) ELSE {}]
    BY DEF Init
  <2>2. \A f \in Points : first[f] \in 1..(message.ts + 1) /\ last[f] \in 1..(message.ts + 1)
    BY <2>1
  <2>3. ASSUME NEW f \in Points
        PROVE  first[f]..Smaller(last[f], NewestImage(f)) \subseteq Times
    <3>1. NewestImage(f) \in Int /\ NewestImage(f) <= message.ts
      BY <1>2 DEF NewestImage
    <3> QED BY <1>2, <2>2, <3>1 DEF Smaller, Times
  <2> QED BY <2>1, <2>3
<1>5. slam \in [DOMAIN slam -> LandmarkRecords] /\ DOMAIN slam = {}
  BY DEF Init
<1>6. zupt \in [did : BOOLEAN, last : 0..MaxTime, count : 0..2] /\ moved \in BOOLEAN
  BY DEF Init
<1>7. work \in Works /\ used \in [Feats -> SUBSET Times]
  BY DEF Init, NoWork, Works
<1>8. pc = "idle"
  BY DEF Init
<1> QED BY <1>1, <1>3, <1>4, <1>5, <1>6, <1>7, <1>8 DEF Typed, TypeOK

\* What the lists of an update may hold.
LEMMA Selected ==
  ASSUME Typed, SelectFeatures
  PROVE  \E new \in SUBSET MaxTracks, best \in SUBSET Feats :
        LET listed == {f \in DOMAIN slam : db[f] # {}}
            kept == DOMAIN slam \ Finished
            chosen == CornersAtMarg \cup new \cup listed
        IN  /\ Cardinality(new) <= (IF RoomForSlam > 0 THEN RoomForSlam ELSE 0)
            /\ best \subseteq MsckfCandidates(new)
            /\ slam' = [f \in kept |-> slam[f]]
            /\ work' = [msckf |-> best,
                        update |-> chosen \cap kept,
                        twice |-> CornersAtMarg \cap listed \cap kept,
                        delayed |-> chosen \ kept]
BY DEF SelectFeatures, IsBest

\* Choosing features removes landmarks and changes none (marginalize_slam).
LEMMA SelectTyped ==
  ASSUME Typed, SelectFeatures
  PROVE  /\ slam' \in [DOMAIN slam' -> LandmarkRecords] /\ DOMAIN slam' \subseteq DOMAIN slam
         /\ \A f \in DOMAIN slam' : slam'[f] = slam[f]
         /\ work' \in Works
<1>1. PICK new \in SUBSET MaxTracks, best \in SUBSET Feats :
        LET listed == {f \in DOMAIN slam : db[f] # {}}
            kept == DOMAIN slam \ Finished
            chosen == CornersAtMarg \cup new \cup listed
        IN  /\ best \subseteq MsckfCandidates(new)
            /\ slam' = [f \in kept |-> slam[f]]
            /\ work' = [msckf |-> best,
                        update |-> chosen \cap kept,
                        twice |-> CornersAtMarg \cap listed \cap kept,
                        delayed |-> chosen \ kept]
  BY Selected
<1>2. DOMAIN slam \subseteq Feats /\ slam \in [DOMAIN slam -> LandmarkRecords]
  BY DEF Typed, TypeOK
<1>3. DOMAIN slam' = DOMAIN slam \ Finished
  BY <1>1
<1>4. \A f \in DOMAIN slam' : slam'[f] = slam[f] /\ slam[f] \in LandmarkRecords
  BY <1>1, <1>2
<1>5. slam' \in [DOMAIN slam' -> LandmarkRecords]
  BY <1>1, <1>3, <1>4
<1>6. CornersAtMarg \subseteq Feats /\ new \subseteq Feats /\ best \subseteq Points
  BY <1>1, Numbers DEF CornersAtMarg, AtMargTime, MaxTracks, MsckfCandidates, FeatsLost
<1>7. work' \in Works
  BY <1>1, <1>2, <1>6 DEF Works
<1> QED BY <1>3, <1>4, <1>5, <1>7
\* What an update leaves of the landmarks, and of the measurements used.
LEMMA UsableTyped ==
  ASSUME Typed, NEW f \in Feats
  PROVE  Usable(f) \in SUBSET Times /\ Usable(f) \subseteq db[f] /\ Usable(f) \subseteq clones
         /\ IsFiniteSet(Usable(f)) /\ Cardinality(Usable(f)) \in Nat
<1>1. Usable(f) \in SUBSET Times /\ Usable(f) \subseteq db[f] /\ Usable(f) \subseteq clones
  BY DEF Usable, Typed, TypeOK
<1> QED BY <1>1, TimesFinite

\* What can be triangulated was measured at some clone.
LEMMA MeasuredAtClone ==
  ASSUME NEW f, Triangulable(f)
  PROVE  Usable(f) # {}
<1>1. Cardinality({}) = 0
  BY FS_EmptySet
<1> QED BY <1>1, Numbers DEF Triangulable

\* An update notes times as used.
LEMMA UsedTyped ==
  ASSUME Typed, NEW taken \in SUBSET Feats,
         used' = [f \in Feats |-> IF f \in taken THEN used[f] \cup Usable(f) ELSE used[f]]
  PROVE  used' \in [Feats -> SUBSET Times]
<1>1. \A f \in Feats : Usable(f) \in SUBSET Times
  BY UsableTyped
<1> QED BY <1>1 DEF Typed

\* UpdaterSLAM::update moves no anchor and adds no landmark.
LEMMA UpdateTyped ==
  ASSUME Typed, UpdateSlam
  PROVE  /\ slam' \in [DOMAIN slam' -> LandmarkRecords] /\ DOMAIN slam' = DOMAIN slam
         /\ \A f \in DOMAIN slam : slam'[f].anchor = slam[f].anchor
<1>1. PICK kept \in SUBSET Feats : slam' = [f \in DOMAIN slam |->
                       IF f \in kept
                       THEN [slam[f] EXCEPT !.fail_count = FailCount(f)]
                       ELSE slam[f]]
  <2>1. PICK taken \in SUBSET {f \in work.update : Cardinality(Usable(f)) >= MinMeas} :
           slam' = [f \in DOMAIN slam |->
                       IF f \in {g \in work.update : Cardinality(Usable(g)) >= MinMeas} \ taken
                       THEN [slam[f] EXCEPT !.fail_count = FailCount(f)]
                       ELSE slam[f]]
    BY DEF UpdateSlam
  <2>2. {g \in work.update : Cardinality(Usable(g)) >= MinMeas} \ taken \in SUBSET Feats
    BY DEF Typed, Works
  <2> QED BY <2>1, <2>2
<1>2. \A f \in DOMAIN slam : slam[f] \in LandmarkRecords
  BY DEF Typed
<1>3. \A f \in DOMAIN slam : FailCount(f) \in 0..2
  BY <1>2 DEF FailCount, Smaller, LandmarkRecords
<1>4. \A f \in DOMAIN slam : [slam[f] EXCEPT !.fail_count = FailCount(f)] \in LandmarkRecords
                             /\ [slam[f] EXCEPT !.fail_count = FailCount(f)].anchor = slam[f].anchor
  BY <1>2, <1>3 DEF LandmarkRecords
<1> QED BY <1>1, <1>2, <1>4

\* A feature becomes a landmark anchored at a clone it was measured at.
LEMMA DelayedTyped ==
  ASSUME Typed, DelayedInit
  PROVE  \E taken \in SUBSET {f \in work.delayed : Triangulable(f)} :
           /\ slam' \in [DOMAIN slam \cup taken -> LandmarkRecords]
           /\ DOMAIN slam' = DOMAIN slam \cup taken
           /\ \A f \in taken : slam'[f].anchor \in clones
           /\ \A f \in DOMAIN slam \ taken : slam'[f] = slam[f]
           /\ reused' = (reused \/ \E f \in taken : Usable(f) \cap used[f] # {})
           /\ used' = [f \in Feats |-> IF f \in taken THEN used[f] \cup Usable(f)
                                       ELSE used[f]]
<1>1. PICK taken \in SUBSET {f \in work.delayed : Triangulable(f)} :
        /\ reused' = (reused \/ \E f \in taken : Usable(f) \cap used[f] # {})
        /\ used' = [f \in Feats |-> IF f \in taken THEN used[f] \cup Usable(f)
                                    ELSE used[f]]
        /\ slam' = [f \in DOMAIN slam \cup taken |->
                       IF f \in taken
                       THEN [anchor |-> Newest(Usable(f)), fail_count |-> 0]
                       ELSE slam[f]]
  BY DEF DelayedInit
<1>2. taken \subseteq Feats
  BY DEF Typed, Works
<1>3. ASSUME NEW f \in taken
      PROVE  Newest(Usable(f)) \in clones /\ Newest(Usable(f)) \in Times
  <2>1. Usable(f) \in SUBSET Times /\ Usable(f) \subseteq clones
    BY <1>2, UsableTyped
  <2>2. Usable(f) # {}
    BY MeasuredAtClone
  <2> QED BY <2>1, <2>2, NewestMember
<1>4. \A f \in taken : [anchor |-> Newest(Usable(f)), fail_count |-> 0] \in LandmarkRecords
  BY <1>3 DEF LandmarkRecords
<1>5. \A f \in DOMAIN slam : slam[f] \in LandmarkRecords
  BY DEF Typed
<1>6. slam' \in [DOMAIN slam \cup taken -> LandmarkRecords]
  BY <1>1, <1>4, <1>5
<1>7. \A f \in taken : slam'[f].anchor \in clones
  BY <1>1, <1>3
<1> QED BY <1>1, <1>6, <1>7

\* An anchor that moves goes to the state's time.
LEMMA ChangeTyped ==
  ASSUME Typed, ChangeAnchors
  PROVE  \/ UNCHANGED slam
         \/ /\ timestamp \in clones \/ AnchorsToMove = {}
            /\ slam' \in [DOMAIN slam -> LandmarkRecords] /\ DOMAIN slam' = DOMAIN slam
            /\ \A f \in DOMAIN slam :
                  slam'[f].anchor = IF f \in AnchorsToMove THEN timestamp ELSE slam[f].anchor
<1>1. SUFFICES ASSUME ~UNCHANGED slam
      PROVE  /\ timestamp \in clones \/ AnchorsToMove = {}
             /\ slam' \in [DOMAIN slam -> LandmarkRecords] /\ DOMAIN slam' = DOMAIN slam
             /\ \A f \in DOMAIN slam :
                   slam'[f].anchor = IF f \in AnchorsToMove THEN timestamp ELSE slam[f].anchor
  OBVIOUS
<1>2. /\ timestamp \in clones \/ AnchorsToMove = {}
      /\ slam' = [f \in DOMAIN slam |-> IF f \in AnchorsToMove
                           THEN [slam[f] EXCEPT !.anchor = timestamp]
                           ELSE slam[f]]
  BY <1>1 DEF ChangeAnchors
<1>3. \A f \in DOMAIN slam : slam[f] \in LandmarkRecords
  BY DEF Typed
<1>4. AnchorsToMove # {} => timestamp \in Times
  BY <1>2 DEF Typed, TypeOK
<1>5. ASSUME NEW f \in AnchorsToMove
      PROVE  /\ [slam[f] EXCEPT !.anchor = timestamp] \in LandmarkRecords
             /\ [slam[f] EXCEPT !.anchor = timestamp].anchor = timestamp
  BY <1>3, <1>4 DEF LandmarkRecords, AnchorsToMove
<1> QED BY <1>2, <1>3, <1>5

\* Every step of a measurement keeps the types.
LEMMA StepTyped ==
  ASSUME Typed, Next
  PROVE  Typed'
<1> USE Numbers DEF Typed, TypeOK
<1>1. ASSUME NEW c \in Cams, NEW t \in Times, NEW seen \in SUBSET Feats,
             FeedNewCamera(c, t, seen)
      PROVE  Typed'
  <2>1. message' = [cam |-> c, ts |-> t] /\ t \in 0..MaxTime
    BY <1>1 DEF FeedNewCamera, Times
  <2>2. message' \in [cam : Cams, ts : 0..MaxTime] /\ message'.ts \in Times
    BY <2>1
  <2>3. db' \in [Feats -> SUBSET Times]
    BY <1>1 DEF FeedNewCamera
  <2>4. pc' \in {"zupt", "propagate"}
    BY <1>1 DEF FeedNewCamera
  <2> QED BY <1>1, <2>2, <2>3, <2>4 DEF FeedNewCamera
<1>2. CASE ZuptAgain
  BY <1>2 DEF ZuptAgain
<1>3. CASE ZuptAccept
  <2>1. db' \in [Feats -> SUBSET Times]
    BY <1>3 DEF ZuptAccept, WithoutTime
  <2>2. message.ts \in 0..MaxTime
    OBVIOUS
  <2>3. Smaller(zupt.count + 1, 2) \in 0..2
    BY DEF Smaller
  <2>4. zupt' \in [did : BOOLEAN, last : 0..MaxTime, count : 0..2]
    BY <1>3, <2>2, <2>3 DEF ZuptAccept
  <2> QED BY <1>3, <2>1, <2>2, <2>4 DEF ZuptAccept
<1>4. CASE ZuptReject
  <2>1. zupt' \in [did : BOOLEAN, last : 0..MaxTime, count : 0..2]
    BY <1>4 DEF ZuptReject
  <2> QED BY <1>4, <2>1 DEF ZuptReject
<1>5. CASE Propagate
  <2>1. message.ts \in Times /\ message.ts \in 0..MaxTime
    BY <1>5 DEF Propagate
  <2>2. timestamp' \in 0..MaxTime /\ clones' \subseteq Times
    BY <1>5, <2>1 DEF Propagate, CloneHere
  <2>3. moved' \in BOOLEAN /\ pc' \in {"idle", "exit", "select"}
    BY <1>5 DEF Propagate
  <2> QED BY <1>5, <2>1, <2>2, <2>3 DEF Propagate
<1>6. CASE SelectFeatures
  <2>1. DOMAIN slam' \subseteq Feats
    BY <1>6, SelectTyped
  <2>2. slam' \in [DOMAIN slam' -> LandmarkRecords] /\ work' \in Works
    BY <1>6, SelectTyped
  <2>3. \A f \in DOMAIN slam' : slam'[f].anchor \in Times /\ slam'[f].fail_count \in 0..2
    BY <2>2 DEF LandmarkRecords
  <2> QED BY <1>6, <2>1, <2>2, <2>3 DEF SelectFeatures
<1>7. CASE UpdateMsckf
  <2>1. used' \in [Feats -> SUBSET Times]
    <3>1. PICK taken \in SUBSET {f \in work.msckf : Triangulable(f)} :
            used' = [f \in Feats |-> IF f \in taken THEN used[f] \cup Usable(f) ELSE used[f]]
      BY <1>7 DEF UpdateMsckf
    <3>2. taken \subseteq Feats
      BY DEF Works
    <3> QED BY <3>1, <3>2, UsedTyped
  <2> QED BY <1>7, <2>1 DEF UpdateMsckf
<1>8. CASE UpdateSlam
  <2>1. used' \in [Feats -> SUBSET Times]
    <3>1. PICK taken \in SUBSET {f \in work.update : Cardinality(Usable(f)) >= MinMeas} :
            used' = [f \in Feats |-> IF f \in taken THEN used[f] \cup Usable(f) ELSE used[f]]
      BY <1>8 DEF UpdateSlam
    <3>2. taken \subseteq Feats
      BY DEF Works
    <3> QED BY <3>1, <3>2, UsedTyped
  <2>2. DOMAIN slam' \subseteq Feats /\ slam' \in [DOMAIN slam' -> LandmarkRecords]
    BY <1>8, UpdateTyped
  <2>3. \A f \in DOMAIN slam' : slam'[f].anchor \in Times /\ slam'[f].fail_count \in 0..2
    BY <2>2 DEF LandmarkRecords
  <2> QED BY <1>8, <2>1, <2>2, <2>3 DEF UpdateSlam
<1>9. CASE DelayedInit
  <2>1. PICK taken \in SUBSET {f \in work.delayed : Triangulable(f)} :
           /\ slam' \in [DOMAIN slam \cup taken -> LandmarkRecords]
           /\ DOMAIN slam' = DOMAIN slam \cup taken
           /\ used' = [f \in Feats |-> IF f \in taken THEN used[f] \cup Usable(f)
                                       ELSE used[f]]
    BY <1>9, DelayedTyped
  <2>2. taken \subseteq Feats
    BY DEF Works
  <2>3. used' \in [Feats -> SUBSET Times]
    BY <2>1, <2>2, UsedTyped
  <2>4. DOMAIN slam' \subseteq Feats /\ slam' \in [DOMAIN slam' -> LandmarkRecords]
    BY <2>1, <2>2
  <2>5. \A f \in DOMAIN slam' : slam'[f].anchor \in Times /\ slam'[f].fail_count \in 0..2
    BY <2>4 DEF LandmarkRecords
  <2> QED BY <1>9, <2>3, <2>4, <2>5 DEF DelayedInit
<1>10. CASE Cleanup
  <2>1. db' \in [Feats -> SUBSET Times] /\ work' \in Works
    BY <1>10 DEF Cleanup, Usable, NoWork, Works
  <2> QED BY <1>10, <2>1 DEF Cleanup
<1>11. CASE ChangeAnchors
  <2>1. DOMAIN slam' \subseteq Feats /\ slam' \in [DOMAIN slam' -> LandmarkRecords]
    BY <1>11, ChangeTyped
  <2>2. \A f \in DOMAIN slam' : slam'[f].anchor \in Times /\ slam'[f].fail_count \in 0..2
    BY <2>1 DEF LandmarkRecords
  <2>3. pc' \in {"idle", "exit", "marg"}
    BY <1>11 DEF ChangeAnchors
  <2> QED BY <1>11, <2>1, <2>2, <2>3 DEF ChangeAnchors
<1>12. CASE MarginalizeOldClone
  <2>1. db' \in [Feats -> SUBSET Times] /\ clones' \subseteq Times
    BY <1>12 DEF MarginalizeOldClone
  <2> QED BY <1>12, <2>1 DEF MarginalizeOldClone
<1> QED
  BY <1>1, <1>2, <1>3, <1>4, <1>5, <1>6, <1>7, <1>8, <1>9, <1>10, <1>11, <1>12 DEF Next

------------------------------------------------------------------------------
(* The window of clones *)

\* A measurement makes at most one clone and takes one away again when there are
\* too many; once an update could be made it always can.
Sizes ==
    /\ Cardinality(clones) <= MaxCloneSize + 1
    /\ pc \in {"idle", "zupt", "propagate"} => Cardinality(clones) <= MaxCloneSize
    /\ pc = "marg" => Cardinality(clones) > MaxCloneSize
    /\ pc \in Updating \/ DOMAIN slam # {} =>
          Cardinality(clones) >= Smaller(MaxCloneSize, 5)

\* The state is never ahead of the measurement and stands at a clone, unless the
\* platform stood still; then it does so until a clone is made.
StandsAtClone ==
    /\ timestamp <= message.ts
    /\ \A t \in clones : t <= timestamp
    /\ pc = "propagate" => timestamp < message.ts \/ timestamp \in clones
    /\ pc \in Updating => timestamp = message.ts /\ timestamp \in clones
    /\ timestamp # 0 /\ timestamp \notin clones => zupt.did \/ pc = "propagate"
    /\ zupt.did => timestamp \notin clones /\ pc \in {"idle", "zupt"}
    /\ zupt.did \/ pc = "zupt" => WantsZupt
    /\ pc # "exit"

\* No landmark is anchored where the window is about to end.
Anchored ==
    /\ AnchorsInWindow
    /\ pc = "marg" => \A f \in DOMAIN slam : slam[f].anchor # margtimestep

\* margtimestep is the oldest clone, and marginalising it leaves one clone less.
LEMMA MargTime ==
  ASSUME Typed, Sizes, pc = "marg"
  PROVE  /\ margtimestep \in clones /\ \A t \in clones : margtimestep <= t
         /\ IsFiniteSet(clones \ {margtimestep})
         /\ Cardinality(clones \ {margtimestep}) = Cardinality(clones) - 1
<1>1. /\ clones \in SUBSET Nat /\ clones \in SUBSET Times
      /\ IsFiniteSet(clones) /\ Cardinality(clones) \in Nat
  BY Numbers, TimesFinite DEF Typed, TypeOK
<1>2. clones # {}
  <2>1. Cardinality({}) = 0
    BY FS_EmptySet
  <2> QED BY <2>1, Numbers DEF Sizes
<1>3. margtimestep \in clones /\ \A t \in clones : margtimestep <= t
  BY <1>1, <1>2, LeastMember DEF margtimestep
<1> QED BY <1>1, <1>3, FS_RemoveElement

\* The clone that leaves is not the newest.
LEMMA MargIsOld ==
  ASSUME Typed, Sizes, StandsAtClone, clones # {}, Cardinality(clones) > MaxCloneSize
  PROVE  margtimestep # timestamp
<1> SUFFICES ASSUME margtimestep = timestamp PROVE FALSE
  OBVIOUS
<1>1. clones \in SUBSET Nat
  BY Numbers DEF Typed, TypeOK
<1>2. \A t \in clones : timestamp <= t /\ t <= timestamp /\ t \in Nat /\ timestamp \in Nat
  BY <1>1, LeastMember DEF margtimestep, StandsAtClone, Typed, TypeOK
<1>3. clones = {timestamp}
  BY <1>2
<1>4. Cardinality({timestamp}) = 1
  BY FS_Singleton
<1> QED BY <1>3, <1>4, Numbers

\* The window the initialisation leaves: a clone at the state's time, if any.
LEMMA InitWindow == Init => Sizes /\ StandsAtClone /\ Anchored
<1> SUFFICES ASSUME Init PROVE Sizes /\ StandsAtClone /\ Anchored
  OBVIOUS
<1>1. /\ timestamp <= message.ts /\ \A t \in clones : t <= timestamp
      /\ timestamp # 0 => timestamp \in clones
  BY InitClones
<1>2. Cardinality(clones) <= MaxCloneSize /\ Cardinality(clones) \in Nat
  BY InitClones, TimesFinite
<1>3. Sizes
  BY <1>1, <1>2, Numbers DEF Sizes, Init, Updating
<1>4. StandsAtClone
  BY <1>1 DEF StandsAtClone, Init, Updating
<1>5. Anchored
  BY DEF Anchored, AnchorsInWindow, Init
<1> QED BY <1>3, <1>4, <1>5

\* After propagate_and_clone the state stands at the measurement and has a clone
\* there: augment_clone never meets a clone that exists.
LEMMA ClonedHere ==
  ASSUME Typed, StandsAtClone, Propagate
  PROVE  /\ message.ts \in Times /\ timestamp' = message.ts /\ message.ts \in clones'
         /\ clones' = clones \cup {message.ts}
         /\ timestamp # message.ts => message.ts \notin clones
         /\ pc' = IF Cardinality(clones') < Smaller(MaxCloneSize, 5) THEN "idle" ELSE "select"
         /\ moved' = (moved \/ pc' = "select")
         /\ ~zupt.did /\ UNCHANGED <<slam, db, work, zupt, message, used, reused>>
<1>1. /\ message.ts \in Times /\ timestamp \in Nat /\ timestamp <= message.ts
      /\ message.ts \in Nat
  BY Numbers DEF Typed, TypeOK, StandsAtClone, Propagate
<1>2. ~zupt.did /\ UNCHANGED <<slam, db, work, zupt, message, used, reused>>
  BY DEF StandsAtClone, Propagate
<1>3. \A t \in clones : t <= timestamp /\ t \in Nat
  BY Numbers DEF StandsAtClone, Typed, TypeOK
<1>4. CASE timestamp = message.ts
  <2>1. timestamp \in clones /\ AlreadyThere
    BY <1>1, <1>4 DEF StandsAtClone, Propagate, AlreadyThere
  <2>2. UNCHANGED <<timestamp, clones>>
    BY <2>1 DEF Propagate
  <2>3. clones = clones \cup {message.ts}
    BY <1>4, <2>1
  <2> QED BY <1>1, <1>2, <1>4, <2>1, <2>2, <2>3 DEF Propagate
<1>5. CASE timestamp # message.ts
  <2>1. timestamp < message.ts /\ ~AlreadyThere /\ message.ts \notin clones
    BY <1>1, <1>3, <1>5 DEF AlreadyThere
  <2>2. timestamp' = message.ts /\ clones' = clones \cup {message.ts}
    BY <2>1 DEF Propagate, CloneHere
  <2>3. ~(timestamp > message.ts)
    BY <1>1, <2>1
  <2> QED BY <1>1, <1>2, <2>1, <2>2, <2>3 DEF Propagate
<1> QED BY <1>4, <1>5

\* The window grows by one clone for a measurement and shrinks again with it.
LEMMA StepSizes ==
  ASSUME Typed, Sizes, StandsAtClone, Next
  PROVE  Sizes'
<1>0. IsFiniteSet(clones) /\ Cardinality(clones) \in Nat
  BY TimesFinite DEF Typed, TypeOK
<1>1. ASSUME NEW c \in Cams, NEW t \in Times, NEW seen \in SUBSET Feats,
             FeedNewCamera(c, t, seen)
      PROVE  Sizes'
  BY <1>1 DEF FeedNewCamera, Sizes, Updating
<1>2. CASE ZuptAgain \/ ZuptAccept \/ ZuptReject
  BY <1>2 DEF ZuptAgain, ZuptAccept, ZuptReject, Sizes, Updating
<1>3. CASE Propagate
  <2>1. /\ clones' = clones \cup {message.ts} /\ UNCHANGED slam
        /\ pc' = IF Cardinality(clones') < Smaller(MaxCloneSize, 5) THEN "idle" ELSE "select"
    BY <1>3, ClonedHere
  <2>2. /\ Cardinality(clones') \in {Cardinality(clones), Cardinality(clones) + 1}
    BY <1>0, <2>1, FS_AddElement
  <2>3. Cardinality(clones) <= MaxCloneSize
    BY <1>3 DEF Propagate, Sizes
  <2>4. Smaller(MaxCloneSize, 5) \in Nat /\ Smaller(MaxCloneSize, 5) <= MaxCloneSize
    BY Numbers DEF Smaller
  <2>5. DOMAIN slam # {} => Cardinality(clones) >= Smaller(MaxCloneSize, 5)
    BY DEF Sizes
  <2>6. CASE pc' = "idle"
    <3>1. Cardinality(clones') < Smaller(MaxCloneSize, 5)
      BY <2>1, <2>6
    <3> QED BY <1>0, <2>1, <2>2, <2>4, <2>5, <2>6, <3>1, Numbers DEF Sizes, Updating
  <2>7. CASE pc' = "select"
    <3>1. Cardinality(clones') >= Smaller(MaxCloneSize, 5)
      BY <1>0, <2>1, <2>2, <2>4, <2>7
    <3> QED BY <1>0, <2>2, <2>3, <2>7, <3>1, Numbers DEF Sizes
  <2> QED BY <2>1, <2>6, <2>7
<1>4. CASE SelectFeatures \/ UpdateMsckf \/ UpdateSlam \/ DelayedInit \/ Cleanup
  <2>1. pc \in Updating /\ UNCHANGED clones /\ pc' \in {"update", "slam", "delayed", "cleanup", "anchors"}
    BY <1>4 DEF SelectFeatures, UpdateMsckf, UpdateSlam, DelayedInit, Cleanup, Updating
  <2> QED BY <2>1 DEF Sizes
<1>5. CASE ChangeAnchors
  <2>1. pc \in Updating /\ UNCHANGED clones
    BY <1>5 DEF ChangeAnchors, Updating
  <2>2. pc' \in {"marg", "idle", "exit"}
    BY <1>5 DEF ChangeAnchors
  <2>3. IF Cardinality(clones) <= MaxCloneSize THEN pc' = "idle" ELSE pc' \in {"marg", "exit"}
    BY <1>5 DEF ChangeAnchors
  <2>4. Cardinality(clones) <= MaxCloneSize \/ Cardinality(clones) > MaxCloneSize
    BY <1>0, Numbers
  <2> QED BY <2>1, <2>2, <2>3, <2>4 DEF Sizes
<1>6. CASE MarginalizeOldClone
  <2>1. pc = "marg" /\ pc' = "idle" /\ clones' = clones \ {margtimestep} /\ UNCHANGED slam
    BY <1>6 DEF MarginalizeOldClone
  <2>2. Cardinality(clones') = Cardinality(clones) - 1
    BY <2>1, MargTime
  <2>3. Smaller(MaxCloneSize, 5) \in Nat /\ Smaller(MaxCloneSize, 5) <= MaxCloneSize
    BY Numbers DEF Smaller
  <2> QED BY <1>0, <2>1, <2>2, <2>3, Numbers DEF Sizes
<1> QED BY <1>1, <1>2, <1>3, <1>4, <1>5, <1>6 DEF Next

\* The state is never ahead of the measurement, and stands at a clone unless a
\* zero-velocity update moved it; then the next image is tried for one as well.
LEMMA StepStandsAtClone ==
  ASSUME Typed, Sizes, StandsAtClone, Next
  PROVE  StandsAtClone'
<1>0. /\ timestamp \in Nat /\ message.ts \in Nat /\ clones \subseteq Nat
  BY Numbers DEF Typed, TypeOK
<1>1. ASSUME NEW c \in Cams, NEW t \in Times, NEW seen \in SUBSET Feats,
             FeedNewCamera(c, t, seen)
      PROVE  StandsAtClone'
  <2>1. /\ pc = "idle" /\ message' = [cam |-> c, ts |-> t] /\ message.ts <= t
        /\ pc' = (IF WantsZupt THEN "zupt" ELSE "propagate")
        /\ UNCHANGED <<timestamp, clones, zupt, moved>>
    BY <1>0, <1>1, Numbers DEF FeedNewCamera
  <2>2. message'.ts = t /\ t \in Nat /\ t >= 1
    BY <2>1, Numbers DEF Times
  <2>3. timestamp <= t /\ (timestamp = 0 => timestamp < t)
    BY <1>0, <2>1, <2>2 DEF StandsAtClone
  <2>4. pc' = "propagate" => timestamp = 0 \/ timestamp \in clones
    BY <2>1 DEF StandsAtClone
  <2> QED BY <2>1, <2>2, <2>3, <2>4 DEF StandsAtClone, Updating, WantsZupt
<1>2. CASE ZuptAgain
  <2>1. /\ pc = "zupt" /\ timestamp = message.ts /\ message.ts # 0
        /\ pc' = (IF zupt.did THEN "idle" ELSE "propagate")
        /\ UNCHANGED <<timestamp, message, clones, zupt, moved>>
    BY <1>2, Numbers DEF ZuptAgain, KeepDecision, Typed, Times
  <2>2. ~zupt.did => timestamp \in clones
    BY <2>1 DEF StandsAtClone
  <2> QED BY <2>1, <2>2 DEF StandsAtClone, Updating, WantsZupt
<1>3. CASE ZuptAccept
  <2>1. /\ timestamp' = message.ts /\ zupt'.did /\ pc' = "idle" /\ timestamp # message.ts
        /\ pc = "zupt" /\ UNCHANGED <<message, clones, moved>>
    BY <1>3 DEF ZuptAccept
  <2>2. timestamp < message.ts
    BY <1>0, <2>1 DEF StandsAtClone
  <2>3. \A t \in clones : t < message.ts
    BY <1>0, <2>2 DEF StandsAtClone
  <2>4. WantsZupt
    BY <2>1 DEF StandsAtClone
  <2> QED BY <1>0, <2>1, <2>2, <2>3, <2>4 DEF StandsAtClone, Updating, WantsZupt
<1>4. CASE ZuptReject
  <2>1. /\ ~zupt'.did /\ pc' = "propagate" /\ timestamp # message.ts
        /\ UNCHANGED <<timestamp, message, clones, moved>>
    BY <1>4 DEF ZuptReject
  <2> QED BY <1>0, <2>1 DEF StandsAtClone, Updating
<1>5. CASE Propagate
  <2>1. /\ message.ts \in Times /\ timestamp' = message.ts /\ message.ts \in clones'
        /\ clones' = clones \cup {message.ts} /\ pc' \in {"idle", "select"}
        /\ ~zupt.did /\ UNCHANGED <<zupt, message>>
    BY <1>5, ClonedHere
  <2>2. \A t \in clones' : t <= message.ts
    BY <1>0, <2>1 DEF StandsAtClone
  <2> QED BY <1>0, <2>1, <2>2 DEF StandsAtClone
<1>6. CASE SelectFeatures \/ UpdateMsckf \/ UpdateSlam \/ DelayedInit \/ Cleanup
  <2>1. /\ pc \in Updating /\ pc' \in Updating /\ pc' \notin {"propagate", "idle", "zupt", "exit"}
        /\ UNCHANGED <<timestamp, message, clones, zupt, moved>> /\ pc \notin {"idle", "zupt"}
    BY <1>6 DEF SelectFeatures, UpdateMsckf, UpdateSlam, DelayedInit, Cleanup, Updating
  <2> QED BY <2>1 DEF StandsAtClone
<1>7. CASE ChangeAnchors
  <2>1. /\ timestamp \in clones /\ timestamp = message.ts /\ ~zupt.did
    BY <1>7 DEF ChangeAnchors, StandsAtClone, Updating
  <2>2. /\ pc' \in {"idle", "marg"} /\ UNCHANGED <<timestamp, message, clones, zupt>>
    BY <1>7, <2>1 DEF ChangeAnchors
  <2> QED BY <2>1, <2>2 DEF StandsAtClone, Updating
<1>8. CASE MarginalizeOldClone
  <2>1. /\ pc = "marg" /\ pc' = "idle" /\ clones' = clones \ {margtimestep}
        /\ UNCHANGED <<timestamp, message, zupt>>
    BY <1>8 DEF MarginalizeOldClone
  <2>2. timestamp \in clones /\ timestamp = message.ts /\ ~zupt.did
    BY <2>1 DEF StandsAtClone, Updating
  <2>3. margtimestep # timestamp
    BY <2>1, <2>2, MargIsOld DEF Sizes
  <2> QED BY <2>1, <2>2, <2>3 DEF StandsAtClone, Updating
<1> QED BY <1>1, <1>2, <1>3, <1>4, <1>5, <1>6, <1>7, <1>8 DEF Next

\* Moving anchors before marginalising, and adding landmarks anchored at clones,
\* keeps every anchor in the window.
LEMMA StepAnchored ==
  ASSUME Typed, Sizes, StandsAtClone, Anchored, Next
  PROVE  Anchored'
<1> USE DEF Anchored, AnchorsInWindow
<1>1. ASSUME NEW c \in Cams, NEW t \in Times, NEW seen \in SUBSET Feats,
             FeedNewCamera(c, t, seen)
      PROVE  Anchored'
  BY <1>1 DEF FeedNewCamera
<1>2. CASE ZuptAgain \/ ZuptAccept \/ ZuptReject \/ UpdateMsckf \/ Cleanup
  BY <1>2 DEF ZuptAgain, ZuptAccept, ZuptReject, UpdateMsckf, Cleanup
<1>3. CASE Propagate
  <2>1. clones \subseteq clones' /\ UNCHANGED slam /\ pc' \in {"idle", "select"}
    BY <1>3, ClonedHere
  <2> QED BY <2>1
<1>4. CASE SelectFeatures
  <2>1. UNCHANGED clones /\ pc' = "update"
    BY <1>4 DEF SelectFeatures
  <2> QED BY <1>4, <2>1, SelectTyped
<1>5. CASE UpdateSlam
  <2>1. UNCHANGED clones /\ pc' = "delayed"
    BY <1>5 DEF UpdateSlam
  <2> QED BY <1>5, <2>1, UpdateTyped
<1>6. CASE DelayedInit
  <2>1. UNCHANGED clones /\ pc' = "cleanup"
    BY <1>6 DEF DelayedInit
  <2> QED BY <1>6, <2>1, DelayedTyped
<1>7. CASE ChangeAnchors
  <2>1. timestamp \in clones /\ UNCHANGED <<clones, timestamp>> /\ clones # {}
    BY <1>7 DEF ChangeAnchors, StandsAtClone, Updating
  <2>2. CASE pc' # "marg"
    <3>1. UNCHANGED slam
      BY <1>7, <2>2 DEF ChangeAnchors
    <3> QED BY <2>1, <2>2, <3>1
  <2>3. CASE pc' = "marg"
    <3>1. Cardinality(clones) > MaxCloneSize
      <4>1. ~(Cardinality(clones) <= MaxCloneSize)
        BY <1>7, <2>3 DEF ChangeAnchors
      <4>2. Cardinality(clones) \in Nat
        BY TimesFinite DEF Typed, TypeOK
      <4> QED BY <4>1, <4>2, Numbers
    <3>2. margtimestep # timestamp /\ margtimestep' = margtimestep
      BY <2>1, <3>1, MargIsOld DEF margtimestep
    <3>3. /\ DOMAIN slam' = DOMAIN slam
          /\ slam' = [f \in DOMAIN slam |-> IF f \in AnchorsToMove
                           THEN [slam[f] EXCEPT !.anchor = timestamp] ELSE slam[f]]
      BY <1>7, <2>1, <2>3, <3>1 DEF ChangeAnchors
    <3>4. \A f \in DOMAIN slam : slam[f] \in LandmarkRecords
      BY DEF Typed
    <3>5. \A f \in DOMAIN slam :
             slam'[f].anchor = IF f \in AnchorsToMove THEN timestamp ELSE slam[f].anchor
      BY <3>3, <3>4 DEF LandmarkRecords
    <3>6. \A f \in DOMAIN slam \ AnchorsToMove : slam[f].anchor # margtimestep
      BY DEF AnchorsToMove
    <3> QED BY <2>1, <3>2, <3>3, <3>5, <3>6
  <2> QED BY <2>2, <2>3
<1>8. CASE MarginalizeOldClone
  BY <1>8 DEF MarginalizeOldClone
<1> QED BY <1>1, <1>2, <1>3, <1>4, <1>5, <1>6, <1>7, <1>8 DEF Next

------------------------------------------------------------------------------
(* The number of landmarks *)

\* The points that are landmarks, with those that are about to be, fit in the
\* state; a landmark that failed twice is out of it before the updates.
Counted ==
    /\ Cardinality(DOMAIN slam \cap Points) <= MaxSlam
    /\ pc \in {"update", "slam", "delayed"} =>
          Cardinality((DOMAIN slam \cup work.delayed) \cap Points) <= MaxSlam
    /\ pc = "update" => \A f \in DOMAIN slam \cap Points : slam[f].fail_count < 2

\* A part of a set of features is no larger than a bound of the set.
LEMMA Fewer ==
  ASSUME NEW S \in SUBSET Feats, NEW T \in SUBSET S, NEW n \in Nat, Cardinality(S) <= n
  PROVE  Cardinality(T) <= n
<1>1. IsFiniteSet(S) /\ Cardinality(S) \in Nat /\ Cardinality(T) \in Nat
  BY FeatsFinite
<1>2. Cardinality(T) <= Cardinality(S)
  BY <1>1, FS_Subset
<1> QED BY <1>1, <1>2

\* New landmarks are taken only where there is room.
LEMMA SelectCounted ==
  ASSUME Typed, Counted, SelectFeatures
  PROVE  Counted'
<1>1. PICK new \in SUBSET MaxTracks, best \in SUBSET Feats :
        LET listed == {f \in DOMAIN slam : db[f] # {}}
            kept == DOMAIN slam \ Finished
            chosen == CornersAtMarg \cup new \cup listed
        IN  /\ Cardinality(new) <= (IF RoomForSlam > 0 THEN RoomForSlam ELSE 0)
            /\ slam' = [f \in kept |-> slam[f]]
            /\ work' = [msckf |-> best,
                        update |-> chosen \cap kept,
                        twice |-> CornersAtMarg \cap listed \cap kept,
                        delayed |-> chosen \ kept]
  BY Selected
<1> DEFINE A == DOMAIN slam \cap Points
           B == A \cup new
<1>2. /\ A \in SUBSET Feats /\ new \in SUBSET Feats /\ new \subseteq Points
      /\ MaxTracks \in SUBSET Feats /\ B \in SUBSET Feats
  BY Numbers DEF MaxTracks, AtMargTime
<1>3. /\ IsFiniteSet(A) /\ Cardinality(A) \in Nat /\ IsFiniteSet(new)
      /\ Cardinality(new) \in Nat /\ Cardinality(MaxTracks) \in Nat
      /\ Cardinality(B) \in Nat
  BY <1>2, FeatsFinite
<1>4. Cardinality(A) <= MaxSlam /\ MaxSlam \in Nat
  BY Numbers DEF Counted
<1>5. Cardinality(A) + Cardinality(new) <= MaxSlam
  <2>1. Cardinality(new) <= (IF RoomForSlam > 0 THEN RoomForSlam ELSE 0)
    BY <1>1
  <2>2. RoomForSlam = 0 \/ RoomForSlam = MaxSlam - Cardinality(A)
    BY DEF RoomForSlam
  <2> HIDE DEF A
  <2>3. Cardinality(new) <= MaxSlam - Cardinality(A)
    BY <1>3, <1>4, <2>1, <2>2
  <2> QED BY <1>3, <1>4, <2>3
<1>6. Cardinality(B) <= MaxSlam
  <2>1. Cardinality(B) = Cardinality(A) + Cardinality(new) - Cardinality(A \cap new)
    BY <1>3, FS_Union
  <2>2. Cardinality(A \cap new) \in Nat
    BY <1>2, FeatsFinite
  <2> HIDE DEF A, B
  <2> QED BY <1>3, <1>4, <1>5, <2>1, <2>2
<1>7. DOMAIN slam' = DOMAIN slam \ Finished
  BY <1>1
<1>8. (DOMAIN slam' \cup work'.delayed) \cap Points \subseteq B
  <2>1. work'.delayed \cap Points \subseteq new \cup DOMAIN slam
    BY <1>1, Numbers DEF CornersAtMarg, AtMargTime
  <2> QED BY <1>7, <2>1
<1>9. /\ Cardinality(DOMAIN slam' \cap Points) <= MaxSlam
      /\ Cardinality((DOMAIN slam' \cup work'.delayed) \cap Points) <= MaxSlam
  <2>1. DOMAIN slam' \cap Points \in SUBSET B
    BY <1>7
  <2>2. (DOMAIN slam' \cup work'.delayed) \cap Points \in SUBSET B
    BY <1>8
  <2> HIDE DEF B
  <2> QED BY <1>2, <1>4, <1>6, <2>1, <2>2, Fewer
<1>10. \A f \in DOMAIN slam' \cap Points : slam'[f].fail_count < 2
  <2>1. \A f \in DOMAIN slam' : slam'[f] = slam[f] /\ slam[f] \in LandmarkRecords
    BY <1>1, <1>7 DEF Typed
  <2>2. \A f \in DOMAIN slam' \cap Points : ~(slam[f].fail_count > 1)
    BY <1>7 DEF Finished
  <2> QED BY <2>1, <2>2 DEF LandmarkRecords
<1> QED BY <1>9, <1>10 DEF Counted

\* No step makes more point landmarks than max_slam_features.
LEMMA StepCounted ==
  ASSUME Typed, Counted, Next
  PROVE  Counted'
<1>1. ASSUME NEW c \in Cams, NEW t \in Times, NEW seen \in SUBSET Feats,
             FeedNewCamera(c, t, seen)
      PROVE  Counted'
  BY <1>1 DEF FeedNewCamera, Counted
<1>2. CASE ZuptAgain \/ ZuptAccept \/ ZuptReject
  BY <1>2 DEF ZuptAgain, ZuptAccept, ZuptReject, Counted
<1>3. CASE Propagate
  <2>1. UNCHANGED slam /\ pc' \in {"idle", "exit", "select"}
    BY <1>3 DEF Propagate
  <2> QED BY <2>1 DEF Counted
<1>4. CASE SelectFeatures
  BY <1>4, SelectCounted
<1>5. CASE UpdateMsckf
  BY <1>5 DEF UpdateMsckf, Counted
<1>6. CASE UpdateSlam
  <2>1. DOMAIN slam' = DOMAIN slam /\ UNCHANGED work /\ pc = "slam" /\ pc' = "delayed"
    BY <1>6, UpdateTyped DEF UpdateSlam
  <2> QED BY <2>1 DEF Counted
<1>7. CASE DelayedInit
  <2>1. PICK taken \in SUBSET {f \in work.delayed : Triangulable(f)} :
           DOMAIN slam' = DOMAIN slam \cup taken
    BY <1>7, DelayedTyped
  <2>2. DOMAIN slam' \cap Points \in SUBSET ((DOMAIN slam \cup work.delayed) \cap Points)
    BY <2>1
  <2>3. (DOMAIN slam \cup work.delayed) \cap Points \in SUBSET Feats
    BY Numbers
  <2>4. Cardinality((DOMAIN slam \cup work.delayed) \cap Points) <= MaxSlam /\ pc' = "cleanup"
    BY <1>7 DEF DelayedInit, Counted
  <2>5. Cardinality(DOMAIN slam' \cap Points) <= MaxSlam
    BY <2>2, <2>3, <2>4, Fewer, Numbers
  <2> QED BY <2>4, <2>5 DEF Counted
<1>8. CASE Cleanup \/ MarginalizeOldClone
  BY <1>8 DEF Cleanup, MarginalizeOldClone, Counted
<1>9. CASE ChangeAnchors
  <2>1. DOMAIN slam' = DOMAIN slam /\ pc' \in {"idle", "exit", "marg"}
    BY <1>9, ChangeTyped DEF ChangeAnchors
  <2> QED BY <2>1 DEF Counted
<1> QED BY <1>1, <1>2, <1>3, <1>4, <1>5, <1>6, <1>7, <1>8, <1>9 DEF Next

------------------------------------------------------------------------------
(* The theorems that need no condition *)

WindowInv == Typed /\ Sizes /\ StandsAtClone /\ Anchored /\ Counted

\* The invariant of the window holds at first.
LEMMA InitWindowInv == Init => WindowInv
<1>1. Init => Counted
  <2> SUFFICES ASSUME Init PROVE Counted
    OBVIOUS
  <2>1. DOMAIN slam \cap Points = {} /\ pc = "idle"
    BY DEF Init
  <2>2. Cardinality({}) = 0
    BY FS_EmptySet
  <2> QED BY <2>1, <2>2, Numbers DEF Counted
<1> QED BY <1>1, InitTyped, InitWindow DEF WindowInv

\* Every step keeps the invariant of the window.
LEMMA NextWindowInv == WindowInv /\ [Next]_vars => WindowInv'
<1> SUFFICES ASSUME WindowInv, [Next]_vars PROVE WindowInv'
  OBVIOUS
<1>1. CASE Next
  BY <1>1, StepTyped, StepSizes, StepStandsAtClone, StepAnchored, StepCounted DEF WindowInv
<1>2. CASE UNCHANGED vars
  <2> USE <1>2 DEF vars
  <2>1. Typed'
    BY DEF WindowInv, Typed, TypeOK
  <2>2. Sizes' /\ Counted'
    BY DEF WindowInv, Sizes, Counted
  <2>3. StandsAtClone'
    BY DEF WindowInv, StandsAtClone, WantsZupt
  <2>4. Anchored'
    BY DEF WindowInv, Anchored, AnchorsInWindow, margtimestep
  <2> QED BY <2>1, <2>2, <2>3, <2>4 DEF WindowInv
<1> QED BY <1>1, <1>2

\* The invariant of the window holds in every state.
LEMMA SpecWindowInv == Spec => []WindowInv
BY InitWindowInv, NextWindowInv, PTL DEF Spec

\* Whatever the order of cameras, zero-velocity updates and early returns, the
\* filter makes its updates at a time that has a clone, and never asks StateHelper
\* for a clone that exists or an anchor that is missing, where it would exit.
THEOREM UpdatesHaveClone == Spec => []UpdatesAtClone
<1>1. WindowInv => UpdatesAtClone
  BY DEF WindowInv, StandsAtClone, UpdatesAtClone, Updating
<1> QED BY <1>1, SpecWindowInv, PTL

\* Every landmark is anchored in a clone of the window, also between the steps of
\* UpdaterSLAM::change_anchors and StateHelper::marginalize_old_clone.
THEOREM AnchorsStay == Spec => []AnchorsInWindow
<1>1. WindowInv => AnchorsInWindow
  BY DEF WindowInv, Anchored
<1> QED BY <1>1, SpecWindowInv, PTL

\* Over any history there are at most max_clone_size clones between measurements
\* and max_slam_features points in the state, and no landmark that has failed twice
\* is updated.
THEOREM WithinLimits == Spec => []Bounded
<1>1. WindowInv => Bounded
  BY DEF WindowInv, Typed, Sizes, Counted, Bounded
<1> QED BY <1>1, SpecWindowInv, PTL

\* A clone that is marginalised leaves no measurement behind in either database
\* (cleanup_measurements).
THEOREM MeasurementsLeave == Spec => ClonesTakeMeasurements
<1>1. WindowInv /\ [Next]_vars
        => [\A t \in clones \ clones' : \A f \in Feats : t \notin db'[f]]_vars
  <2> SUFFICES ASSUME WindowInv, Next, NEW t \in clones \ clones', NEW f \in Feats
               PROVE  t \notin db'[f]
    OBVIOUS
  <2>1. CASE MarginalizeOldClone
    <3>1. t = margtimestep /\ pc = "marg"
      BY <2>1 DEF MarginalizeOldClone
    <3>2. margtimestep \in Nat
      BY <3>1, MargTime, Numbers DEF WindowInv, Typed, TypeOK
    <3>3. db'[f] = {u \in db[f] : ~Outlived(u)}
      BY <2>1 DEF MarginalizeOldClone
    <3> QED BY <3>1, <3>2, <3>3 DEF Outlived
  <2>2. CASE Propagate
    BY <2>2, ClonedHere DEF WindowInv
  <2>3. ASSUME NEW c \in Cams, NEW u \in Times, NEW seen \in SUBSET Feats,
               FeedNewCamera(c, u, seen)
        PROVE  UNCHANGED clones
    BY <2>3 DEF FeedNewCamera
  <2>4. CASE UNCHANGED clones
    BY <2>4
  <2> QED
    BY <2>1, <2>2, <2>3, <2>4 DEF Next, ZuptAgain, ZuptAccept, ZuptReject, SelectFeatures,
       UpdateMsckf, UpdateSlam, DelayedInit, Cleanup, ChangeAnchors
<1> QED BY <1>1, SpecWindowInv, PTL DEF Spec, ClonesTakeMeasurements

------------------------------------------------------------------------------
(* One use of a measurement *)

\* What was used is not newer than the last image of the camera it came from, and
\* neither is what the trackers hold.
Seen ==
    \A f \in Feats : \A t \in db[f] \cup used[f] :
        t < message.ts \/ (t = message.ts /\ CamOf[f] <= message.cam)

\* Between measurements no landmark has one that waits for an update: when an
\* update runs, the landmarks can only use what has just arrived.
NothingWaits ==
    /\ pc \in {"idle", "anchors", "marg"} => \A f \in DOMAIN slam : Usable(f) = {}
    /\ pc \in {"zupt", "propagate", "select", "update", "slam"} =>
          \A f \in DOMAIN slam : Usable(f) \subseteq {message.ts}
    /\ pc \in {"update", "slam"} => \A f \in DOMAIN slam : db[f] # {} => f \in work.update
    /\ pc \in {"delayed", "cleanup"} =>
          \A f \in DOMAIN slam : db[f] # {} => f \in work.update \cup work.delayed

\* The lists of an update share no feature that more than one of them could use.
ListsApart ==
    pc \in {"update", "slam", "delayed"} =>
        /\ work.twice = {} /\ work.update \cap work.delayed = {}
        /\ pc # "delayed" => work.update \subseteq DOMAIN slam
        /\ \A f \in work.msckf \cap (work.update \cup work.delayed) :
              Usable(f) = {}

\* What the trackers hold is unused, but for the features of a list that has been
\* taken from; those are deleted before the next measurement.
Unused(f) == used[f] \cap db[f] = {}
ByMsckf(f) == f \in work.msckf /\ Usable(f) # {}

UsedOnce ==
    /\ pc \in {"idle", "zupt", "propagate", "select", "update", "anchors", "marg"} =>
          \A f \in Feats : Unused(f)
    /\ pc = "slam" => \A f \in Feats : Unused(f) \/ ByMsckf(f)
    /\ pc = "delayed" => \A f \in Feats : Unused(f) \/ ByMsckf(f) \/ f \in work.update
    /\ pc = "cleanup" =>
          \A f \in Feats : Unused(f) \/ f \in work.msckf \cup work.update \cup work.delayed
    /\ ~reused

\* At first nothing was used, and no image is in a database before its message.
LEMMA InitUse == Init => Seen /\ NothingWaits /\ ListsApart /\ UsedOnce
<1> SUFFICES ASSUME Init PROVE Seen /\ NothingWaits /\ ListsApart /\ UsedOnce
  OBVIOUS
<1>1. pc = "idle" /\ DOMAIN slam = {} /\ ~reused /\ \A f \in Feats : used[f] = {}
  BY DEF Init
<1>2. NothingWaits /\ ListsApart /\ UsedOnce
  BY <1>1 DEF NothingWaits, ListsApart, UsedOnce, Unused
<1>3. PICK c \in Cams, images \in 0..MaxTime : message = [cam |-> c, ts |-> images]
  BY DEF Init
<1>4. message.ts \in Nat
  BY <1>3
<1>5. PICK first, last \in [Points -> 1..(message.ts + 1)] :
         db = [f \in Feats |-> IF f \in Points
                           THEN first[f]..Smaller(last[f], NewestImage(f)) ELSE {}]
  BY DEF Init
<1>6. ASSUME NEW f \in Feats, NEW t \in db[f]
      PROVE  t < message.ts \/ (t = message.ts /\ CamOf[f] <= message.cam)
  <2>1. f \in Points /\ t \in first[f]..Smaller(last[f], NewestImage(f))
    BY <1>5, <1>6
  <2>2. NewestImage(f) \in Int /\ last[f] \in Int /\ first[f] \in Int
    BY <1>3, <1>4, <1>5, <2>1 DEF NewestImage
  <2>3. t \in Int /\ t <= NewestImage(f)
    BY <2>1, <2>2 DEF Smaller
  <2> QED BY <1>3, <1>4, <2>3 DEF NewestImage
<1>7. Seen
  BY <1>1, <1>6 DEF Seen
<1> QED BY <1>2, <1>7

\* The trackers add the newest measurement only, and updates use what is there.
LEMMA StepSeen ==
  ASSUME Typed, StandsAtClone, Seen, Next
  PROVE  Seen'
<1>0. /\ message.ts \in Nat /\ message.cam \in Nat /\ CamOf \in [Feats -> Cams]
      /\ \A f \in Feats : db[f] \subseteq Nat /\ used[f] \subseteq Nat /\ CamOf[f] \in Nat
  BY Numbers, WindowAssumption DEF Typed, TypeOK, WindowAssumption
<1>1. ASSUME NEW c \in Cams, NEW t \in Times, NEW seen \in SUBSET Feats,
             FeedNewCamera(c, t, seen)
      PROVE  Seen'
  <2>1. /\ message'.ts = t /\ message'.cam = c /\ UNCHANGED used /\ t \in Nat /\ c \in Nat
        /\ message.ts < t \/ (message.ts = t /\ message.cam < c)
        /\ \A f \in seen : CamOf[f] = c
        /\ db' = [f \in Feats |-> IF f \in seen THEN db[f] \cup {t} ELSE db[f]]
    BY <1>1, Numbers DEF FeedNewCamera
  <2>2. ASSUME NEW f \in Feats, NEW u \in db'[f] \cup used'[f]
        PROVE  u < t \/ (u = t /\ CamOf[f] <= c)
    <3>1. CASE u \in db[f] \cup used[f]
      <4>1. u < message.ts \/ (u = message.ts /\ CamOf[f] <= message.cam)
        BY <3>1 DEF Seen
      <4>2. u \in Nat
        BY <1>0, <3>1
      <4> QED BY <1>0, <2>1, <4>1, <4>2
    <3>2. CASE u \notin db[f] \cup used[f]
      <4>1. f \in seen /\ u = t
        BY <2>1, <2>2, <3>2
      <4> QED BY <1>0, <2>1, <4>1
    <3> QED BY <3>1, <3>2
  <2> QED BY <2>1, <2>2 DEF Seen
<1>2. CASE /\ UNCHANGED message
           /\ \A f \in Feats : db'[f] \cup used'[f] \subseteq db[f] \cup used[f]
  BY <1>2 DEF Seen
<1>3. CASE ZuptAgain \/ ZuptReject \/ Propagate \/ SelectFeatures \/ ChangeAnchors
  BY <1>2, <1>3 DEF ZuptAgain, ZuptReject, Propagate, SelectFeatures, ChangeAnchors
<1>4. CASE ZuptAccept \/ Cleanup \/ MarginalizeOldClone
  <2>1. UNCHANGED <<message, used>> /\ \A f \in Feats : db'[f] \subseteq db[f]
    BY <1>4 DEF ZuptAccept, Cleanup, Usable, MarginalizeOldClone, WithoutTime, Typed, TypeOK
  <2> QED BY <1>2, <2>1
<1>5. CASE UpdateMsckf \/ UpdateSlam \/ DelayedInit
  <2>1. UNCHANGED <<message, db>>
    BY <1>5 DEF UpdateMsckf, UpdateSlam, DelayedInit
  <2>2. \A f \in Feats : used'[f] \subseteq used[f] \cup Usable(f)
    BY <1>5 DEF UpdateMsckf, UpdateSlam, DelayedInit
  <2>3. \A f \in Feats : Usable(f) \subseteq db[f]
    BY UsableTyped
  <2> QED BY <1>2, <2>1, <2>2, <2>3
<1> QED BY <1>1, <1>3, <1>4, <1>5 DEF Next
\* A window that is full ends at an older clone than the state's.
LEMMA FullIsOld ==
  ASSUME Typed, StandsAtClone, pc \in Updating, WindowIsFull
  PROVE  margtimestep \in clones /\ margtimestep # message.ts
<1>1. /\ clones \in SUBSET Nat /\ Cardinality(clones) \in Nat /\ timestamp \in Nat
      /\ timestamp = message.ts /\ timestamp \in clones
  BY Numbers, TimesFinite DEF Typed, TypeOK, StandsAtClone
<1>2. Cardinality(clones) > 1
  BY <1>1, Numbers DEF WindowIsFull
<1>3. margtimestep \in clones /\ \A t \in clones : margtimestep <= t
  BY <1>1, LeastMember DEF margtimestep
<1>4. ASSUME margtimestep = timestamp PROVE FALSE
  <2>1. \A t \in clones : timestamp <= t /\ t <= timestamp /\ t \in Nat
    BY <1>1, <1>3, <1>4 DEF StandsAtClone
  <2>2. \A t \in clones : t = timestamp
    BY <1>1, <2>1
  <2>3. clones = {timestamp}
    BY <1>1, <2>2
  <2>4. Cardinality({timestamp}) = 1
    BY FS_Singleton
  <2> QED BY <1>2, <2>3, <2>4
<1> QED BY <1>1, <1>3, <1>4

\* Standing still, the state's time has no clone, and neither has a time to come.
LEMMA NoCloneYet ==
  ASSUME Typed, StandsAtClone, timestamp # message.ts \/ zupt.did
  PROVE  message.ts \notin clones \/ (timestamp = message.ts /\ ~zupt.did)
<1>1. timestamp \in Nat /\ message.ts \in Nat /\ timestamp <= message.ts
      /\ \A t \in clones : t <= timestamp /\ t \in Nat
  BY Numbers DEF Typed, TypeOK, StandsAtClone
<1>2. CASE timestamp # message.ts
  BY <1>1, <1>2
<1>3. CASE timestamp = message.ts /\ zupt.did
  BY <1>3 DEF StandsAtClone
<1> QED BY <1>2, <1>3

\* With one measurement enough for a landmark, every feature of a list is deleted.
LEMMA AllDeleted ==
  ASSUME MinMeas = 1
  PROVE  Deletable = work.msckf \cup work.delayed \cup work.update
<1>1. 1..(MinMeas - 1) = {}
  OBVIOUS
<1> QED BY <1>1 DEF Deletable

\* With one measurement enough for a landmark, none waits from one measurement to
\* the next: what has arrived is used, or deleted with its feature by the cleanup.
LEMMA StepNothingWaits ==
  ASSUME MinMeas = 1, Typed, StandsAtClone, NothingWaits, Next, Sizes'
  PROVE  NothingWaits'
<1>0. DOMAIN slam \subseteq Feats
  BY DEF Typed, TypeOK
<1>1. ASSUME NEW c \in Cams, NEW t \in Times, NEW seen \in SUBSET Feats,
             FeedNewCamera(c, t, seen)
      PROVE  NothingWaits'
  <2>1. /\ pc = "idle" /\ pc' \in {"zupt", "propagate"} /\ message'.ts = t
        /\ UNCHANGED <<clones, slam>> /\ \A f \in Feats : db'[f] \subseteq db[f] \cup {t}
    BY <1>1 DEF FeedNewCamera
  <2>2. \A f \in DOMAIN slam : db[f] \cap clones = {}
    BY <2>1 DEF NothingWaits, Usable
  <2>3. \A f \in DOMAIN slam' : db'[f] \cap clones' \subseteq {message'.ts}
    BY <1>0, <2>1, <2>2
  <2> QED BY <2>1, <2>3 DEF NothingWaits, Usable
<1>2. CASE ZuptAgain
  <2>1. /\ pc = "zupt" /\ timestamp = message.ts /\ pc' \in {"idle", "propagate"}
        /\ pc' = "idle" => zupt.did
        /\ UNCHANGED <<message, clones, slam, db>>
    BY <1>2 DEF ZuptAgain, KeepDecision
  <2>2. pc' = "idle" => message.ts \notin clones
    BY <2>1, NoCloneYet
  <2>3. \A f \in DOMAIN slam : Usable(f) \subseteq {message.ts} /\ Usable(f) \subseteq clones
    BY <2>1 DEF NothingWaits, Usable
  <2>4. \A f \in DOMAIN slam : Usable(f)' = Usable(f)
    BY <2>1 DEF Usable
  <2>5. pc' = "idle" => \A f \in DOMAIN slam : Usable(f) = {}
    BY <2>2, <2>3
  <2> QED BY <2>1, <2>3, <2>4, <2>5 DEF NothingWaits
<1>3. CASE ZuptAccept
  <2>1. /\ pc = "zupt" /\ timestamp # message.ts /\ pc' = "idle" /\ UNCHANGED <<clones, slam>>
        /\ \A f \in Feats : db'[f] \subseteq db[f]
    BY <1>3 DEF ZuptAccept, WithoutTime, Typed, TypeOK
  <2>2. message.ts \notin clones
    BY <2>1, NoCloneYet
  <2>3. \A f \in DOMAIN slam : Usable(f) \subseteq {message.ts}
    BY <2>1 DEF NothingWaits
  <2>4. \A f \in DOMAIN slam' : Usable(f)' = {}
    BY <1>0, <2>1, <2>2, <2>3 DEF Usable
  <2> QED BY <2>1, <2>4 DEF NothingWaits
<1>4. CASE ZuptReject
  BY <1>4 DEF ZuptReject, NothingWaits, Usable
<1>5. CASE Propagate
  <2>1. /\ clones' = clones \cup {message.ts} /\ UNCHANGED <<slam, db, message>>
        /\ pc' = IF Cardinality(clones') < Smaller(MaxCloneSize, 5) THEN "idle" ELSE "select"
        /\ pc = "propagate"
    BY <1>5, ClonedHere DEF Propagate
  <2>2. pc' = "idle" => DOMAIN slam' = {}
    <3>1. Cardinality(clones') \in Nat /\ Smaller(MaxCloneSize, 5) \in Nat
      <4>1. clones' \in SUBSET Times
        BY <1>5, <2>1, ClonedHere DEF Typed, TypeOK
      <4> QED BY <4>1, TimesFinite, Numbers DEF Smaller
    <3>2. DOMAIN slam' # {} => Cardinality(clones') >= Smaller(MaxCloneSize, 5)
      BY DEF Sizes
    <3>3. pc' = "idle" => Cardinality(clones') < Smaller(MaxCloneSize, 5)
      BY <2>1
    <3>4. pc' = "idle" => ~(Cardinality(clones') >= Smaller(MaxCloneSize, 5))
      BY <3>1, <3>3
    <3> QED BY <3>2, <3>4
  <2>3. \A f \in DOMAIN slam' : Usable(f)' \subseteq {message'.ts}
    <3>1. \A f \in DOMAIN slam : Usable(f) \subseteq {message.ts}
      BY <2>1 DEF NothingWaits
    <3> QED BY <2>1, <3>1 DEF Usable
  <2> QED BY <2>1, <2>2, <2>3 DEF NothingWaits
<1>6. CASE SelectFeatures
  <2>1. /\ pc = "select" /\ pc' = "update" /\ UNCHANGED <<clones, db, message>>
    BY <1>6 DEF SelectFeatures
  <2>2. /\ DOMAIN slam' \subseteq DOMAIN slam
        /\ \A f \in DOMAIN slam' : db[f] # {} => f \in work'.update
    BY <1>6, Selected
  <2>3. \A f \in DOMAIN slam' : Usable(f)' \subseteq {message'.ts}
    BY <2>1, <2>2 DEF NothingWaits, Usable
  <2> QED BY <2>1, <2>2, <2>3 DEF NothingWaits
<1>7. CASE UpdateMsckf
  <2>1. pc = "update" /\ pc' = "slam" /\ UNCHANGED <<message, clones, db, slam, work>>
    BY <1>7 DEF UpdateMsckf
  <2> QED BY <2>1 DEF NothingWaits, Usable
<1>8. CASE UpdateSlam
  <2>1. pc = "slam" /\ pc' = "delayed" /\ DOMAIN slam' = DOMAIN slam /\ UNCHANGED <<db, work>>
    BY <1>8, UpdateTyped DEF UpdateSlam
  <2> QED BY <2>1 DEF NothingWaits
<1>9. CASE DelayedInit
  <2>1. pc = "delayed" /\ pc' = "cleanup" /\ UNCHANGED <<db, work>>
    BY <1>9 DEF DelayedInit
  <2>2. DOMAIN slam' \subseteq DOMAIN slam \cup work.delayed
    BY <1>9, DelayedTyped
  <2> QED BY <2>1, <2>2 DEF NothingWaits
<1>10. CASE Cleanup
  <2>1. /\ pc = "cleanup" /\ pc' = "anchors" /\ UNCHANGED slam
        /\ \A f \in Feats : f \in Deletable => db'[f] = {}
        /\ \A f \in Feats : f \notin Deletable => db'[f] = db[f]
    BY <1>10, AllDeleted DEF Cleanup
  <2>2. \A f \in DOMAIN slam : db'[f] = {}
    BY <1>0, <2>1, AllDeleted DEF NothingWaits
  <2> QED BY <2>1, <2>2 DEF NothingWaits, Usable
<1>11. CASE ChangeAnchors
  <2>1. /\ pc = "anchors" /\ pc' \in {"idle", "exit", "marg"} /\ DOMAIN slam' = DOMAIN slam
        /\ UNCHANGED <<clones, db>>
    BY <1>11, ChangeTyped DEF ChangeAnchors
  <2> QED BY <2>1 DEF NothingWaits, Usable
<1>12. CASE MarginalizeOldClone
  <2>1. /\ pc = "marg" /\ pc' = "idle" /\ UNCHANGED slam /\ clones' \subseteq clones
        /\ \A f \in Feats : db'[f] \subseteq db[f]
    BY <1>12 DEF MarginalizeOldClone
  <2> QED BY <1>0, <2>1 DEF NothingWaits, Usable
<1> QED
  BY <1>1, <1>2, <1>3, <1>4, <1>5, <1>6, <1>7, <1>8, <1>9, <1>10, <1>11, <1>12 DEF Next

\* Choosing features lists no landmark twice, and none for the MSCKF update that the
\* SLAM updates could use as well.
LEMMA StepListsApart ==
  ASSUME Typed, StandsAtClone, NothingWaits, ListsApart, Next
  PROVE  ListsApart'
<1>0. DOMAIN slam \subseteq Feats
  BY DEF Typed, TypeOK
<1>1. CASE SelectFeatures
  <2>1. /\ pc = "select" /\ pc' = "update" /\ UNCHANGED <<clones, db, message>>
    BY <1>1 DEF SelectFeatures
  <2>2. PICK new \in SUBSET MaxTracks, best \in SUBSET Feats :
          LET listed == {f \in DOMAIN slam : db[f] # {}}
              kept == DOMAIN slam \ Finished
              chosen == CornersAtMarg \cup new \cup listed
          IN  /\ best \subseteq MsckfCandidates(new)
              /\ slam' = [f \in kept |-> slam[f]]
              /\ work' = [msckf |-> best,
                          update |-> chosen \cap kept,
                          twice |-> CornersAtMarg \cap listed \cap kept,
                          delayed |-> chosen \ kept]
    BY <1>1, Selected
  <2>3. \A f \in DOMAIN slam : Usable(f) \subseteq {message.ts}
    BY <2>1 DEF NothingWaits
  <2>4. work'.twice = {}
    <3> SUFFICES ASSUME NEW f \in CornersAtMarg \cap DOMAIN slam PROVE FALSE
      BY <2>2
    <3>1. WindowIsFull /\ margtimestep \in db[f]
      BY DEF CornersAtMarg, AtMargTime
    <3>2. margtimestep \in clones /\ margtimestep # message.ts
      BY <2>1, <3>1, FullIsOld DEF Updating
    <3> QED BY <2>3, <3>1, <3>2 DEF Usable
  <2>5. work'.update \cap work'.delayed = {} /\ work'.update \subseteq DOMAIN slam'
    BY <2>2
  <2>6. ASSUME NEW f \in work'.msckf \cap (work'.update \cup work'.delayed)
        PROVE  Usable(f)' = {}
    <3>1. f \in Points /\ f \notin new /\ f \notin CornersAtMarg
      BY <2>2, <2>6, Numbers DEF MsckfCandidates, FeatsLost, AtMargTime, CornersAtMarg
    <3>2. f \in DOMAIN slam
      BY <2>2, <2>6, <3>1
    <3>3. Usable(f) \subseteq {message.ts} /\ Usable(f)' = Usable(f)
      BY <2>1, <2>3, <3>2 DEF Usable
    <3>4. CASE f \in FeatsLost
      <4>1. timestamp = message.ts /\ message.ts \in Nat
        BY <2>1, Numbers DEF StandsAtClone, Updating, Typed
      <4>2. message.ts \notin Usable(f)
        BY <3>4, <4>1 DEF FeatsLost, Usable
      <4> QED BY <3>3, <4>2
    <3>5. CASE f \in AtMargTime(Points)
      <4>1. WindowIsFull /\ margtimestep \in db[f]
        BY <3>5 DEF AtMargTime
      <4>2. margtimestep \in clones /\ margtimestep # message.ts
        BY <2>1, <4>1, FullIsOld DEF Updating
      <4> QED BY <3>3, <4>1, <4>2 DEF Usable
    <3>6. f \in FeatsLost \cup AtMargTime(Points)
      BY <2>2, <2>6 DEF MsckfCandidates
    <3> QED BY <3>4, <3>5, <3>6
  <2> QED BY <2>1, <2>4, <2>5, <2>6 DEF ListsApart
<1>2. CASE UpdateMsckf
  <2>1. pc = "update" /\ pc' = "slam" /\ UNCHANGED <<clones, db, slam, work>>
    BY <1>2 DEF UpdateMsckf
  <2> QED BY <2>1 DEF ListsApart, Usable
<1>3. CASE UpdateSlam
  <2>1. pc = "slam" /\ pc' = "delayed" /\ UNCHANGED <<clones, db, work>>
    BY <1>3 DEF UpdateSlam
  <2> QED BY <2>1 DEF ListsApart, Usable
<1>4. CASE pc' \notin {"update", "slam", "delayed"}
  BY <1>4 DEF ListsApart
<1>5. ASSUME NEW c \in Cams, NEW t \in Times, NEW seen \in SUBSET Feats,
             FeedNewCamera(c, t, seen)
      PROVE  pc' \notin {"update", "slam", "delayed"}
  BY <1>5 DEF FeedNewCamera
<1>6. CASE ZuptAgain \/ ZuptAccept \/ ZuptReject \/ Propagate
  BY <1>4, <1>6 DEF ZuptAgain, ZuptAccept, ZuptReject, Propagate
<1>7. CASE DelayedInit \/ Cleanup \/ ChangeAnchors \/ MarginalizeOldClone
  BY <1>4, <1>7 DEF DelayedInit, Cleanup, ChangeAnchors, MarginalizeOldClone
<1> QED BY <1>1, <1>2, <1>3, <1>4, <1>5, <1>6, <1>7 DEF Next
\* A new measurement was not used before, and an unused one stays unused unless
\* its feature is taken.
LEMMA StepUsedOnce ==
  ASSUME MinMeas = 1, Typed, Seen, NothingWaits, ListsApart, UsedOnce, Next
  PROVE  UsedOnce'
<1>0. /\ DOMAIN slam \subseteq Feats /\ work \in Works
      /\ \A f \in Feats : Usable(f) \subseteq db[f]
  BY UsableTyped DEF Typed, TypeOK
<1>1. ASSUME NEW c \in Cams, NEW t \in Times, NEW seen \in SUBSET Feats,
             FeedNewCamera(c, t, seen)
      PROVE  UsedOnce'
  <2>1. /\ pc = "idle" /\ pc' \in {"zupt", "propagate"} /\ UNCHANGED <<used, reused>>
        /\ message.ts < t \/ (message.ts = t /\ message.cam < c)
        /\ \A f \in seen : CamOf[f] = c
        /\ \A f \in Feats : db'[f] = IF f \in seen THEN db[f] \cup {t} ELSE db[f]
    BY <1>1 DEF FeedNewCamera
  <2>2. \A f \in Feats : used[f] \cap db[f] = {}
    BY <2>1 DEF UsedOnce, Unused
  <2>3. message.ts \in Nat /\ message.cam \in Nat /\ t \in Nat /\ c \in Nat
    BY Numbers DEF Typed
  <2>4. ASSUME NEW f \in seen, t \in used[f] PROVE FALSE
    <3>1. t < message.ts \/ (t = message.ts /\ CamOf[f] <= message.cam)
      BY <2>4 DEF Seen
    <3>2. CamOf[f] = c
      BY <2>1
    <3> QED BY <2>1, <2>3, <3>1, <3>2
  <2>5. \A f \in Feats : used'[f] \cap db'[f] = {}
    BY <2>1, <2>2, <2>4
  <2> QED BY <2>1, <2>5 DEF UsedOnce, Unused
<1>2. ASSUME pc \in {"idle", "zupt", "propagate", "select", "anchors", "marg"},
             pc' \in {"idle", "zupt", "propagate", "select", "update", "anchors", "marg", "exit"},
             UNCHANGED <<used, reused>>, \A f \in Feats : db'[f] \subseteq db[f]
      PROVE  UsedOnce'
  <2>1. \A f \in Feats : used[f] \cap db[f] = {}
    BY <1>2 DEF UsedOnce, Unused
  <2>2. \A f \in Feats : used'[f] \cap db'[f] = {}
    BY <1>2, <2>1
  <2> QED BY <1>2, <2>2 DEF UsedOnce, Unused
<1>3. CASE ZuptAgain \/ ZuptReject \/ Propagate \/ SelectFeatures \/ ChangeAnchors
  BY <1>2, <1>3 DEF ZuptAgain, ZuptReject, Propagate, SelectFeatures, ChangeAnchors
<1>4. CASE ZuptAccept
  BY <1>2, <1>4 DEF ZuptAccept, WithoutTime, Typed, TypeOK
<1>5. CASE MarginalizeOldClone
  BY <1>2, <1>5 DEF MarginalizeOldClone
<1>6. CASE UpdateMsckf
  <2>1. PICK taken \in SUBSET {f \in work.msckf : Triangulable(f)} :
          /\ reused' = (reused \/ \E f \in taken : Usable(f) \cap used[f] # {})
          /\ used' = [f \in Feats |-> IF f \in taken THEN used[f] \cup Usable(f)
                                      ELSE used[f]]
    BY <1>6 DEF UpdateMsckf
  <2>2. pc = "update" /\ pc' = "slam" /\ UNCHANGED <<clones, db, work>>
    BY <1>6 DEF UpdateMsckf
  <2>3. taken \subseteq Feats
    BY <1>0, Numbers DEF Works
  <2>4. ~reused /\ \A f \in Feats : used[f] \cap db[f] = {}
    BY <2>2 DEF UsedOnce, Unused
  <2>5. ~reused'
    BY <1>0, <2>1, <2>3, <2>4
  <2>6. ASSUME NEW f \in Feats PROVE Unused(f)' \/ ByMsckf(f)'
    <3>1. CASE f \in taken
      <4>1. f \in work.msckf /\ Usable(f) # {}
        BY <2>1, <3>1, MeasuredAtClone
      <4> QED BY <2>2, <4>1 DEF ByMsckf, Usable
    <3>2. CASE f \notin taken
      BY <2>1, <2>2, <2>4, <3>2 DEF Unused
    <3> QED BY <3>1, <3>2
  <2> QED BY <2>2, <2>5, <2>6 DEF UsedOnce
<1>7. CASE UpdateSlam
  <2>1. PICK taken \in SUBSET {f \in work.update : Cardinality(Usable(f)) >= MinMeas} :
          /\ reused' = (reused \/ \E f \in taken : Usable(f) \cap used[f] # {}
                               \/ taken \cap work.twice # {})
          /\ used' = [f \in Feats |-> IF f \in taken THEN used[f] \cup Usable(f)
                                      ELSE used[f]]
    BY <1>7 DEF UpdateSlam
  <2>2. pc = "slam" /\ pc' = "delayed" /\ UNCHANGED <<clones, db, work>>
    BY <1>7 DEF UpdateSlam
  <2>3. taken \subseteq DOMAIN slam /\ taken \subseteq Feats /\ work.twice = {}
    BY <1>0, <2>2 DEF ListsApart
  <2>4. \A f \in taken : ~ByMsckf(f)
    BY <2>1, <2>2 DEF ListsApart, ByMsckf
  <2>5. \A f \in taken : used[f] \cap db[f] = {}
    BY <2>2, <2>3, <2>4 DEF UsedOnce, Unused
  <2>6. ~reused'
    <3>1. \A f \in taken : Usable(f) \cap used[f] = {}
      BY <1>0, <2>3, <2>5
    <3>2. ~reused
      BY DEF UsedOnce
    <3> QED BY <2>1, <2>3, <3>1, <3>2
  <2>7. ASSUME NEW f \in Feats PROVE Unused(f)' \/ ByMsckf(f)' \/ f \in work'.update
    <3>1. CASE f \in taken
      BY <2>2, <3>1
    <3>2. CASE f \notin taken
      <4>1. Unused(f) \/ ByMsckf(f)
        BY <2>2 DEF UsedOnce
      <4>2. UNCHANGED <<Usable(f), used[f], db[f]>>
        BY <2>1, <2>2, <3>2 DEF Usable
      <4> QED BY <2>2, <4>1, <4>2 DEF Unused, ByMsckf
    <3> QED BY <3>1, <3>2
  <2> QED BY <2>2, <2>6, <2>7 DEF UsedOnce
<1>8. CASE DelayedInit
  <2>1. PICK taken \in SUBSET {f \in work.delayed : Triangulable(f)} :
          /\ reused' = (reused \/ \E f \in taken : Usable(f) \cap used[f] # {})
          /\ used' = [f \in Feats |-> IF f \in taken THEN used[f] \cup Usable(f)
                                      ELSE used[f]]
    BY <1>8 DEF DelayedInit
  <2>2. pc = "delayed" /\ pc' = "cleanup" /\ UNCHANGED <<clones, db, work>>
    BY <1>8 DEF DelayedInit
  <2>3. taken \subseteq Feats /\ taken \subseteq work.delayed
    BY <1>0 DEF Works
  <2>4. \A f \in taken : f \notin work.update
    BY <2>2, <2>3 DEF ListsApart
  <2>5. \A f \in taken : ~ByMsckf(f)
    <3> TAKE f \in taken
    <3>1. Usable(f) # {}
      BY MeasuredAtClone
    <3>2. f \in work.msckf => Usable(f) = {}
      BY <2>2, <2>3 DEF ListsApart
    <3> QED BY <3>1, <3>2 DEF ByMsckf
  <2>6. \A f \in taken : used[f] \cap db[f] = {}
    BY <2>2, <2>3, <2>4, <2>5 DEF UsedOnce, Unused
  <2>7. ~reused'
    <3>1. \A f \in taken : Usable(f) \cap used[f] = {}
      BY <1>0, <2>3, <2>6
    <3>2. ~reused
      BY DEF UsedOnce
    <3> QED BY <2>1, <3>1, <3>2
  <2>8. ASSUME NEW f \in Feats
        PROVE  Unused(f)' \/ f \in work'.msckf \cup work'.update \cup work'.delayed
    <3>1. CASE f \in taken
      BY <2>2, <2>3, <3>1
    <3>2. CASE f \notin taken
      <4>1. Unused(f) \/ f \in work.msckf \/ f \in work.update
        BY <2>2 DEF UsedOnce, ByMsckf
      <4>2. UNCHANGED <<used[f], db[f]>>
        BY <2>1, <2>2, <3>2
      <4> QED BY <2>2, <4>1, <4>2 DEF Unused
    <3> QED BY <3>1, <3>2
  <2> QED BY <2>2, <2>7, <2>8 DEF UsedOnce
<1>9. CASE Cleanup
  <2>1. /\ pc = "cleanup" /\ pc' = "anchors" /\ UNCHANGED <<used, reused>>
        /\ \A f \in Feats : f \in Deletable => db'[f] = {}
        /\ \A f \in Feats : f \notin Deletable => db'[f] = db[f]
    BY <1>9, AllDeleted DEF Cleanup
  <2>2. ASSUME NEW f \in Feats PROVE used'[f] \cap db'[f] = {}
    <3>1. used[f] \cap db[f] = {} \/ f \in Deletable
      BY <2>1, AllDeleted DEF UsedOnce, Unused
    <3> QED BY <2>1, <3>1
  <2> QED BY <2>1, <2>2 DEF UsedOnce, Unused
<1> QED BY <1>1, <1>3, <1>4, <1>5, <1>6, <1>7, <1>8, <1>9 DEF Next

UseInv == WindowInv /\ Seen /\ NothingWaits /\ ListsApart /\ UsedOnce

\* Every step keeps the invariant of use.
LEMMA NextUseInv ==
  ASSUME MinMeas = 1
  PROVE  UseInv /\ [Next]_vars => UseInv'
<1> SUFFICES ASSUME UseInv, [Next]_vars PROVE UseInv'
  OBVIOUS
<1>1. WindowInv'
  BY NextWindowInv DEF UseInv
<1>2. CASE Next
  <2>1. Typed /\ StandsAtClone /\ Seen /\ NothingWaits /\ ListsApart /\ UsedOnce /\ Sizes'
    BY <1>1 DEF UseInv, WindowInv
  <2>2. Seen'
    BY <1>2, <2>1, StepSeen
  <2>3. NothingWaits'
    BY <1>2, <2>1, StepNothingWaits
  <2>4. ListsApart'
    BY <1>2, <2>1, StepListsApart
  <2>5. UsedOnce'
    BY <1>2, <2>1, StepUsedOnce
  <2> QED BY <1>1, <2>2, <2>3, <2>4, <2>5 DEF UseInv
<1>3. CASE UNCHANGED vars
  <2> USE <1>3 DEF vars
  <2>1. Seen' /\ UsedOnce'
    BY DEF UseInv, Seen, UsedOnce, Unused, ByMsckf, Usable
  <2>2. NothingWaits' /\ ListsApart'
    BY DEF UseInv, NothingWaits, ListsApart, Usable
  <2> QED BY <1>1, <2>1, <2>2 DEF UseInv
<1> QED BY <1>2, <1>3

\* With every representation of a landmark that one measurement can update, no
\* measurement enters two updates, of one updater or of two.  (With the single
\* inverse depth, MinMeas = 2, it does not hold: the finding of run filter_single.)
THEOREM NoInformationTwice ==
  ASSUME MinMeas = 1
  PROVE  Spec => []InformationUsedOnce
<1>1. Init => UseInv
  BY InitWindowInv, InitUse DEF UseInv
<1>2. UseInv => InformationUsedOnce
  BY DEF UseInv, UsedOnce, InformationUsedOnce
<1> QED BY <1>1, <1>2, NextUseInv, PTL DEF Spec

------------------------------------------------------------------------------
(* The ids and the covariance: StateCov *)

\* The constructor has not added the variables it still has to add.
NotYetBuilt == \A i \in 1..Len(CtorOrder) : i > built => CtorOrder[i] \notin variables

\* Clones and landmarks lie behind everything the constructor placed, and
\* there are none before it is done.
FixedFirst ==
    /\ \A w \in variables : w \in Fixed \/ Constructed
    /\ \A w \in variables \cap Fixed, v \in variables \ Fixed : id[w] < id[v]

CovInv == /\ CovTypeOK /\ IdsPointAtOwnRows /\ NoStrayRow
        /\ NotYetBuilt /\ FixedFirst

\* The constants in the form the solver uses: sizes are positive.
LEMMA SizesPositive == \A v \in Vars : Size[v] \in Int /\ Size[v] > 0
BY CovAssumption DEF Vars

\* Labels tell blocks apart: of two variables of the state, one block ends
\* before the other begins.
LEMMA Disjoint ==
    ASSUME CovTypeOK, IdsPointAtOwnRows,
           NEW v \in variables, NEW w \in variables, v # w
    PROVE  id[w] >= id[v] + Size[v] \/ id[v] >= id[w] + Size[w]
<1>1. /\ Size[v] \in Int /\ Size[v] > 0
      /\ Size[w] \in Int /\ Size[w] > 0
      /\ id[v] \in Int /\ id[w] \in Int
  BY SizesPositive DEF CovTypeOK
<1>2. CASE id[v] <= id[w] /\ id[w] < id[v] + Size[v]
  <2>1. (id[w] - id[v]) \in 0..(Size[v] - 1) /\ 0 \in 0..(Size[w] - 1)
    BY <1>1, <1>2
  <2>2. cov[id[v] + (id[w] - id[v]) + 1] = <<v, id[w] - id[v]>>
    BY <2>1 DEF IdsPointAtOwnRows
  <2>3. cov[id[w] + 0 + 1] = <<w, 0>>
    BY <2>1 DEF IdsPointAtOwnRows
  <2>4. id[v] + (id[w] - id[v]) + 1 = id[w] + 0 + 1
    BY <1>1
  <2>. QED BY <2>2, <2>3, <2>4
<1>3. CASE id[w] <= id[v] /\ id[v] < id[w] + Size[w]
  <2>1. (id[v] - id[w]) \in 0..(Size[w] - 1) /\ 0 \in 0..(Size[v] - 1)
    BY <1>1, <1>3
  <2>2. cov[id[w] + (id[v] - id[w]) + 1] = <<w, id[v] - id[w]>>
    BY <2>1 DEF IdsPointAtOwnRows
  <2>3. cov[id[v] + 0 + 1] = <<v, 0>>
    BY <2>1 DEF IdsPointAtOwnRows
  <2>4. id[w] + (id[v] - id[w]) + 1 = id[v] + 0 + 1
    BY <1>1
  <2>. QED BY <2>2, <2>3, <2>4
<1>. QED BY <1>1, <1>2, <1>3

\* What PushBack leaves: the new variable behind all rows, the others alone.
LEMMA PushBackLayout ==
    ASSUME CovTypeOK, IdsPointAtOwnRows, NoStrayRow,
           NEW x \in Vars, x \notin variables, PushBack(x)
    PROVE  /\ id' \in [Vars -> Int] /\ cov' \in Seq(Label)
           /\ id'[x] = Len(cov)
           /\ \A w \in Vars \ {x} : id'[w] = id[w]
           /\ IdsPointAtOwnRows'
           /\ NoStrayRow'
<1>. DEFINE n == Len(cov)
            s == Size[x]
<1>1. s \in Int /\ s > 0 /\ n \in Nat
  BY SizesPositive DEF CovTypeOK
<1>2. /\ id' \in [Vars -> Int]
      /\ id'[x] = n
      /\ \A w \in Vars \ {x} : id'[w] = id[w]
  BY <1>1 DEF PushBack, CovTypeOK
<1>3. /\ cov' = [i \in 1..(n + s) |-> IF i <= n THEN cov[i] ELSE <<x, i - n - 1>>]
      /\ n + s \in Nat
  BY <1>1 DEF PushBack
<1>4. \A i \in 1..(n + s) : (IF i <= n THEN cov[i] ELSE <<x, i - n - 1>>) \in Label
  <2>. SUFFICES ASSUME NEW i \in 1..(n + s)
                PROVE  (IF i <= n THEN cov[i] ELSE <<x, i - n - 1>>) \in Label
    OBVIOUS
  <2>1. CASE i <= n
    BY <2>1, <1>1 DEF CovTypeOK
  <2>2. CASE i > n
    <3>1. i - n - 1 \in Nat
      BY <2>2, <1>1
    <3>. QED BY <3>1, <2>2, <1>1 DEF Label
  <2>. QED BY <2>1, <2>2, <1>1
<1>5. cov' \in Seq(Label) /\ Len(cov') = n + s
  <2>1. cov' \in [1..(n + s) -> Label]
    BY <1>3, <1>4
  <2>2. n + s \in Nat
    BY <1>1
  <2>. DEFINE m == n + s
  <2>. HIDE DEF m
  <2>3. cov' \in [1..m -> Label] /\ m \in Nat
    BY <2>1, <2>2 DEF m
  <2>4. cov' \in Seq(Label) /\ Len(cov') = m
    BY <2>3
  <2>. QED BY <2>4 DEF m
<1>6. \A v \in variables : v # x /\ v \in Vars
  BY DEF CovTypeOK
<1>7. IdsPointAtOwnRows'
  <2>. SUFFICES ASSUME NEW v \in variables', NEW k \in 0..(Size[v] - 1)
                PROVE  /\ id'[v] + k + 1 <= Len(cov')
                       /\ cov'[id'[v] + k + 1] = <<v, k>>
    BY DEF IdsPointAtOwnRows
  <2>1. CASE v = x
    <3>1. /\ n + k + 1 \in 1..(n + s) /\ ~(n + k + 1 <= n)
          /\ (n + k + 1) - n - 1 = k
      BY <2>1, <1>1
    <3>. QED BY <3>1, <2>1, <1>2, <1>3, <1>5, <1>1
  <2>2. CASE v # x
    <3>1. v \in variables /\ id'[v] = id[v] /\ id[v] \in Int /\ id[v] >= 0
      BY <2>2, <1>2, <1>6 DEF PushBack, CovTypeOK
    <3>2. id[v] + k + 1 <= n /\ cov[id[v] + k + 1] = <<v, k>>
      BY <3>1 DEF IdsPointAtOwnRows
    <3>3. id[v] + k + 1 \in 1..(n + s)
      BY <3>1, <3>2, <1>1
    <3>. QED BY <3>1, <3>2, <3>3, <1>3, <1>5, <1>1
  <2>. QED BY <2>1, <2>2
<1>8. NoStrayRow'
  <2>. SUFFICES ASSUME NEW i \in 1..Len(cov')
                PROVE  \E v \in variables' : id'[v] < i /\ i <= id'[v] + Size[v]
    BY DEF NoStrayRow
  <2>1. CASE i <= n
    <3>1. PICK v \in variables : id[v] < i /\ i <= id[v] + Size[v]
      BY <2>1, <1>1, <1>5 DEF NoStrayRow
    <3>. QED BY <3>1, <1>2, <1>6 DEF PushBack
  <2>2. CASE i > n
    <3>1. x \in variables'
      BY DEF PushBack
    <3>. QED BY <3>1, <2>2, <1>1, <1>2, <1>5
  <2>. QED BY <2>1, <2>2, <1>1, <1>5
<1>. QED BY <1>2, <1>5, <1>7, <1>8

\* What Marginalize leaves: earlier ids as they were, later ids moved forward
\* by the size of the removed variable.
LEMMA MarginalizeIds ==
    ASSUME CovTypeOK, IdsPointAtOwnRows, NEW m \in Vars, Marginalize(m)
    PROVE  /\ id' \in [Vars -> Int]
           /\ m \in variables /\ m \notin Fixed
           /\ variables' = variables \ {m}
           /\ id'[m] = -1
           /\ \A w \in Vars \ variables : id'[w] = id[w]
           /\ \A w \in variables \ {m} :
                \/ id[w] + Size[w] <= id[m] /\ id'[w] = id[w]
                \/ id[w] >= id[m] + Size[m] /\ id'[w] = id[w] - Size[m]
<1>1. Size[m] \in Int /\ Size[m] > 0 /\ id[m] \in Int
  BY SizesPositive DEF CovTypeOK
<1>2. /\ m \in variables /\ m \notin Fixed
      /\ variables' = variables \ {m}
      /\ id' = [w \in Vars |->
                 IF w = m THEN -1
                 ELSE IF w \in variables
                      THEN IF id[w] > id[m] THEN id[w] - Size[m] ELSE id[w]
                 ELSE id[w]]
  BY DEF Marginalize, ShiftedId, Forget
<1>3. \A w \in Vars : id[w] \in Int
  BY DEF CovTypeOK
<1>4. id' \in [Vars -> Int]
  BY <1>1, <1>2, <1>3
<1>5. \A w \in Vars \ variables : id'[w] = id[w]
  BY <1>2
<1>6. ASSUME NEW w \in variables \ {m}
      PROVE  \/ id[w] + Size[w] <= id[m] /\ id'[w] = id[w]
             \/ id[w] >= id[m] + Size[m] /\ id'[w] = id[w] - Size[m]
  <2>1. w \in Vars /\ Size[w] \in Int /\ Size[w] > 0 /\ id[w] \in Int
    BY SizesPositive, <1>3 DEF CovTypeOK
  <2>2. id[w] >= id[m] + Size[m] \/ id[m] >= id[w] + Size[w]
    BY <1>2, Disjoint
  <2>. QED BY <2>1, <2>2, <1>1, <1>2
<1>. QED BY <1>2, <1>4, <1>5, <1>6

\* The rows after Marginalize: those before the removed block, then the rest.
LEMMA MarginalizeRows ==
    ASSUME CovTypeOK, IdsPointAtOwnRows, NEW m \in Vars, Marginalize(m)
    PROVE  /\ id[m] \in Nat /\ Size[m] \in Nat \ {0}
           /\ id[m] + Size[m] <= Len(cov)
           /\ cov' \in Seq(Label) /\ Len(cov') = Len(cov) - Size[m]
           /\ \A i \in 1..(Len(cov) - Size[m]) :
                  cov'[i] = IF i <= id[m] THEN cov[i] ELSE cov[i + Size[m]]
<1>. DEFINE n == Len(cov)
            s == Size[m]
<1>1. s \in Int /\ s > 0 /\ n \in Nat /\ m \in variables /\ id[m] \in Nat
  BY SizesPositive DEF CovTypeOK, Marginalize
<1>2. id[m] + s <= n
  <2>1. s - 1 \in 0..(s - 1)
    BY <1>1
  <2>2. id[m] + (s - 1) + 1 <= n
    BY <2>1, <1>1 DEF IdsPointAtOwnRows
  <2>. QED BY <2>2, <1>1
<1>3. cov' = [i \in 1..(n - s) |-> IF i <= id[m] THEN cov[i] ELSE cov[i + s]]
      /\ n - s \in Nat
  BY <1>1, <1>2 DEF Marginalize, CutRows
<1>4. \A i \in 1..(n - s) : (IF i <= id[m] THEN cov[i] ELSE cov[i + s]) \in Label
  <2>. SUFFICES ASSUME NEW i \in 1..(n - s)
                PROVE  cov[i] \in Label /\ cov[i + s] \in Label
    OBVIOUS
  <2>1. i \in 1..n /\ i + s \in 1..n
    BY <1>1
  <2>. QED BY <2>1 DEF CovTypeOK
<1>5. cov' \in Seq(Label) /\ Len(cov') = n - s
  <2>. DEFINE m1 == n - s
  <2>1. m1 \in Nat /\ cov' \in [1..m1 -> Label]
    BY <1>3, <1>4
  <2>. HIDE DEF m1
  <2>2. cov' \in Seq(Label) /\ Len(cov') = m1
    BY <2>1
  <2>. QED BY <2>2 DEF m1
<1>. QED BY <1>1, <1>2, <1>3, <1>5

\* Marginalize keeps every other id on its own rows and leaves none stray.
LEMMA MarginalizeLayout ==
    ASSUME CovTypeOK, IdsPointAtOwnRows, NoStrayRow, NEW m \in Vars, Marginalize(m)
    PROVE  IdsPointAtOwnRows' /\ NoStrayRow'
<1>. DEFINE n == Len(cov)
            s == Size[m]
<1>1. s \in Int /\ s > 0 /\ n \in Nat /\ id[m] \in Nat /\ id[m] + s <= n
  BY MarginalizeRows DEF CovTypeOK
<1>2. /\ Len(cov') = n - s
      /\ \A i \in 1..(n - s) : cov'[i] = IF i <= id[m] THEN cov[i] ELSE cov[i + s]
  BY MarginalizeRows
<1>3. /\ m \in variables /\ variables' = variables \ {m}
      /\ \A w \in variables \ {m} :
            \/ id[w] + Size[w] <= id[m] /\ id'[w] = id[w]
            \/ id[w] >= id[m] + s /\ id'[w] = id[w] - s
  BY MarginalizeIds
<1>4. \A w \in variables : /\ id[w] \in Int /\ id[w] >= 0
                           /\ Size[w] \in Int /\ Size[w] > 0
  BY SizesPositive DEF CovTypeOK
<1>5. IdsPointAtOwnRows'
  <2>. SUFFICES ASSUME NEW v \in variables', NEW k \in 0..(Size[v] - 1)
                PROVE  /\ id'[v] + k + 1 <= Len(cov')
                       /\ cov'[id'[v] + k + 1] = <<v, k>>
    BY DEF IdsPointAtOwnRows
  <2>1. v \in variables \ {m}
    BY <1>3
  <2>2. id[v] + k + 1 <= n /\ cov[id[v] + k + 1] = <<v, k>>
    BY <2>1 DEF IdsPointAtOwnRows
  <2>3. CASE id[v] + Size[v] <= id[m] /\ id'[v] = id[v]
    <3>1. id[v] + k + 1 \in 1..(n - s) /\ id[v] + k + 1 <= id[m]
      BY <2>1, <2>3, <1>1, <1>4
    <3>. QED BY <3>1, <2>2, <2>3, <1>1, <1>2
  <2>4. CASE id[v] >= id[m] + s /\ id'[v] = id[v] - s
    <3>. DEFINE i == id[v] - s + k + 1
    <3>0. k \in Int /\ k >= 0 /\ id[v] \in Int
      BY <2>1, <1>4
    <3>1. i \in 1..(n - s) /\ ~(i <= id[m]) /\ i + s = id[v] + k + 1
      <4>1. id[v] - s >= id[m] /\ id[v] + k + 1 <= n /\ s \in Int /\ n \in Int /\ id[m] \in Int
            /\ id[m] >= 0
        BY <3>0, <2>2, <2>4, <1>1
      <4>. HIDE DEF s, n
      <4>2. i \in Int /\ i + s = id[v] + k + 1 /\ i >= id[m] + 1 /\ i <= n - s
        BY <3>0, <4>1
      <4>. HIDE DEF i
      <4>. QED BY <4>1, <4>2
    <3>2. cov'[i] = cov[i + s]
      BY <3>1, <1>2
    <3>3. cov'[i] = <<v, k>>
      BY <3>1, <3>2, <2>2
    <3>4. i = id'[v] + k + 1 /\ i <= Len(cov')
      BY <3>1, <2>4, <1>1, <1>2
    <3>. QED BY <3>3, <3>4
  <2>. QED BY <2>1, <2>3, <2>4, <1>3
<1>6. NoStrayRow'
  <2>. SUFFICES ASSUME NEW i \in 1..Len(cov')
                PROVE  \E v \in variables' : id'[v] < i /\ i <= id'[v] + Size[v]
    BY DEF NoStrayRow
  <2>1. CASE i <= id[m]
    <3>1. PICK v \in variables : id[v] < i /\ i <= id[v] + Size[v]
      BY <2>1, <1>1, <1>2 DEF NoStrayRow
    <3>2. v # m
      BY <3>1, <2>1, <1>1
    <3>. QED BY <3>1, <3>2, <2>1, <1>1, <1>3, <1>4
  <2>2. CASE i > id[m]
    <3>1. i + s \in 1..n
      BY <1>1, <1>2
    <3>2. PICK v \in variables : id[v] < i + s /\ i + s <= id[v] + Size[v]
      BY <3>1 DEF NoStrayRow
    <3>3. v # m
      BY <3>2, <2>2, <1>1
    <3>4. /\ v \in variables' /\ id[v] \in Int /\ Size[v] \in Int /\ i \in Int
          /\ \/ id[v] + Size[v] <= id[m]
             \/ id[v] >= id[m] + s /\ id'[v] = id[v] - s
      BY <3>2, <3>3, <1>3, <1>4
    <3>. HIDE DEF s, n
    <3>5. ~(id[v] + Size[v] <= id[m])
      BY <3>2, <3>4, <2>2, <1>1
    <3>. QED BY <3>2, <3>4, <3>5, <1>1
  <2>. QED BY <2>1, <2>2, <1>1, <1>2
<1>. QED BY <1>5, <1>6

\* A variable that enters the state: the conjuncts of the invariant that do
\* not depend on which operation adds it.
LEMMA PushBackInv ==
    ASSUME CovInv, NEW x \in Vars, x \notin variables, PushBack(x),
           built' \in 0..Len(CtorOrder)
    PROVE  CovTypeOK' /\ IdsPointAtOwnRows' /\ NoStrayRow'
<1>1. /\ id' \in [Vars -> Int] /\ cov' \in Seq(Label)
      /\ id'[x] = Len(cov)
      /\ \A w \in Vars \ {x} : id'[w] = id[w]
      /\ IdsPointAtOwnRows' /\ NoStrayRow'
  BY PushBackLayout DEF CovInv
<1>2. Len(cov) \in Nat /\ variables' = variables \cup {x}
  BY DEF CovInv, CovTypeOK, PushBack
<1>3. \A v \in Vars : (v \in variables') = (id'[v] >= 0)
  BY <1>1, <1>2 DEF CovInv, CovTypeOK
<1>4. \A v \in Vars \ variables' : id'[v] = -1
  BY <1>1, <1>2 DEF CovInv, CovTypeOK
<1>5. variables' \subseteq Vars
  BY <1>2 DEF CovInv, CovTypeOK
<1>. QED BY <1>1, <1>3, <1>4, <1>5 DEF CovTypeOK

\* A clone or a landmark enters behind everything that is there.
LEMMA DynamicEnters ==
    ASSUME CovInv, NEW x \in Vars \ Fixed, x \notin variables, Constructed,
           PushBack(x), UNCHANGED built
    PROVE  CovInv'
<1>1. CovTypeOK' /\ IdsPointAtOwnRows' /\ NoStrayRow'
  BY PushBackInv DEF CovInv, CovTypeOK
<1>2. /\ id'[x] = Len(cov) /\ \A w \in Vars \ {x} : id'[w] = id[w]
      /\ variables' = variables \cup {x}
  BY PushBackLayout DEF CovInv, PushBack
<1>3. NotYetBuilt'
  BY <1>2 DEF CovInv, NotYetBuilt, Fixed
<1>4. \A w \in variables : id[w] < Len(cov)
  <2>. SUFFICES ASSUME NEW w \in variables PROVE id[w] < Len(cov)
    OBVIOUS
  <2>1. 0 \in 0..(Size[w] - 1) /\ id[w] \in Int /\ Len(cov) \in Nat
    BY SizesPositive DEF CovInv, CovTypeOK
  <2>2. id[w] + 0 + 1 <= Len(cov)
    BY <2>1 DEF CovInv, IdsPointAtOwnRows
  <2>. QED BY <2>1, <2>2
<1>5. FixedFirst'
  BY <1>2, <1>4 DEF CovInv, FixedFirst, Constructed, CovTypeOK
<1>. QED BY <1>1, <1>3, <1>5 DEF CovInv

\* The empty state has the invariant of the covariance.
LEMMA InitCovInv == CovInit => CovInv
<1>. SUFFICES ASSUME CovInit PROVE CovInv
  OBVIOUS
<1>1. Len(CtorOrder) \in Nat
  BY CovAssumption
<1>2. cov = <<>> /\ cov \in Seq(Label) /\ Len(cov) = 0
  BY DEF CovInit
<1>3. CovTypeOK
  BY <1>1, <1>2 DEF CovInit, CovTypeOK
<1>. QED BY <1>1, <1>2, <1>3
     DEF CovInit, CovInv, IdsPointAtOwnRows, NoStrayRow, NotYetBuilt, FixedFirst

\* Every operation of StateHelper keeps the invariant of the covariance.
LEMMA NextCovInv == CovInv /\ [CovNext]_covVars => CovInv'
<1>. SUFFICES ASSUME CovInv, [CovNext]_covVars PROVE CovInv'
  OBVIOUS
<1>0. Len(CtorOrder) \in Nat /\ \A i \in 1..Len(CtorOrder) : CtorOrder[i] \in Fixed
  BY CovAssumption
<1>1. CASE Construct
  <2>. DEFINE x == CtorOrder[built + 1]
  <2>1. /\ built \in Nat /\ built + 1 \in 1..Len(CtorOrder)
        /\ built' = built + 1 /\ PushBack(x)
    BY <1>0, <1>1 DEF Construct, CovInv, CovTypeOK
  <2>2. x \in Vars /\ x \in Fixed /\ x \notin variables
    BY <2>1, <1>0 DEF CovInv, NotYetBuilt, Vars
  <2>3. CovTypeOK' /\ IdsPointAtOwnRows' /\ NoStrayRow'
    BY <2>1, <2>2, <1>0, PushBackInv
  <2>4. variables' = variables \cup {x}
    BY <2>1 DEF PushBack
  <2>5. NotYetBuilt'
    BY <2>1, <2>4, <1>0, CovAssumption DEF CovInv, NotYetBuilt
  <2>6. ~Constructed
    BY <2>1, <1>0 DEF Constructed
  <2>7. \A w \in variables' : w \in Fixed
    BY <2>2, <2>4, <2>6 DEF CovInv, FixedFirst
  <2>8. FixedFirst'
    BY <2>7 DEF FixedFirst
  <2>. QED BY <2>3, <2>5, <2>8 DEF CovInv
<1>2. ASSUME NEW v \in Clones, Clone(v) PROVE CovInv'
  <2>1. v \in Vars \ Fixed /\ v \notin variables
    BY <1>2, CovAssumption DEF Clone, Vars
  <2>. QED BY <1>2, <2>1, DynamicEnters DEF Clone
<1>3. ASSUME NEW v \in Landmarks, Initialize(v) PROVE CovInv'
  <2>1. v \in Vars \ Fixed /\ v \notin variables
    BY <1>3, CovAssumption DEF Initialize, Vars
  <2>. QED BY <1>3, <2>1, DynamicEnters DEF Initialize
<1>4. ASSUME NEW m \in Clones \cup Landmarks, Marginalize(m) PROVE CovInv'
  <2>0. m \in Vars
    BY DEF Vars
  <2>1. IdsPointAtOwnRows' /\ NoStrayRow'
    BY <1>4, <2>0, MarginalizeLayout DEF CovInv
  <2>2. /\ id[m] \in Nat /\ Size[m] \in Nat \ {0} /\ cov' \in Seq(Label)
    BY <1>4, <2>0, MarginalizeRows DEF CovInv
  <2>3. /\ id' \in [Vars -> Int]
        /\ m \in variables /\ m \notin Fixed /\ variables' = variables \ {m}
        /\ id'[m] = -1
        /\ \A w \in Vars \ variables : id'[w] = id[w]
        /\ \A w \in variables \ {m} :
             \/ id[w] + Size[w] <= id[m] /\ id'[w] = id[w]
             \/ id[w] >= id[m] + Size[m] /\ id'[w] = id[w] - Size[m]
    BY <1>4, <2>0, MarginalizeIds DEF CovInv
  <2>4. built' = built
    BY <1>4 DEF Marginalize
  <2>5. \A w \in variables : id[w] \in Int /\ id[w] >= 0 /\ Size[w] \in Int /\ Size[w] > 0
    BY SizesPositive DEF CovInv, CovTypeOK
  <2>6. \A w \in Vars : (w \in variables') = (id'[w] >= 0)
    BY <2>2, <2>3, <2>5 DEF CovInv, CovTypeOK
  <2>7. \A w \in Vars \ variables' : id'[w] = -1
    BY <2>3 DEF CovInv, CovTypeOK
  <2>8. CovTypeOK'
    BY <2>2, <2>3, <2>4, <2>6, <2>7 DEF CovInv, CovTypeOK
  <2>9. NotYetBuilt'
    BY <2>3, <2>4 DEF CovInv, NotYetBuilt
  <2>10. FixedFirst'
    <3>1. \A w \in variables' : w \in Fixed \/ Constructed'
      BY <2>3, <2>4 DEF CovInv, FixedFirst, Constructed
    <3>2. ASSUME NEW w \in variables' \cap Fixed, NEW v \in variables' \ Fixed
          PROVE  id'[w] < id'[v]
      <4>1. /\ w \in variables \ {m} /\ v \in variables \ {m} /\ id[w] < id[v]
            /\ m \in variables \ Fixed /\ id[w] < id[m]
        BY <2>3 DEF CovInv, FixedFirst
      <4>2. id'[w] = id[w]
        BY <4>1, <2>2, <2>3, <2>5
      <4>3. /\ id[w] \in Int /\ id[v] \in Int /\ id[m] \in Int /\ Size[m] \in Int
            /\ id'[v] = id[v] \/ (id[v] >= id[m] + Size[m] /\ id'[v] = id[v] - Size[m])
        BY <4>1, <2>2, <2>3, <2>5
      <4>. QED BY <4>1, <4>2, <4>3
    <3>. QED BY <3>1, <3>2 DEF FixedFirst
  <2>. QED BY <2>1, <2>8, <2>9, <2>10 DEF CovInv
<1>5. CASE UNCHANGED covVars
  BY <1>5 DEF covVars, CovInv, CovTypeOK, IdsPointAtOwnRows, NoStrayRow, NotYetBuilt,
              FixedFirst, Constructed
<1>. QED BY <1>1, <1>2, <1>3, <1>4, <1>5 DEF CovNext

\* The invariant of the covariance holds in every state.
LEMMA SpecCovInv == CovSpec => []CovInv
<1>1. CovInit => CovInv BY InitCovInv
<1>2. CovInv /\ [CovNext]_covVars => CovInv' BY NextCovInv
<1>. QED BY <1>1, <1>2, PTL DEF CovSpec

\* A variable has an id exactly while it is in the state (StateHelper's
\* set_local_id calls).
THEOREM CovTypes == CovSpec => []CovTypeOK
<1>1. CovInv => CovTypeOK BY DEF CovInv
<1>. QED BY <1>1, SpecCovInv, PTL

\* Every id points at the rows of its own variable, for every history of
\* clones, initialisations and marginalisations.
THEOREM OwnRows == CovSpec => []IdsPointAtOwnRows
<1>1. CovInv => IdsPointAtOwnRows BY DEF CovInv
<1>. QED BY <1>1, SpecCovInv, PTL

\* The covariance holds no row that no variable owns.
THEOREM NoneStray == CovSpec => []NoStrayRow
<1>1. CovInv => NoStrayRow BY DEF CovInv
<1>. QED BY <1>1, SpecCovInv, PTL

\* What the constructor placed is never moved.
THEOREM FixedInPlace == CovSpec => FixedStayInPlace
<1>1. CovInv /\ [CovNext]_covVars => [\A v \in Fixed \cap variables : id'[v] = id[v]]_covVars
  <2>. SUFFICES ASSUME CovInv, CovNext, NEW w \in Fixed \cap variables
                PROVE  id'[w] = id[w]
    BY DEF covVars
  <2>0. w \in Vars
    BY DEF Vars
  <2>1. CASE Construct
    <3>1. built \in Nat /\ built + 1 \in 1..Len(CtorOrder)
      BY <2>1, CovAssumption DEF Construct, CovInv, CovTypeOK
    <3>2. CtorOrder[built + 1] # w
      BY <3>1 DEF CovInv, NotYetBuilt
    <3>. QED BY <2>0, <2>1, <3>2 DEF Construct, PushBack, CovInv, CovTypeOK
  <2>2. ASSUME NEW v \in Clones, Clone(v) PROVE id'[w] = id[w]
    BY <2>0, <2>2 DEF Clone, PushBack, CovInv, CovTypeOK
  <2>3. ASSUME NEW v \in Landmarks, Initialize(v) PROVE id'[w] = id[w]
    BY <2>0, <2>3 DEF Initialize, PushBack, CovInv, CovTypeOK
  <2>4. ASSUME NEW m \in Clones \cup Landmarks, Marginalize(m) PROVE id'[w] = id[w]
    <3>1. m \in Vars /\ m \in variables /\ m \notin Fixed
      BY <2>4 DEF Marginalize, Vars
    <3>2. \/ id[w] + Size[w] <= id[m] /\ id'[w] = id[w]
          \/ id[w] >= id[m] + Size[m] /\ id'[w] = id[w] - Size[m]
      BY <2>4, <3>1, MarginalizeIds DEF CovInv
    <3>3. id[w] < id[m] /\ id[w] \in Int /\ id[m] \in Int /\ Size[m] \in Int /\ Size[m] > 0
      BY <3>1, <2>0, SizesPositive DEF CovInv, FixedFirst, CovTypeOK
    <3>. QED BY <3>2, <3>3
  <2>. QED BY <2>1, <2>2, <2>3, <2>4 DEF CovNext
<1>. QED BY <1>1, SpecCovInv, PTL DEF CovSpec, FixedStayInPlace
==============================================================================
