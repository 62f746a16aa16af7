---------------------------- MODULE OrbFeedProofs ----------------------------
(***************************************************************************)
(* Proofs about OrbFeed: types, that it implements InertialBatches, and    *)
(* that no reading is lost but to the node's limits, for every set of      *)
(* times and every size of the queue and the buffer.                       *)
(*                                                                         *)
(* The refinement rests on three facts about the pair the timer is working *)
(* on: it is newer than the last one handed over, what is selected was not *)
(* sent, and nothing was selected beyond the first reading at or after it. *)
(* That none is lost rests on the history of every reading (ReadingsInv).  *)
(***************************************************************************)
EXTENDS OrbFeed, FiniteSetTheorems, WellFoundedInduction, TLAPS

\* The splitter corrects its stamps once.
OffsetInv == timestamp_ages < AgesNeeded => stamp_offset_sec = 0

FrameInv ==
    /\ last_stereo_t <= last_input_timestamp
    /\ pc = "ready" => ready # None
    /\ pc = "selected" => /\ ready # None /\ last_stereo_t < ready
                          /\ ready = last_input_timestamp

BatchInv == pc = "selected" =>
    /\ \A s \in vImuMeas : last_sent_imu_t < s
    /\ \A s, r \in vImuMeas : ready <= r => s <= r

IInv == TypeOK /\ OffsetInv /\ FrameInv /\ BatchInv

------------------------------------------------------------------------------
\* Frames carry natural times, and the offset keeps them among FrameTimes.
LEMMA FrameTimesNat == FrameTimes \subseteq Nat /\ None \notin FrameTimes
<1>1. \A s \in SourceTimes, j \in Jumps \cup {0} : s + j \in Nat
  BY OrbAssumption DEF OrbAssumption
<1>2. FrameTimes \subseteq Nat
  BY <1>1 DEF FrameTimes, Stamped
<1>3. None \notin Nat
  BY DEF None
<1>4. QED
  BY <1>2, <1>3

\* What the timer selects is part of the buffer, not yet sent, and ends with the
\* first reading at or after the frame (Selected).
LEMMA SelectedFacts ==
  ASSUME NEW S, S \subseteq ImuTimes, NEW f
  PROVE  /\ Selected(S, f) \subseteq S
         /\ \A s \in Selected(S, f) : s > last_sent_imu_t
         /\ \A s, r \in Selected(S, f) : r >= f => s <= r
  BY DEF Selected, Unsent, Newest

\* A batch with a reading at or after the frame has a last reading, the only one
\* not before the frame (Last).
LEMMA ClosingReading ==
  ASSUME IInv, pc = "selected", Spans
  PROVE  /\ Last(vImuMeas) \in vImuMeas
         /\ ready <= Last(vImuMeas)
         /\ \A s \in vImuMeas \ {Last(vImuMeas)} : s < ready
<1>1. PICK r \in vImuMeas : ready <= r
  BY DEF Spans
<1>2. vImuMeas \subseteq Int /\ ready \in Int
  BY OrbAssumption, FrameTimesNat DEF IInv, TypeOK, OrbAssumption, None
<1>3. \A s \in vImuMeas : s <= r
  BY <1>1 DEF IInv, BatchInv
<1>4. Last(vImuMeas) \in vImuMeas /\ \A s \in vImuMeas : s <= Last(vImuMeas)
  BY <1>3 DEF Last
<1>5. \A s \in vImuMeas : ready <= s => Last(vImuMeas) <= s
  BY <1>4 DEF IInv, BatchInv
<1>6. ready <= Last(vImuMeas)
  <2>1. r <= Last(vImuMeas)
    BY <1>1, <1>4
  <2>2. r \in Int /\ Last(vImuMeas) \in Int
    BY <1>1, <1>2, <1>4
  <2>3. QED
    BY <1>1, <1>2, <2>1, <2>2
<1>7. ASSUME NEW s \in vImuMeas, ~(s < ready) PROVE s = Last(vImuMeas)
  <2>1. s \in Int /\ ready \in Int /\ Last(vImuMeas) \in Int
    BY <1>2, <1>4
  <2>2. ready <= s
    BY <1>7, <2>1
  <2>3. s <= Last(vImuMeas) /\ Last(vImuMeas) <= s
    BY <1>4, <1>5, <2>2
  <2>4. QED
    BY <2>1, <2>3
<1>8. QED
  BY <1>4, <1>6, <1>7

------------------------------------------------------------------------------
\* The initial state satisfies the invariant.
LEMMA InitIInv == Init => IInv
<1>1. ASSUME Init PROVE IInv
  <2>1. /\ timestamp_ages \in 0..AgesNeeded /\ restarts \in 0..MaxRestarts
    BY <1>1, OrbAssumption DEF Init, OrbAssumption
  <2>2. pending_stereo \in Seq(FrameTimes)
    BY <1>1 DEF Init
  <2>3. TypeOK
    BY <1>1, <2>1, <2>2 DEF Init, TypeOK
  <2>4. OffsetInv /\ FrameInv /\ BatchInv
    BY <1>1 DEF Init, OffsetInv, FrameInv, BatchInv, None
  <2>5. QED
    BY <2>3, <2>4 DEF IInv
<1>2. QED
  BY <1>1

\* Splitting a frame keeps the splitter's part of the invariant.
LEMMA SplitFacts ==
  ASSUME IInv, NEW s \in SourceTimes, NEW plausible \in BOOLEAN, NEW jump \in Jumps,
         Split(s, plausible, jump)
  PROVE  /\ timestamp_ages' \in 0..AgesNeeded /\ stamp_offset_sec' \in Jumps \cup {0}
         /\ source' \in SourceTimes /\ restarts' \in 0..MaxRestarts
         /\ OffsetInv'
         /\ s + stamp_offset_sec' \in FrameTimes
<1> USE OrbAssumption DEF OrbAssumption
<1>1. /\ timestamp_ages' \in 0..AgesNeeded /\ stamp_offset_sec' \in Jumps \cup {0}
      /\ OffsetInv'
  <2>1. CASE timestamp_ages < AgesNeeded /\ plausible
    <3>1. stamp_offset_sec = 0 /\ timestamp_ages' = timestamp_ages + 1
      BY <2>1 DEF IInv, OffsetInv, Split, Calibrate
    <3>2. stamp_offset_sec' = IF timestamp_ages' = AgesNeeded THEN 0 + jump ELSE 0
      BY <2>1, <3>1 DEF Split, Calibrate
    <3>3. QED
      BY <2>1, <3>1, <3>2 DEF IInv, TypeOK, OffsetInv
  <2>2. CASE ~(timestamp_ages < AgesNeeded /\ plausible)
    BY <2>2 DEF IInv, TypeOK, OffsetInv, Split, Calibrate
  <2>3. QED
    BY <2>1, <2>2
<1>2. source' \in SourceTimes /\ restarts' \in 0..MaxRestarts
  BY DEF IInv, TypeOK, Split, Arrives
<1>3. s + stamp_offset_sec' \in FrameTimes
  <2>1. s + stamp_offset_sec' \in Stamped(s)
    BY <1>1 DEF Stamped
  <2>2. Stamped(s) \in {Stamped(r) : r \in SourceTimes}
    OBVIOUS
  <2>3. QED
    BY <2>1, <2>2, Zenon DEF FrameTimes
<1>4. QED
  BY <1>1, <1>2, <1>3

\* No step of the node breaks the invariant.
LEMMA NextIInv == IInv /\ [Next]_vars => IInv'
<1> SUFFICES ASSUME IInv, [Next]_vars PROVE IInv'
  OBVIOUS
<1> USE DEF IInv
<1>1. ASSUME NEW t \in ImuTimes, ImuCallback(t) PROVE IInv'
  <2>1. imu_buffer' \subseteq ImuTimes /\ received' \subseteq ImuTimes
    BY <1>1 DEF ImuCallback, Newest, TypeOK
  <2>2. TypeOK'
    BY <1>1, <2>1 DEF ImuCallback, TypeOK, splitter, stamps
  <2>3. QED
    BY <1>1, <2>2 DEF ImuCallback, OffsetInv, FrameInv, BatchInv, splitter, stamps
<1>2. ASSUME NEW s \in SourceTimes, NEW plausible \in BOOLEAN, NEW jump \in Jumps,
             StereoCallback(s, plausible, jump)
      PROVE IInv'
  <2>1. Split(s, plausible, jump)
    BY <1>2 DEF StereoCallback
  <2>2. pending_stereo' \in Seq(FrameTimes)
    <3>1. Append(pending_stereo, s + stamp_offset_sec') \in Seq(FrameTimes)
      BY <2>1, SplitFacts DEF TypeOK
    <3>2. QED
      BY <1>2, <3>1 DEF StereoCallback, Bounded
  <2>3. TypeOK'
    BY <1>2, <2>1, <2>2, SplitFacts DEF StereoCallback, TypeOK, stamps
  <2>4. QED
    BY <1>2, <2>1, <2>3, SplitFacts DEF StereoCallback, FrameInv, BatchInv, stamps
<1>3. ASSUME NEW s \in SourceTimes, NEW plausible \in BOOLEAN, NEW jump \in Jumps,
             FrameLost(s, plausible, jump)
      PROVE IInv'
  <2>1. Split(s, plausible, jump)
    BY <1>3 DEF FrameLost
  <2>2. TypeOK'
    BY <1>3, <2>1, SplitFacts DEF FrameLost, TypeOK, stamps
  <2>3. QED
    BY <1>3, <2>1, <2>2, SplitFacts DEF FrameLost, FrameInv, BatchInv, stamps
<1>4. ASSUME TimerTakesPair PROVE IInv'
  <2>1. ready' \in FrameTimes /\ pending_stereo' \in Seq(FrameTimes)
    BY <1>4 DEF TimerTakesPair, TypeOK
  <2>2. TypeOK'
    BY <1>4, <2>1 DEF TimerTakesPair, TypeOK, splitter, stamps
  <2>3. QED
    BY <1>4, <2>1, <2>2, FrameTimesNat
       DEF TimerTakesPair, OffsetInv, FrameInv, BatchInv, splitter, stamps
<1>5. ASSUME TrackReturns PROVE IInv'
  <2>1. TypeOK'
    BY <1>5 DEF TrackReturns, TypeOK, splitter, stamps
  <2>2. QED
    BY <1>5, <2>1 DEF TrackReturns, OffsetInv, FrameInv, BatchInv, splitter, stamps
<1>6. ASSUME Select PROVE IInv'
  <2>1. imu_buffer' \subseteq ImuTimes
    BY <1>6 DEF Select, FirstBatch, Recent, TypeOK
  <2>2. /\ vImuMeas' \subseteq imu_buffer'
        /\ \A s \in vImuMeas' : s > last_sent_imu_t
        /\ \A s, r \in vImuMeas' : r >= ready => s <= r
    BY <1>6, <2>1, SelectedFacts DEF Select
  <2>3. TypeOK'
    BY <1>6, <2>1, <2>2 DEF Select, TypeOK, FrameInv, splitter
  <2>4. FrameInv'
    BY <1>6, FrameTimesNat, OrbAssumption DEF Select, FrameInv, TypeOK, None
  <2>5. BatchInv'
    <3>1. /\ vImuMeas' \subseteq Nat /\ last_sent_imu_t \in Int /\ ready \in Int
      BY <2>1, <2>2, FrameTimesNat, OrbAssumption DEF OrbAssumption, TypeOK, None
    <3>2. last_sent_imu_t' = last_sent_imu_t /\ ready' = ready
      BY <1>6 DEF Select
    <3>3. QED
      BY <2>2, <3>1, <3>2 DEF BatchInv
  <2>6. QED
    BY <1>6, <2>3, <2>4, <2>5 DEF Select, OffsetInv, splitter
<1>7. ASSUME Skip PROVE IInv'
  <2>1. TypeOK'
    BY <1>7 DEF Skip, KeepReadings, TypeOK, splitter, stamps
  <2>2. QED
    BY <1>7, <2>1 DEF Skip, OffsetInv, FrameInv, BatchInv, splitter, stamps
<1>8. ASSUME Commit PROVE IInv'
  <2>1. Last(vImuMeas) \in ImuTimes
    BY <1>8, ClosingReading DEF Commit, TypeOK
  <2>2. TypeOK'
    BY <1>8, <2>1 DEF Commit, SentUpTo, TypeOK, splitter
  <2>3. FrameInv'
    <3>1. ready \in Int /\ ready <= ready
      BY <1>8, FrameTimesNat DEF Commit, FrameInv, TypeOK
    <3>2. QED
      BY <1>8, <3>1 DEF Commit, FrameInv
  <2>4. QED
    BY <1>8, <2>2, <2>3 DEF Commit, OffsetInv, BatchInv, splitter
<1>9. ASSUME Process PROVE IInv'
  <2>1. TypeOK'
    BY <1>9 DEF Process, TypeOK, splitter, stamps
  <2>2. QED
    BY <1>9, <2>1 DEF Process, OffsetInv, FrameInv, BatchInv, splitter, stamps
<1>10. ASSUME ResetService PROVE IInv'
  <2>1. TypeOK'
    BY <1>10 DEF ResetService, ClearedReadings, ClearedStamps, TypeOK, splitter
  <2>2. QED
    BY <1>10, <2>1 DEF ResetService, ClearedStamps, OffsetInv, FrameInv, BatchInv,
                       splitter, None
<1>11. ASSUME ViewerShutdown \/ Interrupt \/ Destroy PROVE IInv'
  <2>1. TypeOK'
    BY <1>11 DEF ViewerShutdown, Interrupt, Destroy, TypeOK, splitter, stamps
  <2>2. QED
    BY <1>11, <2>1 DEF ViewerShutdown, Interrupt, Destroy, OffsetInv, FrameInv,
                       BatchInv, splitter, stamps
<1>12. CASE UNCHANGED vars
  BY <1>12 DEF vars, splitter, stamps, TypeOK, OffsetInv, FrameInv, BatchInv
<1>13. ASSUME NEW s \in SourceTimes, FrameRefused(s) PROVE IInv'
  <2>1. TypeOK'
    BY <1>13 DEF FrameRefused, Arrives, TypeOK, stamps
  <2>2. QED
    BY <1>13, <2>1 DEF FrameRefused, OffsetInv, FrameInv, BatchInv, stamps
<1>14. QED
  BY <1>1, <1>2, <1>3, <1>4, <1>5, <1>6, <1>7, <1>8, <1>9, <1>10, <1>11, <1>12, <1>13
     DEF Next, Timer

------------------------------------------------------------------------------
\* Type correctness of the node and the splitter, for every size of the queue,
\* the buffer and the batches (stereo_imu_node.cpp).
THEOREM TypeCorrect == Spec => []TypeOK
<1>1. IInv => TypeOK
  BY DEF IInv
<1>2. QED
  BY InitIInv, NextIInv, <1>1, PTL DEF Spec

\* Every step of the node is one of InertialBatches or changes nothing there.
LEMMA StepImplements == IInv /\ [Next]_vars => [Batches!Next]_<<last_stereo_t, last_sent_imu_t, handed>>
<1> SUFFICES ASSUME IInv, [Next]_vars,
                    ~UNCHANGED <<last_stereo_t, last_sent_imu_t, handed>>
             PROVE  Batches!Next
  OBVIOUS
<1>1. ASSUME Commit PROVE Batches!HandOver
  <2>1. /\ last_stereo_t' = ready /\ last_sent_imu_t' = Last(vImuMeas)
        /\ handed' = vImuMeas /\ pc = "selected" /\ Spans
    BY <1>1 DEF Commit, SentUpTo
  <2>2. last_stereo_t < ready /\ \A s \in vImuMeas : last_sent_imu_t < s
    BY <2>1 DEF IInv, FrameInv, BatchInv
  <2>3. \E s \in vImuMeas : s < ready - Margin
    BY <2>1 DEF Spans
  <2>4. QED
    BY <2>1, <2>2, <2>3, ClosingReading DEF Batches!HandOver
<1>2. ASSUME ResetService PROVE Batches!Reset
  BY <1>2 DEF ResetService, ClearedStamps, None, Batches!Reset
<1>3. CASE UNCHANGED vars
  BY <1>3 DEF vars, stamps
<1>4. ASSUME Next, ~Commit, ~ResetService PROVE FALSE
  BY <1>4 DEF Next, Timer, ImuCallback, StereoCallback, FrameLost, FrameRefused, TimerTakesPair,
              TrackReturns, Select, Skip, Process, ViewerShutdown, Interrupt,
              Destroy, stamps
<1>5. QED
  BY <1>1, <1>2, <1>3, <1>4 DEF Batches!Next

\* The node keeps the promise of InertialBatches: frames in order, each reading
\* at most once, every batch spans its frame, over skips, overflows and resets
\* (track_stereo, stereo_imu_node.cpp:316).
THEOREM Implements == Spec => ImplementsBatches
<1>1. Init => Batches!Init
  BY DEF Init, Batches!Init, None
<1>2. QED
  BY InitIInv, NextIInv, StepImplements, <1>1, PTL
     DEF Spec, ImplementsBatches, Batches!Spec, Batches!batchVars
------------------------------------------------------------------------------
(***************************************************************************)
(* What becomes of a reading.  The buffer is the newest part of what was   *)
(* received (Newer); a reading that has left it was sent, was older than   *)
(* Keep before a frame, fell to the limit of the buffer, or to the trim    *)
(* before a first frame (Lost); and what the timer has selected lacks no   *)
(* reading but for these reasons, though readings arrive meanwhile         *)
(* (Complete, Enough).                                                     *)
(***************************************************************************)
Overflown(s) == Cardinality({r \in received : s <= r}) > MaxBuffer

TrimmedFirst(s) == last_stereo_t = None /\ Last(received) - s > FirstSpan

Lost(s) ==
    \/ s <= last_sent_imu_t
    \/ s < last_input_timestamp - Keep
    \/ Overflown(s)
    \/ TrimmedFirst(s) /\ (pc = "selected" => \A r \in vImuMeas : s < r)

Newer ==
    /\ imu_buffer \subseteq received
    /\ \A s \in received, r \in imu_buffer : r <= s => s \in imu_buffer
    /\ received # {} => \E m \in imu_buffer : \A s \in received : s <= m

Complete ==
    /\ vImuMeas \subseteq received
    /\ last_stereo_t # None =>
         \A s \in received :
            last_sent_imu_t < s /\ s \notin vImuMeas /\ (\E r \in vImuMeas : s < r)
               => Excused(s, ready)

Enough ==
    \A s \in received :
       last_sent_imu_t < s /\ s < ready - Margin
          => Spans \/ Excused(s, ready) \/ TrimmedFirst(s)

ReadingsInv ==
    /\ Newer
    /\ \A s \in received \ imu_buffer : Lost(s)
    /\ pc \in {"ready", "selected"} => \E r \in received : ready <= r
    /\ pc = "selected" => Complete /\ Enough
------------------------------------------------------------------------------
\* Every set of times has a least one.
LEMMA LeastTime ==
  ASSUME NEW T, T \subseteq Nat, T # {}
  PROVE  \E m \in T : \A t \in T : m <= t
<1> DEFINE R == OpToRel(<, Nat)
<1>1. PICK m \in T : \A t \in T : ~ (<<t, m>> \in R)
  <2>1. IsWellFoundedOn(R, Nat)
    BY NatLessThanWellFounded
  <2> HIDE DEF R
  <2>2. QED
    BY <2>1, WFMin
<1>2. ASSUME NEW t \in T PROVE m <= t
  <2>1. <<t, m>> \in Nat \X Nat
    OBVIOUS
  <2>2. ~(t < m)
    BY <1>1, <2>1 DEF OpToRel
  <2>3. QED
    BY <2>2
<1>3. QED
  BY <1>2

\* The last of some times, if they have one.
LEMMA LastIs ==
  ASSUME NEW S, S \subseteq Nat, NEW m \in S, \A s \in S : s <= m
  PROVE  Last(S) = m
<1>1. Last(S) \in S /\ \A s \in S : s <= Last(S)
  BY DEF Last
<1>2. Last(S) <= m /\ m <= Last(S) /\ Last(S) \in Nat /\ m \in Nat
  BY <1>1
<1>3. QED
  BY <1>2

\* A part of a finite set has no more elements.
LEMMA Fewer ==
  ASSUME NEW S, IsFiniteSet(S), NEW T, T \subseteq S
  PROVE  /\ Cardinality(T) \in Nat /\ Cardinality(S) \in Nat
         /\ Cardinality(T) <= Cardinality(S) /\ IsFiniteSet(T)
  BY FS_Subset, FS_CardinalityType

\* Two readings are at least two.
LEMMA TwoReadings ==
  ASSUME NEW S, IsFiniteSet(S), NEW a \in S, NEW b \in S, a # b
  PROVE  Cardinality(S) >= 2
<1>1. /\ IsFiniteSet(S \ {a}) /\ Cardinality(S \ {a}) = Cardinality(S) - 1
  BY FS_RemoveElement
<1>2. {b} \subseteq S \ {a}
  OBVIOUS
<1>3. Cardinality({b}) = 1
  BY FS_Singleton
<1>4. Cardinality({b}) <= Cardinality(S \ {a}) /\ Cardinality(S) \in Nat
  BY <1>1, <1>2, Fewer, FS_CardinalityType
<1>5. QED
  BY <1>1, <1>3, <1>4

\* The newest readings are those behind some of them.
LEMMA NewestIsSuffix ==
  ASSUME NEW S, S \subseteq Nat, IsFiniteSet(S), NEW n \in Nat,
         NEW s \in Newest(S, n), NEW u \in S, s <= u
  PROVE  u \in Newest(S, n)
<1> DEFINE C(x) == {r \in S : x <= r}
<1>1. s \in S /\ Cardinality(C(s)) <= n
  BY DEF Newest
<1>2. C(u) \subseteq C(s) /\ C(s) \subseteq S
  <2>1. ASSUME NEW r \in C(u) PROVE r \in C(s)
    <3>1. r \in Nat /\ u \in Nat /\ s \in Nat /\ u <= r
      BY <1>1
    <3>2. s <= r
      BY <3>1
    <3>3. QED
      BY <3>2
  <2>2. QED
    BY <2>1
<1>3. /\ Cardinality(C(u)) \in Nat /\ Cardinality(C(s)) \in Nat
      /\ Cardinality(C(u)) <= Cardinality(C(s))
  BY <1>2, Fewer
<1>4. Cardinality(C(u)) <= n
  BY <1>1, <1>3
<1>5. QED
  BY <1>4 DEF Newest

\* The times of the node are natural numbers, and finitely many.
LEMMA Times ==
  ASSUME IInv
  PROVE  /\ received \subseteq Nat /\ imu_buffer \subseteq Nat /\ vImuMeas \subseteq Nat
         /\ IsFiniteSet(received) /\ IsFiniteSet(imu_buffer) /\ IsFiniteSet(vImuMeas)
         /\ last_sent_imu_t \in Int /\ last_input_timestamp \in Int /\ ready \in Int
         /\ Keep \in Nat /\ FirstSpan \in Nat /\ FirstCount \in Nat /\ Margin \in Nat
         /\ MaxBuffer \in Nat \ {0} /\ MaxBatch \in Nat
<1>1. /\ received \subseteq ImuTimes /\ imu_buffer \subseteq ImuTimes
      /\ vImuMeas \subseteq ImuTimes /\ ImuTimes \subseteq Nat /\ IsFiniteSet(ImuTimes)
  BY OrbAssumption DEF IInv, TypeOK
<1>2. IsFiniteSet(received) /\ IsFiniteSet(imu_buffer) /\ IsFiniteSet(vImuMeas)
  BY <1>1, Fewer
<1>3. last_sent_imu_t \in Int /\ last_input_timestamp \in Int /\ ready \in Int
  BY <1>1, FrameTimesNat DEF IInv, TypeOK, None
<1>4. QED
  BY <1>1, <1>2, <1>3, OrbAssumption

\* A batch that is cut had more readings before the frame than fit.
LEMMA Crowded ==
  ASSUME IInv, NEW S, S \subseteq received, NEW f \in Int,
         NEW U, U = {s \in Unsent(S) : \A r \in Unsent(S) : r >= f => s <= r},
         Cardinality(U) > MaxBatch
  PROVE  Cardinality({r \in Unsent(received) : r < f}) >= MaxBatch
<1> DEFINE before == {r \in Unsent(received) : r < f}
<1>1. /\ received \subseteq Nat /\ IsFiniteSet(received) /\ MaxBatch \in Nat
      /\ before \subseteq received /\ U \subseteq received
  BY Times DEF Unsent
<1>2. /\ IsFiniteSet(U) /\ Cardinality(U) \in Nat /\ IsFiniteSet(before)
      /\ Cardinality(before) \in Nat
  BY <1>1, Fewer
<1>3. CASE U \subseteq before
  <2>1. Cardinality(U) <= Cardinality(before)
    BY <1>2, <1>3, Fewer
  <2>2. QED
    BY <1>1, <1>2, <2>1
<1>4. CASE ~(U \subseteq before)
  <2>1. PICK x \in U : x \notin before
    BY <1>4
  <2>2. x \in Nat /\ x >= f /\ x \in Unsent(S)
    BY <1>1, <2>1 DEF Unsent
  <2>3. U \ {x} \subseteq before
    <3>1. ASSUME NEW y \in U, y # x PROVE y \in before
      <4>1. y \in Nat /\ y \in Unsent(S) /\ y \in Unsent(received)
        BY <1>1 DEF Unsent
      <4>2. y <= x
        BY <2>2
      <4>3. y >= f => x <= y
        BY <4>1, <2>1
      <4>4. y < f
        BY <2>2, <3>1, <4>1, <4>2, <4>3
      <4>5. QED
        BY <4>1, <4>4
    <3>2. QED
      BY <3>1
  <2>4. Cardinality(U \ {x}) = Cardinality(U) - 1
    BY <1>2, <2>1, FS_RemoveElement
  <2>5. Cardinality(U \ {x}) <= Cardinality(before)
    BY <1>2, <2>3, Fewer
  <2>6. QED
    BY <1>1, <1>2, <2>4, <2>5
<1>5. QED
  BY <1>3, <1>4
------------------------------------------------------------------------------
\* What the two trims leave is the newest part of the buffer; a reading goes for
\* being older than Keep before the frame, or FirstSpan behind a newer one.
LEMMA TrimFacts ==
  ASSUME IInv, NEW m \in imu_buffer, \A s \in imu_buffer : s <= m, NEW f \in Int
  PROVE  /\ FirstBatch(f) \subseteq imu_buffer /\ m \in FirstBatch(f)
         /\ \A s \in FirstBatch(f), u \in imu_buffer : s <= u => u \in FirstBatch(f)
         /\ \A s \in imu_buffer \ FirstBatch(f) :
               s < f - Keep \/ (last_stereo_t = None /\ m - s > FirstSpan)
<1> DEFINE kept == Recent(f)
           B == FirstBatch(f)
           C(x) == {r \in kept : x <= r}
<1>1. /\ imu_buffer \subseteq Nat /\ IsFiniteSet(imu_buffer) /\ Keep \in Nat
      /\ FirstSpan \in Nat /\ FirstCount \in Nat
  BY Times
<1>2. kept \subseteq imu_buffer /\ m \in kept
  BY DEF Recent
<1>3. ASSUME NEW s \in kept, NEW u \in imu_buffer, s <= u PROVE u \in kept
  <2>1. s \in Nat /\ u \in Nat
    BY <1>1, <1>2
  <2>2. CASE s >= f - Keep
    <3>1. u >= f - Keep
      BY <1>1, <1>3, <2>1, <2>2
    <3>2. QED
      BY <3>1 DEF Recent
  <2>3. CASE \A r \in imu_buffer : r <= s
    <3>1. u = s
      BY <1>3, <2>1, <2>3
    <3>2. QED
      BY <3>1
  <2>4. QED
    BY <2>2, <2>3 DEF Recent
<1>4. ASSUME NEW s \in imu_buffer, s \notin kept PROVE s < f - Keep
  <2>1. ~(s >= f - Keep) /\ s \in Nat
    BY <1>1, <1>4 DEF Recent
  <2>2. QED
    BY <1>1, <2>1
<1>5. CASE last_stereo_t # None
  <2>1. B = kept
    BY <1>5 DEF FirstBatch
  <2>2. QED
    BY <1>2, <1>3, <1>4, <2>1
<1>6. CASE last_stereo_t = None
  <2>1. B = {s \in kept : \/ Cardinality(C(s)) <= FirstCount
                          \/ s > f \/ \A r \in kept : r - s <= FirstSpan}
    BY <1>6 DEF FirstBatch
  <2> HIDE DEF B, kept
  <2>2. B \subseteq kept
    BY <2>1
  <2>3. m \in B
    <3>1. ASSUME NEW r \in kept PROVE r - m <= FirstSpan
      <4>1. r \in Nat /\ m \in Nat /\ r <= m
        BY <1>1, <1>2
      <4>2. QED
        BY <1>1, <4>1
    <3>2. QED
      BY <1>2, <2>1, <3>1
  <2>4. ASSUME NEW s \in B, NEW u \in imu_buffer, s <= u PROVE u \in B
    <3>1. u \in kept /\ s \in Nat /\ u \in Nat /\ s \in kept
      BY <1>1, <1>2, <1>3, <2>2, <2>4
    <3>2. CASE Cardinality(C(s)) <= FirstCount
      <4>1. C(u) \subseteq C(s)
        <5>1. ASSUME NEW r \in C(u) PROVE s <= r
          <6>1. r \in Nat /\ u <= r
            BY <1>1, <1>2
          <6>2. QED
            BY <2>4, <3>1, <6>1
        <5>2. QED
          BY <5>1
      <4>2. C(s) \subseteq imu_buffer
        BY <1>2
      <4>3. Cardinality(C(u)) <= Cardinality(C(s)) /\ Cardinality(C(u)) \in Nat
            /\ Cardinality(C(s)) \in Nat
        BY <1>1, <4>1, <4>2, Fewer
      <4>4. Cardinality(C(u)) <= FirstCount
        BY <1>1, <3>2, <4>3
      <4>5. QED
        BY <2>1, <3>1, <4>4
    <3>3. CASE s > f
      <4>1. u > f
        BY <2>4, <3>1, <3>3
      <4>2. QED
        BY <2>1, <3>1, <4>1
    <3>4. CASE \A r \in kept : r - s <= FirstSpan
      <4>1. ASSUME NEW r \in kept PROVE r - u <= FirstSpan
        <5>1. r \in Nat /\ r - s <= FirstSpan
          BY <1>1, <1>2, <3>4
        <5>2. QED
          BY <1>1, <2>4, <3>1, <5>1
      <4>2. QED
        BY <2>1, <3>1, <4>1
    <3>5. QED
      BY <2>1, <3>2, <3>3, <3>4
  <2>5. ASSUME NEW s \in imu_buffer, s \notin B PROVE s < f - Keep \/ m - s > FirstSpan
    <3>1. CASE s \notin kept
      BY <1>4, <3>1
    <3>2. CASE s \in kept
      <4>1. PICK r \in kept : ~(r - s <= FirstSpan)
        BY <2>1, <2>5, <3>2
      <4>2. r \in Nat /\ s \in Nat /\ m \in Nat /\ r <= m
        BY <1>1, <1>2
      <4>3. QED
        BY <1>1, <4>1, <4>2
    <3>3. QED
      BY <3>1, <3>2
  <2>6. QED
    BY <1>2, <1>6, <2>2, <2>3, <2>4, <2>5 DEF B
<1>7. QED
  BY <1>5, <1>6

\* The timer's selection: trims take only what may go, and the batch lacks a
\* reading of the buffer only if it is cut.
LEMMA SelectReadings ==
  ASSUME IInv, IInv', ReadingsInv, Select
  PROVE  ReadingsInv'
<1> DEFINE B == FirstBatch(ready)
           V == Selected(B, ready)
           U == {s \in Unsent(B) : \A r \in Unsent(B) : r >= ready => s <= r}
<1>1. /\ pc = "ready" /\ pc' = "selected" /\ ready > last_input_timestamp
      /\ last_input_timestamp' = ready /\ imu_buffer' = B /\ vImuMeas' = V
      /\ ready' = ready /\ received' = received /\ last_stereo_t' = last_stereo_t
      /\ last_sent_imu_t' = last_sent_imu_t
  <2>1. imu_buffer' = B /\ vImuMeas' = Selected(imu_buffer', ready)
    BY DEF Select
  <2>2. QED
    BY <2>1 DEF Select
<1>2. /\ received \subseteq Nat /\ imu_buffer \subseteq Nat /\ IsFiniteSet(received)
      /\ last_sent_imu_t \in Int /\ last_input_timestamp \in Int /\ ready \in Int
      /\ Keep \in Nat /\ FirstSpan \in Nat /\ Margin \in Nat /\ MaxBatch \in Nat
  BY Times
<1>3. /\ imu_buffer \subseteq received
      /\ \A s \in received, r \in imu_buffer : r <= s => s \in imu_buffer
      /\ \A s \in received \ imu_buffer : Lost(s)
  BY DEF ReadingsInv, Newer
<1>4. PICK c \in received : ready <= c
  BY <1>1 DEF ReadingsInv
<1>5. PICK m \in imu_buffer : \A s \in received : s <= m
  BY <1>4 DEF ReadingsInv, Newer
<1>6. /\ B \subseteq imu_buffer /\ m \in B
      /\ \A s \in B, u \in imu_buffer : s <= u => u \in B
      /\ \A s \in imu_buffer \ B :
            s < ready - Keep \/ (last_stereo_t = None /\ m - s > FirstSpan)
  BY <1>2, <1>3, <1>5, TrimFacts
<1>7. Last(received) = m /\ m >= ready /\ m \in Nat
  <2>1. m \in received /\ m \in Nat /\ c \in Nat /\ c <= m
    BY <1>2, <1>3, <1>4, <1>5
  <2>2. Last(received) = m
    BY <1>2, <1>5, <2>1, LastIs
  <2>3. QED
    BY <1>2, <1>4, <2>1, <2>2
<1>8. /\ U \subseteq B /\ V \subseteq U
      /\ Cardinality(U) > MaxBatch \/ V = U
  <2>1. V = IF Cardinality(U) > MaxBatch THEN Newest(U, CutBatch) ELSE U
    BY DEF Selected
  <2>2. U \subseteq B
    BY DEF Unsent
  <2>3. Newest(U, CutBatch) \subseteq U
    BY DEF Newest
  <2> HIDE DEF U, V
  <2>4. QED
    BY <2>1, <2>2, <2>3
<1>9. ASSUME Cardinality(U) > MaxBatch, NEW s PROVE Excused(s, ready)
  BY <1>2, <1>3, <1>6, <1>9, Crowded DEF Excused
<1> HIDE DEF B, V
<1>10. ASSUME NEW s \in received, NEW r \in B, r <= s PROVE s \in B
  BY <1>3, <1>6, <1>10
<1>11. Newer'
  <2>1. /\ B \subseteq received /\ \A s \in received : s <= m
    BY <1>3, <1>5, <1>6
  <2>2. QED
    BY <1>1, <1>6, <1>10, <2>1 DEF Newer
<1>12. ASSUME NEW s \in received, s \notin B
       PROVE  /\ \A r \in V : s < r
              /\ s <= last_sent_imu_t \/ Excused(s, ready) \/ TrimmedFirst(s)
              /\ s <= last_sent_imu_t \/ s < ready - Keep \/ Overflown(s) \/ TrimmedFirst(s)
  <2>1. \A r \in V : s < r
    <3>1. ASSUME NEW r \in V PROVE s < r
      <4>1. r \in B /\ r \in Nat /\ s \in Nat
        BY <1>2, <1>3, <1>6, <1>8
      <4>2. ~(r <= s)
        BY <1>10, <1>12, <4>1
      <4>3. QED
        BY <4>1, <4>2
    <3>2. QED
      BY <3>1
  <2>2. s <= last_sent_imu_t \/ s < ready - Keep \/ Overflown(s) \/ TrimmedFirst(s)
    <3>1. CASE s \in imu_buffer
      BY <1>6, <1>7, <1>12, <3>1 DEF TrimmedFirst
    <3>2. CASE s \notin imu_buffer
      <4>1. Lost(s) /\ s \in Nat
        BY <1>2, <1>3, <3>2
      <4>2. s < last_input_timestamp - Keep => s < ready - Keep
        BY <1>1, <1>2, <4>1
      <4>3. QED
        BY <4>1, <4>2 DEF Lost
    <3>3. QED
      BY <3>1, <3>2
  <2>3. QED
    BY <2>1, <2>2 DEF Excused, Overflown
<1>13. ASSUME NEW s \in received' \ imu_buffer' PROVE Lost(s)'
  <2>1. s \in received /\ s \notin B
    BY <1>1
  <2>2. /\ \A r \in vImuMeas' : s < r
        /\ s <= last_sent_imu_t' \/ s < last_input_timestamp' - Keep
           \/ Overflown(s)' \/ TrimmedFirst(s)'
    BY <1>1, <1>12, <2>1 DEF Overflown, TrimmedFirst
  <2>3. QED
    BY <2>2 DEF Lost
<1>14. V \subseteq received
  BY <1>3, <1>6, <1>8
<1>15. ASSUME last_stereo_t # None, NEW s \in received, last_sent_imu_t < s, s \notin V,
              NEW r \in V, s < r
       PROVE  Excused(s, ready)
  <2>1. s \in Nat /\ r \in Nat /\ ~(s <= last_sent_imu_t)
    BY <1>2, <1>14, <1>15
  <2>2. CASE s \notin B
    BY <1>12, <1>15, <2>1, <2>2 DEF TrimmedFirst
  <2>3. CASE s \in B
    <3>1. s \in Unsent(B)
      BY <1>15, <2>1, <2>3 DEF Unsent
    <3>2. ASSUME NEW y \in Unsent(B), y >= ready PROVE s <= y
      <4>1. r <= y /\ y \in Nat
        BY <1>2, <1>3, <1>6, <1>8, <3>2 DEF Unsent
      <4>2. QED
        BY <1>15, <2>1, <4>1
    <3>3. s \in U
      BY <3>1, <3>2
    <3>4. QED
      BY <1>8, <1>9, <1>15, <3>3
  <2>4. QED
    BY <2>2, <2>3
<1>16. ASSUME NEW s \in received, last_sent_imu_t < s, s < ready - Margin
       PROVE  Spans' \/ Excused(s, ready) \/ TrimmedFirst(s)
  <2>1. s \in Nat /\ ~(s <= last_sent_imu_t)
    BY <1>2, <1>16
  <2>2. CASE s \notin B
    BY <1>12, <2>1, <2>2
  <2>3. CASE s \in B /\ V = U
    <3> DEFINE T == {y \in Unsent(B) : y >= ready}
    <3>1. m \in T
      <4>1. m > last_sent_imu_t
        BY <1>2, <1>5, <1>7, <1>16, <2>1
      <4>2. QED
        BY <1>6, <1>7, <4>1 DEF Unsent
    <3>2. T \subseteq Nat
      BY <1>2, <1>3, <1>6 DEF Unsent
    <3>3. PICK e \in T : \A y \in T : e <= y
      BY <3>1, <3>2, LeastTime
    <3>4. e \in U /\ e >= ready /\ e \in Nat
      BY <3>2, <3>3
    <3>5. s \in U /\ s < e
      <4>1. s < ready
        BY <1>2, <1>16, <2>1
      <4>2. ASSUME NEW y \in Unsent(B), y >= ready PROVE s <= y
        <5>1. y \in Nat
          BY <1>2, <1>3, <1>6 DEF Unsent
        <5>2. QED
          BY <1>2, <2>1, <4>1, <4>2, <5>1
      <4>3. s \in Unsent(B)
        BY <1>16, <2>1, <2>3 DEF Unsent
      <4>4. QED
        BY <1>2, <2>1, <3>4, <4>1, <4>2, <4>3
    <3>6. IsFiniteSet(U)
      BY <1>2, <1>3, <1>6, <1>8, Fewer
    <3>7. Cardinality(U) >= 2
      <4> HIDE DEF U
      <4>1. s # e
        BY <2>1, <3>4, <3>5
      <4>2. QED
        BY <3>4, <3>5, <3>6, <4>1, TwoReadings
    <3>8. ready <= e
      BY <1>2, <3>4
    <3> HIDE DEF U
    <3>9. vImuMeas' = U /\ ready' = ready
      BY <1>1, <2>3
    <3>10. QED
      BY <1>16, <3>4, <3>5, <3>7, <3>8, <3>9 DEF Spans
  <2>4. QED
    BY <1>8, <1>9, <2>2, <2>3
<1>17. Complete' /\ Enough'
  <2>1. ASSUME NEW s PROVE Excused(s, ready)' <=> Excused(s, ready)
    BY <1>1 DEF Excused, Unsent
  <2>2. ASSUME NEW s PROVE TrimmedFirst(s)' <=> TrimmedFirst(s)
    BY <1>1 DEF TrimmedFirst
  <2>3. Complete'
    BY <1>1, <1>14, <1>15, <2>1 DEF Complete
  <2>4. Enough'
    BY <1>1, <1>16, <2>1, <2>2 DEF Enough
  <2>5. QED
    BY <2>3, <2>4
<1>18. QED
  BY <1>1, <1>4, <1>11, <1>13, <1>17 DEF ReadingsInv
\* A reading arrives: the buffer may overflow at its old end, and what the timer
\* has selected meanwhile is not affected.
LEMMA ArrivalReadings ==
  ASSUME IInv, IInv', ReadingsInv, NEW t \in ImuTimes, ImuCallback(t)
  PROVE  ReadingsInv'
<1> DEFINE B == imu_buffer \cup {t}
<1>1. /\ imu_buffer' = Newest(B, MaxBuffer) /\ received' = received \cup {t}
      /\ \A r \in imu_buffer : t > r
      /\ UNCHANGED <<pc, stamps, ready, vImuMeas>>
  BY DEF ImuCallback, AcceptsReading
<1>2. /\ received \subseteq Nat /\ imu_buffer \subseteq Nat /\ vImuMeas \subseteq Nat
      /\ IsFiniteSet(received) /\ IsFiniteSet(imu_buffer) /\ IsFiniteSet(received')
      /\ received' \subseteq Nat /\ t \in Nat
      /\ last_sent_imu_t \in Int /\ last_input_timestamp \in Int /\ ready \in Int
      /\ Keep \in Nat /\ FirstSpan \in Nat /\ Margin \in Nat /\ MaxBatch \in Nat
      /\ MaxBuffer \in Nat \ {0}
  <2>1. IsFiniteSet(received') /\ received' \subseteq Nat
    BY OrbAssumption, Fewer DEF IInv, TypeOK
  <2>2. t \in Nat
    BY OrbAssumption
  <2>3. QED
    BY <2>1, <2>2, Times
<1>3. Newer
  BY DEF ReadingsInv
<1>4. ASSUME NEW s \in received PROVE s < t
  <2>1. PICK m \in imu_buffer : \A r \in received : r <= m
    BY <1>3 DEF Newer
  <2>2. s <= m /\ m < t /\ s \in Nat /\ m \in Nat
    BY <1>1, <1>2, <2>1
  <2>3. QED
    BY <1>2, <2>2
<1>5. B \subseteq Nat /\ IsFiniteSet(B) /\ B \subseteq received'
  <2>1. B \subseteq received'
    BY <1>1, <1>3 DEF Newer
  <2>2. QED
    BY <1>2, <2>1, Fewer
<1>6. t \in imu_buffer'
  <2>1. {r \in B : t <= r} = {t}
    <3>1. ASSUME NEW r \in imu_buffer PROVE ~(t <= r)
      <4>1. r \in Nat /\ t \in Nat /\ t > r
        BY <1>1, <1>2
      <4>2. QED
        BY <4>1
    <3>2. t <= t
      BY <1>2
    <3>3. QED
      BY <3>1, <3>2
  <2>2. Cardinality({t}) = 1
    BY FS_Singleton
  <2>3. Cardinality({r \in B : t <= r}) <= MaxBuffer
    BY <1>2, <2>1, <2>2
  <2>4. QED
    BY <1>1, <2>3 DEF Newest
<1>7. imu_buffer' \subseteq B
  BY <1>1 DEF Newest
<1>8. ASSUME NEW s \in received', NEW r \in imu_buffer', r <= s PROVE s \in imu_buffer'
  <2>1. s \in B
    <3>1. CASE s = t
      BY <3>1
    <3>2. CASE s # t
      <4>1. s \in received /\ s < t /\ r \in Nat /\ s \in Nat
        BY <1>1, <1>2, <1>4, <1>5, <1>7, <3>2
      <4>2. r # t
        BY <1>2, <1>8, <4>1
      <4>3. r \in imu_buffer
        BY <1>7, <4>2
      <4>4. QED
        BY <1>3, <1>8, <4>1, <4>3 DEF Newer
    <3>3. QED
      BY <3>1, <3>2
  <2>2. QED
    BY <1>1, <1>2, <1>5, <1>8, <2>1, NewestIsSuffix
<1>9. Newer'
  <2>1. \A s \in received' : s <= t
    BY <1>1, <1>2, <1>4
  <2>2. imu_buffer' \subseteq received'
    BY <1>5, <1>7
  <2>3. QED
    BY <1>6, <1>8, <2>1, <2>2 DEF Newer
<1>10. ASSUME NEW s \in received
       PROVE  /\ Overflown(s) => Overflown(s)'
              /\ TrimmedFirst(s) => TrimmedFirst(s)'
  <2>1. Overflown(s) => Overflown(s)'
    <3> DEFINE C == {r \in received : s <= r}
               D == {r \in received' : s <= r}
    <3>1. C \subseteq D /\ D \subseteq received'
      BY <1>1
    <3>2. /\ Cardinality(C) <= Cardinality(D) /\ Cardinality(C) \in Nat
          /\ Cardinality(D) \in Nat
      BY <1>2, <3>1, Fewer
    <3> HIDE DEF C, D
    <3>3. Cardinality(C) > MaxBuffer => Cardinality(D) > MaxBuffer
      BY <1>2, <3>2
    <3>4. QED
      BY <3>3 DEF Overflown, C, D
  <2>2. TrimmedFirst(s) => TrimmedFirst(s)'
    <3>1. PICK m \in imu_buffer : \A r \in received : r <= m
      BY <1>3 DEF Newer
    <3>2. m \in received /\ m \in Nat /\ m < t /\ s \in Nat
      BY <1>2, <1>3, <1>4, <3>1 DEF Newer
    <3>3. Last(received) = m
      BY <1>2, <3>1, <3>2, LastIs
    <3>4. Last(received') = t
      <4>1. t \in received' /\ \A r \in received' : r <= t
        BY <1>1, <1>2, <1>4
      <4>2. QED
        BY <1>2, <4>1, LastIs
    <3>5. m - s > FirstSpan => t - s > FirstSpan
      BY <1>2, <3>2
    <3>6. last_stereo_t' = last_stereo_t
      BY <1>1 DEF stamps
    <3>7. QED
      BY <3>3, <3>4, <3>5, <3>6 DEF TrimmedFirst
  <2>3. QED
    BY <2>1, <2>2
<1>11. ASSUME NEW s \in received, NEW f \in Int, f = ready, Excused(s, f)
       PROVE  Excused(s, f)'
  <2>1. s < f - Keep => Excused(s, f)'
    BY DEF Excused
  <2>2. Overflown(s) => Excused(s, f)'
    BY <1>10 DEF Excused, Overflown
  <2>3. Cardinality({r \in Unsent(received) : r < f}) >= MaxBatch => Excused(s, f)'
    <3> DEFINE C == {r \in Unsent(received) : r < f}
               D == {r \in Unsent(received)' : r < f}
    <3>1. C \subseteq D /\ D \subseteq received'
      BY <1>1 DEF Unsent, stamps
    <3>2. /\ Cardinality(C) <= Cardinality(D) /\ Cardinality(C) \in Nat
          /\ Cardinality(D) \in Nat
      BY <1>2, <3>1, Fewer
    <3> HIDE DEF C, D
    <3>3. Cardinality(C) >= MaxBatch => Cardinality(D) >= MaxBatch
      BY <1>2, <3>2
    <3>4. QED
      BY <3>3 DEF Excused, C, D
  <2>4. QED
    BY <1>11, <2>1, <2>2, <2>3 DEF Excused, Overflown
<1>12. ASSUME NEW s \in received' \ imu_buffer' PROVE Lost(s)'
  <2>1. s \in received /\ s # t
    BY <1>1, <1>6
  <2>2. CASE s \notin imu_buffer
    <3>1. Lost(s)
      BY <2>1, <2>2 DEF ReadingsInv
    <3>2. QED
      BY <1>1, <1>10, <2>1, <3>1 DEF Lost, stamps
  <2>3. CASE s \in imu_buffer
    <3> DEFINE C == {r \in B : s <= r}
               D == {r \in received' : s <= r}
    <3>1. ~(Cardinality(C) <= MaxBuffer)
      BY <1>1, <1>12, <2>3 DEF Newest
    <3>2. C \subseteq D /\ D \subseteq received'
      BY <1>5
    <3>3. /\ Cardinality(C) <= Cardinality(D) /\ Cardinality(C) \in Nat
          /\ Cardinality(D) \in Nat
      BY <1>2, <3>2, Fewer
    <3> HIDE DEF C, D
    <3>4. Cardinality(D) > MaxBuffer
      BY <1>2, <3>1, <3>3
    <3>5. QED
      BY <3>4 DEF Lost, Overflown, D
  <2>4. QED
    BY <2>2, <2>3
<1>13. pc' \in {"ready", "selected"} => \E r \in received' : ready' <= r
  BY <1>1 DEF ReadingsInv
<1>14. ASSUME pc' = "selected" PROVE Complete' /\ Enough'
  <2>1. pc = "selected" /\ Complete /\ Enough /\ \E r \in received : ready <= r
    BY <1>1, <1>14 DEF ReadingsInv
  <2>2. PICK f \in Int : f = ready
    BY <1>2
  <2>3. f = ready'
    BY <1>1, <2>2
  <2>4. /\ last_sent_imu_t' = last_sent_imu_t /\ vImuMeas' = vImuMeas
        /\ last_stereo_t' = last_stereo_t
    BY <1>1 DEF stamps
  <2>5. ASSUME NEW s \in received, Excused(s, ready) PROVE Excused(s, ready)'
    <3>1. Excused(s, f)'
      BY <1>11, <2>2, <2>5
    <3>2. QED
      BY <2>3, <3>1 DEF Excused
  <2>6. Complete'
    <3>1. vImuMeas' \subseteq received'
      BY <1>1, <2>1 DEF Complete
    <3>2. ASSUME last_stereo_t' # None, NEW s \in received', last_sent_imu_t' < s,
                 s \notin vImuMeas', NEW r \in vImuMeas', s < r
          PROVE  Excused(s, ready)'
      <4>1. r \in received /\ r \in Nat /\ r < t /\ s \in Nat
        BY <1>2, <1>4, <2>1, <2>4, <3>2 DEF Complete
      <4>2. s # t
        BY <1>2, <3>2, <4>1
      <4>3. s \in received
        BY <1>1, <4>2
      <4>4. Excused(s, ready)
        BY <2>1, <2>4, <3>2, <4>3 DEF Complete
      <4>5. QED
        BY <2>5, <4>3, <4>4
    <3>3. QED
      BY <3>1, <3>2 DEF Complete
  <2>7. Enough'
    <3>1. ASSUME NEW s \in received', last_sent_imu_t' < s, s < ready' - Margin
          PROVE  Spans' \/ Excused(s, ready)' \/ TrimmedFirst(s)'
      <4>1. PICK c \in received : ready <= c
        BY <2>1
      <4>2. c < t /\ c \in Nat /\ s \in Nat
        BY <1>2, <1>4
      <4>3. s # t
        BY <1>1, <1>2, <3>1, <4>1, <4>2
      <4>4. s \in received
        BY <1>1, <4>3
      <4>5. Spans \/ Excused(s, ready) \/ TrimmedFirst(s)
        BY <1>1, <2>1, <2>4, <3>1, <4>4 DEF Enough
      <4>6. Spans => Spans'
        BY <1>1 DEF Spans
      <4>7. QED
        BY <1>10, <2>5, <4>4, <4>5, <4>6
    <3>2. QED
      BY <3>1 DEF Enough
  <2>8. QED
    BY <2>6, <2>7
<1>15. QED
  BY <1>9, <1>12, <1>13, <1>14 DEF ReadingsInv

\* A batch is handed over: what was trimmed before a first frame is older.
LEMMA CommitReadings ==
  ASSUME IInv, ReadingsInv, Commit
  PROVE  ReadingsInv'
<1>1. /\ pc = "selected" /\ Spans /\ last_sent_imu_t' = Last(vImuMeas) /\ pc' = "process"
      /\ UNCHANGED <<imu_buffer, received, last_input_timestamp>>
  BY DEF Commit, SentUpTo
<1>2. Newer'
  BY <1>1 DEF ReadingsInv, Newer
<1>3. Last(vImuMeas) \in vImuMeas /\ last_sent_imu_t < Last(vImuMeas)
  BY <1>1, ClosingReading DEF IInv, BatchInv
<1>4. /\ received \subseteq Nat /\ vImuMeas \subseteq Nat /\ last_sent_imu_t \in Int
  BY Times
<1>5. ASSUME NEW s \in received' \ imu_buffer' PROVE Lost(s)'
  <2>1. s \in received /\ s \notin imu_buffer /\ Lost(s) /\ s \in Nat
    BY <1>1, <1>4 DEF ReadingsInv
  <2> DEFINE e == Last(vImuMeas)
  <2>2. e \in vImuMeas /\ e \in Nat /\ last_sent_imu_t < e
    BY <1>3, <1>4
  <2>3. last_sent_imu_t' = e
    BY <1>1
  <2> HIDE DEF e
  <2>4. s <= last_sent_imu_t => s <= e
    BY <1>4, <2>1, <2>2
  <2>5. (\A r \in vImuMeas : s < r) => s <= e
    <3>1. s < e => s <= e
      BY <2>1, <2>2
    <3>2. QED
      BY <2>2, <3>1
  <2>6. \/ s <= last_sent_imu_t'
        \/ s < last_input_timestamp' - Keep
        \/ Overflown(s)'
    BY <1>1, <2>1, <2>4, <2>5, <2>3 DEF Lost, Overflown
  <2>7. QED
    BY <2>6 DEF Lost
<1>6. QED
  BY <1>1, <1>2, <1>5 DEF ReadingsInv

\* Every step accounts for its readings.
LEMMA NextReadings == IInv /\ IInv' /\ ReadingsInv /\ [Next]_vars => ReadingsInv'
<1> SUFFICES ASSUME IInv, IInv', ReadingsInv, [Next]_vars PROVE ReadingsInv'
  OBVIOUS
<1>1. ASSUME UNCHANGED <<imu_buffer, received, stamps>>,
             pc' \notin {"ready", "selected"}
      PROVE  ReadingsInv'
  BY <1>1 DEF ReadingsInv, Newer, Lost, Overflown, TrimmedFirst, stamps
<1>2. ASSUME UNCHANGED <<imu_buffer, received, stamps, pc, ready, vImuMeas>>
      PROVE  ReadingsInv'
  BY <1>2 DEF ReadingsInv, Newer, Lost, Overflown, TrimmedFirst, Complete, Enough,
              Excused, Unsent, Spans, stamps
<1>3. ASSUME NEW t \in ImuTimes, ImuCallback(t) PROVE ReadingsInv'
  BY <1>3, ArrivalReadings
<1>4. ASSUME NEW s \in SourceTimes, NEW plausible \in BOOLEAN, NEW jump \in Jumps,
             StereoCallback(s, plausible, jump) \/ FrameLost(s, plausible, jump)
      PROVE  ReadingsInv'
  BY <1>2, <1>4 DEF StereoCallback, FrameLost
<1>5. CASE TimerTakesPair
  <2>1. /\ UNCHANGED <<imu_buffer, received, stamps>> /\ pc = "idle" /\ pc' = "ready"
        /\ \E r \in imu_buffer : r >= ready'
    BY <1>5 DEF TimerTakesPair, Covered
  <2>2. PICK f \in Int : f = ready'
    BY FrameTimesNat DEF IInv, TypeOK, None
  <2>3. \E r \in received : ready' <= r
    <3>1. PICK r \in imu_buffer : r >= ready'
      BY <2>1
    <3>2. r \in received /\ r \in Nat
      BY Times DEF ReadingsInv, Newer
    <3>3. f <= r
      BY <2>2, <3>1, <3>2
    <3>4. QED
      BY <2>2, <3>2, <3>3
  <2>4. QED
    BY <2>1, <2>3 DEF ReadingsInv, Newer, Lost, Overflown, TrimmedFirst, stamps
<1>6. CASE TrackReturns \/ Process \/ Destroy
  BY <1>1, <1>6 DEF TrackReturns, Process, Destroy
<1>7. CASE Select
  BY <1>7, SelectReadings
<1>8. CASE Skip
  BY <1>1, <1>8 DEF Skip, KeepReadings
<1>9. CASE Commit
  BY <1>9, CommitReadings
<1>10. CASE ResetService
  BY <1>10 DEF ResetService, ClearedReadings, ReadingsInv, Newer
<1>11. CASE ViewerShutdown \/ Interrupt \/ UNCHANGED vars
  BY <1>2, <1>11 DEF ViewerShutdown, Interrupt, vars
<1>12. ASSUME NEW s \in SourceTimes, FrameRefused(s) PROVE ReadingsInv'
  BY <1>2, <1>12 DEF FrameRefused
<1>13. QED
  BY <1>3, <1>4, <1>5, <1>6, <1>7, <1>8, <1>9, <1>10, <1>11, <1>12 DEF Next, Timer

LEMMA InitReadings == Init => ReadingsInv
  BY DEF Init, ReadingsInv, Newer

\* From its second batch on, the core gets every reading between two closing ones,
\* over skipped and dropped pairs, trims, an overflow between the sections and a
\* shutdown; it may lack those the three limits took (track_stereo).
THEOREM EveryReading == Spec => BatchesExact
<1> DEFINE Exact == Commit =>
       /\ handed' \subseteq received
       /\ last_stereo_t # None =>
            \A s \in received :
               last_sent_imu_t < s /\ s < last_sent_imu_t' /\ s \notin handed'
                  => Excused(s, ready)
<1>1. IInv /\ ReadingsInv /\ [Next]_vars => [Exact]_vars
  <2> SUFFICES ASSUME IInv, ReadingsInv, Commit PROVE Exact
    OBVIOUS
  <2>1. /\ pc = "selected" /\ Spans /\ last_sent_imu_t' = Last(vImuMeas)
        /\ handed' = vImuMeas
    BY DEF Commit, SentUpTo
  <2>2. Last(vImuMeas) \in vImuMeas /\ Complete
    BY <2>1, ClosingReading DEF ReadingsInv
  <2>3. QED
    BY <2>1, <2>2 DEF Complete
<1>2. QED
  BY InitIInv, NextIInv, InitReadings, NextReadings, <1>1, PTL DEF Spec, BatchesExact

\* A pair is skipped only if the readings could not span it, or by the trim
\* before a first frame: nothing a skipped pair selected is lost to the next one
\* (track_stereo).
THEOREM NoneStarved == Spec => NotStarved
<1> DEFINE Fed == Skip =>
       \A s \in received :
          last_sent_imu_t < s /\ s < ready - Margin =>
             \/ Excused(s, ready)
             \/ last_stereo_t = None /\ Last(received) - s > FirstSpan
<1>1. IInv /\ ReadingsInv /\ [Next]_vars => [Fed]_vars
  BY DEF Skip, ReadingsInv, Enough, TrimmedFirst
<1>2. QED
  BY InitIInv, NextIInv, InitReadings, NextReadings, <1>1, PTL DEF Spec, NotStarved
==============================================================================
