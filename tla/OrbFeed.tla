------------------------------- MODULE OrbFeed -------------------------------
(***************************************************************************)
(* How the ORB-SLAM3 stereo-inertial node (orb_slam_ros2,                  *)
(* stereo_imu_node.cpp) feeds the SLAM core, with the splitter that stamps *)
(* its images (ov_hw290, stereo_splitter.cpp).                             *)
(*                                                                         *)
(* Two executor threads run the inertial callback and, one after the       *)
(* other, the callbacks of the default group: stereo pairs, the timer that *)
(* tracks, and the reset service.  The timer's callback takes imu_mutex_   *)
(* three times; an action is what happens from one release to the next.    *)
(* Times are ticks of Margin's unit; a deque of readings with increasing   *)
(* times is the set of these times.                                        *)
(***************************************************************************)
EXTENDS Integers, Sequences, FiniteSets

CONSTANTS
    ImuTimes,      \* times a reading may carry
    SourceTimes,   \* times the camera driver may put on a frame
    Jumps,         \* timestamp corrections the splitter may compute; 0 is none
    AgesNeeded,    \* frames whose age the splitter collects (30)
    MaxRestarts,   \* bound: how often the driver's stamps step back
    QueueSize,     \* sync_queue_size_
    Margin,        \* kImuPreintegrationMarginS
    Keep,          \* readings older than this before a frame go (3 s)
    FirstSpan,     \* most a first batch should span (2 s), if it has more ...
    FirstCount,    \* ... than so many readings (200)
    MaxBuffer,     \* readings kept (1500)
    MaxBatch,      \* largest batch (500), ...
    CutBatch       \* ... else so many of the newest are taken (300)

ASSUME OrbAssumption ==
    /\ ImuTimes \subseteq Nat /\ IsFiniteSet(ImuTimes)
    /\ SourceTimes \subseteq Nat /\ Jumps \subseteq Nat
    /\ AgesNeeded \in Nat \ {0} /\ MaxRestarts \in Nat
    /\ QueueSize \in Nat \ {0, 1} /\ Margin \in Nat
    /\ Keep \in Nat /\ FirstSpan \in Nat /\ FirstCount \in Nat
    /\ MaxBuffer \in Nat \ {0} /\ MaxBatch \in Nat
    /\ CutBatch \in 1..MaxBatch /\ Margin + 1 < CutBatch

\* The stamps the splitter may give to a frame of the driver.
Stamped(s) == {s + j : j \in Jumps \cup {0}}

FrameTimes == UNION {Stamped(s) : s \in SourceTimes}
None == -1

VARIABLES
    pc,                    \* step of the default group: idle, ready, selected, process
    \* the splitter and its source
    timestamp_ages,        \* how many ages it has collected
    stamp_offset_sec,
    source,                \* stamp of the last frame of the driver
    restarts,
    \* the node
    imu_buffer, pending_stereo, last_input_timestamp, last_stereo_t, last_sent_imu_t,
    ready,                 \* stamp of the pair the timer took
    vImuMeas,              \* the readings selected for it
    ok,                    \* rclcpp::ok()
    coreDown,              \* slam_->isShutDown()
    \* history
    received,              \* readings accepted since the last reset
    handed                 \* the batch handed over last

splitter == <<timestamp_ages, stamp_offset_sec, source, restarts>>
stamps   == <<last_input_timestamp, last_stereo_t, last_sent_imu_t>>
vars == <<pc, splitter, imu_buffer, pending_stereo, stamps, ready, vImuMeas, ok,
          coreDown, received, handed>>

Init ==
    /\ pc = "idle" /\ timestamp_ages = 0 /\ stamp_offset_sec = 0
    /\ source = None /\ restarts = 0
    /\ imu_buffer = {} /\ pending_stereo = <<>>
    /\ last_input_timestamp = None /\ last_stereo_t = None /\ last_sent_imu_t = None
    /\ ready = None /\ vImuMeas = {}
    /\ ok = TRUE /\ coreDown = FALSE /\ received = {} /\ handed = {}

Last(S)  == CHOOSE t \in S : \A u \in S : u <= t
Newest(S, n) == {s \in S : Cardinality({r \in S : s <= r}) <= n}

------------------------------------------------------------------------------
(* The inertial callback (its own callback group) *)

\* Readings that do not advance the buffer are dropped.
AcceptsReading(t) == \A r \in imu_buffer : t > r

ImuCallback(t) ==
    /\ ok /\ AcceptsReading(t)
    /\ imu_buffer' = Newest(imu_buffer \cup {t}, MaxBuffer)
    /\ received' = received \cup {t}
    /\ UNCHANGED <<pc, splitter, pending_stereo, stamps, ready, vImuMeas, ok,
                   coreDown, handed>>

------------------------------------------------------------------------------
(* Stereo pairs: splitter, then stereo_callback *)

\* split: while it calibrates, the splitter counts frames of a plausible age and
\* sets its correction at the one that completes the count (age in Jumps).
Calibrate(plausible, jump) ==
    IF timestamp_ages < AgesNeeded /\ plausible
    THEN /\ timestamp_ages' = timestamp_ages + 1
         /\ stamp_offset_sec' = IF timestamp_ages' = AgesNeeded
                                THEN stamp_offset_sec + jump ELSE stamp_offset_sec
    ELSE UNCHANGED <<timestamp_ages, stamp_offset_sec>>

\* A frame of the driver; its stamps step back when the driver restarts.
Arrives(s) ==
    /\ source' = s
    /\ restarts' = IF s > source THEN restarts ELSE restarts + 1
    /\ restarts' <= MaxRestarts

\* The frame has the right size, is split and published.
Split(s, plausible, jump) == Arrives(s) /\ Calibrate(plausible, jump)

\* The oldest pair is dropped when the queue is full.
Bounded(queue) == IF Len(queue) > QueueSize THEN Tail(queue) ELSE queue

StereoCallback(s, plausible, jump) ==
    /\ ok /\ pc = "idle"
    /\ Split(s, plausible, jump)
    /\ pending_stereo' = Bounded(Append(pending_stereo, s + stamp_offset_sec'))
    /\ UNCHANGED <<pc, imu_buffer, stamps, ready, vImuMeas, ok, coreDown, received,
                   handed>>

\* A frame that is not 1280x480 rgb8: split returns before it calibrates.
FrameRefused(s) ==
    /\ ok /\ pc = "idle"
    /\ Arrives(s)
    /\ UNCHANGED <<pc, timestamp_ages, stamp_offset_sec, imu_buffer, pending_stereo,
                   stamps, ready, vImuMeas, ok, coreDown, received, handed>>

\* A frame that is split, and whose images do not arrive as a pair.
FrameLost(s, plausible, jump) ==
    /\ ok /\ pc = "idle"
    /\ Split(s, plausible, jump)
    /\ UNCHANGED <<pc, imu_buffer, pending_stereo, stamps, ready, vImuMeas, ok,
                   coreDown, received, handed>>

------------------------------------------------------------------------------
(* The timer: track_stereo *)

\* Mutant of Covered: a reading after the pair is waited for.
CoveredStrictly(t) == \E r \in imu_buffer : r > t

Covered(t) == \E r \in imu_buffer : r >= t

\* First section: is the oldest pair covered by readings?
TimerTakesPair ==
    /\ ok /\ pc = "idle"
    /\ pending_stereo # <<>> /\ Covered(Head(pending_stereo))
    /\ ready' = Head(pending_stereo) /\ pending_stereo' = Tail(pending_stereo)
    /\ pc' = "ready"
    /\ UNCHANGED <<splitter, imu_buffer, stamps, vImuMeas, ok, coreDown, received,
                   handed>>

\* track_stereo returns early: the viewer shut the core down, an image does not
\* convert, or the pair is not newer than the last one.
TrackReturns ==
    /\ pc = "ready" /\ pc' = "idle"
    /\ \/ coreDown /\ ok' = FALSE
       \/ ~coreDown /\ UNCHANGED ok
    /\ ready' = None
    /\ UNCHANGED <<splitter, imu_buffer, pending_stereo, stamps, vImuMeas, coreDown,
                   received, handed>>

\* What is left of the buffer after the two loops of the second section.
Recent(f) == {s \in imu_buffer : s >= f - Keep \/ \A r \in imu_buffer : r <= s}

FirstBatch(f) ==
    LET kept == Recent(f)
    IN  IF last_stereo_t # None THEN kept
        ELSE {s \in kept : \/ Cardinality({r \in kept : s <= r}) <= FirstCount
                           \/ s > f \/ \A r \in kept : r - s <= FirstSpan}

Unsent(S) == {s \in S : s > last_sent_imu_t}

\* The readings not sent yet, up to the first at or after the frame.
Selected(S, f) ==
    LET upTo == {s \in Unsent(S) : \A r \in Unsent(S) : r >= f => s <= r}
    IN  IF Cardinality(upTo) > MaxBatch THEN Newest(upTo, CutBatch) ELSE upTo

\* Second section, of a pair that passes the checks above.
Select ==
    /\ pc = "ready" /\ ~coreDown /\ ready > last_input_timestamp
    /\ last_input_timestamp' = ready
    /\ imu_buffer' = FirstBatch(ready)
    /\ vImuMeas' = Selected(imu_buffer', ready)
    /\ pc' = "selected"
    /\ UNCHANGED <<splitter, pending_stereo, last_stereo_t, last_sent_imu_t, ready, ok,
                   coreDown, received, handed>>

Spans ==
    /\ Cardinality(vImuMeas) >= 2
    /\ \E s \in vImuMeas : s < ready - Margin
    /\ \E s \in vImuMeas : ready <= s

\* Mutant of KeepReadings: what was selected is taken out of the buffer.
KeepReadingsPopped == imu_buffer' = imu_buffer \ vImuMeas

KeepReadings == UNCHANGED imu_buffer

\* A frame its readings do not span is skipped; they stay for the next one.
Skip ==
    /\ pc = "selected" /\ ~Spans
    /\ KeepReadings
    /\ pc' = "idle" /\ ready' = None /\ vImuMeas' = {}
    /\ UNCHANGED <<splitter, pending_stereo, stamps, ok, coreDown, received, handed>>

\* Mutant of SentUpTo: the frame's time is remembered, not the reading's.
SentUpToFrame == ready

SentUpTo == Last(vImuMeas)

\* Third section.
Commit ==
    /\ pc = "selected" /\ Spans
    /\ last_stereo_t' = ready /\ last_sent_imu_t' = SentUpTo
    /\ handed' = vImuMeas
    /\ pc' = "process"
    /\ UNCHANGED <<splitter, imu_buffer, pending_stereo, last_input_timestamp, ready,
                   vImuMeas, ok, coreDown, received>>

\* process_stereo: TrackStereo, unless the images differ in size; a core that
\* was shut down meanwhile stops the node.
Process ==
    /\ pc = "process" /\ pc' = "idle"
    /\ ready' = None /\ vImuMeas' = {}
    /\ \/ coreDown /\ ok' = FALSE
       \/ UNCHANGED ok
    /\ UNCHANGED <<splitter, imu_buffer, pending_stereo, stamps, coreDown, received,
                   handed>>

------------------------------------------------------------------------------
(* Reset and shutdown *)

ClearedStamps == last_input_timestamp' = None /\ last_stereo_t' = None /\ last_sent_imu_t' = None

\* Mutant of ClearedReadings: the readings survive.
ClearedReadingsNever == UNCHANGED imu_buffer

ClearedReadings == imu_buffer' = {}

ResetService ==
    /\ ok /\ pc = "idle"
    /\ ClearedReadings /\ pending_stereo' = <<>> /\ ClearedStamps
    /\ received' = {} /\ handed' = {}
    /\ UNCHANGED <<pc, splitter, ready, vImuMeas, ok, coreDown>>

\* The viewer's window shuts the core down; so does the destructor, once the
\* executor has stopped.
ViewerShutdown ==
    /\ ~coreDown /\ coreDown' = TRUE
    /\ UNCHANGED <<pc, splitter, imu_buffer, pending_stereo, stamps, ready, vImuMeas,
                   ok, received, handed>>

Interrupt ==
    /\ ok /\ ok' = FALSE
    /\ UNCHANGED <<pc, splitter, imu_buffer, pending_stereo, stamps, ready, vImuMeas,
                   coreDown, received, handed>>

Destroy ==
    /\ ~ok /\ pc = "idle" /\ pc' = "destroyed" /\ coreDown' = TRUE
    /\ UNCHANGED <<splitter, imu_buffer, pending_stereo, stamps, ready, vImuMeas, ok,
                   received, handed>>

------------------------------------------------------------------------------

Timer == TimerTakesPair \/ TrackReturns \/ Select \/ Skip \/ Commit \/ Process

Next ==
    \/ \E t \in ImuTimes : ImuCallback(t)
    \/ \E s \in SourceTimes, plausible \in BOOLEAN, jump \in Jumps :
          StereoCallback(s, plausible, jump) \/ FrameLost(s, plausible, jump)
    \/ \E s \in SourceTimes : FrameRefused(s)
    \/ Timer
    \/ ResetService \/ ViewerShutdown \/ Interrupt \/ Destroy

Spec == Init /\ [][Next]_vars

\* The timer fires again and again, a callback that has begun ends, and the
\* sensor goes on to deliver readings newer than any frame.
LiveSpec == /\ Spec /\ WF_vars(Timer)
            /\ WF_vars(\E t \in ImuTimes : ImuCallback(t))

------------------------------------------------------------------------------
(* Properties *)

TypeOK ==
    /\ pc \in {"idle", "ready", "selected", "process", "destroyed"}
    /\ timestamp_ages \in 0..AgesNeeded /\ stamp_offset_sec \in Jumps \cup {0}
    /\ source \in SourceTimes \cup {None} /\ restarts \in 0..MaxRestarts
    /\ imu_buffer \subseteq ImuTimes /\ vImuMeas \subseteq ImuTimes
    /\ received \subseteq ImuTimes /\ handed \subseteq ImuTimes
    /\ pending_stereo \in Seq(FrameTimes)
    /\ last_input_timestamp \in FrameTimes \cup {None}
    /\ last_stereo_t \in FrameTimes \cup {None}
    /\ last_sent_imu_t \in ImuTimes \cup {None}
    /\ ready \in FrameTimes \cup {None}
    /\ ok \in BOOLEAN /\ coreDown \in BOOLEAN

Batches == INSTANCE InertialBatches
             WITH frame <- last_stereo_t, sent <- last_sent_imu_t, batch <- handed

\* Whatever arrives, is skipped, overflows or is reset: the core gets frames in
\* order, each reading at most once, and every frame spanned by its batch
\* (stereo_imu_node.cpp:323, "Send each acquisition once", and :339).
ImplementsBatches == Batches!Spec

\* A reading may miss its batch for three reasons only: it is older than Keep
\* before the frame, more than MaxBuffer came since, or the batch was cut.
Excused(s, f) ==
    \/ s < f - Keep
    \/ Cardinality({r \in received : s <= r}) > MaxBuffer
    \/ Cardinality({r \in Unsent(received) : r < f}) >= MaxBatch

\* From its second batch on, the core gets every reading the node accepted
\* between two closing readings, over skipped pairs, dropped pairs and trims in
\* between, and only what was accepted since the last reset (track_stereo).
BatchesExact == [][
    Commit => /\ handed' \subseteq received
              /\ last_stereo_t # None =>
                   \A s \in received :
                      last_sent_imu_t < s /\ s < last_sent_imu_t' /\ s \notin handed'
                         => Excused(s, ready)]_vars

\* A pair is only skipped when the readings accepted could not span it
\* (stereo_imu_node.cpp:307, "a frame is never starved by earlier destructive
\* popping"), but for a first frame that lags the readings by over FirstSpan.
NotStarved == [][
    Skip => \A s \in received :
               last_sent_imu_t < s /\ s < ready - Margin =>
                  \/ Excused(s, ready)
                  \/ last_stereo_t = None /\ Last(received) - s > FirstSpan]_vars

\* Every pair that waits is tracked, skipped or dropped in the end: the timer
\* does not get stuck at the head of the queue (pending_timer_).
PairsLeave == \A t \in FrameTimes :
    (\E i \in 1..Len(pending_stereo) : pending_stereo[i] = t)
       ~> (~ok \/ \A i \in 1..Len(pending_stereo) : pending_stereo[i] # t)
==============================================================================
