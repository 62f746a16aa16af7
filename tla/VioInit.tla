------------------------------ MODULE VioInit ------------------------------
(***************************************************************************)
(* Starting the filter (VioManager::try_to_initialize) and what the three  *)
(* threads involved share: the update worker that hands in camera frames,  *)
(* the detached thread that initialises and then moves the state forward   *)
(* over the frames it missed, and the IMU callback that fills and trims    *)
(* the inertial buffers.  The filter keeps running afterwards, so that the *)
(* hand-over and the normal retention of readings are covered as well.     *)
(*                                                                         *)
(* Time is counted in inertial readings: one arrives at every tick, so a   *)
(* buffer is the interval from its oldest reading to `now'.  A camera time *)
(* t is the IMU time t + offset.  Frames come in order and only when an    *)
(* IMU reading beyond them exists, which RosFrontend establishes.          *)
(***************************************************************************)
EXTENDS Integers, Sequences, FiniteSets

CONSTANTS
    MaxTime,       \* bound: the run ends at this tick
    MaxCloneSize,  \* state_options.max_clone_size
    Window,        \* init_options.init_window_time
    Slack,         \* the 0.10 s that is added to every retention
    Offsets,       \* what calib_dt_CAMtoIMU may be, not calibrated online
    InitTime,      \* bound: ticks from the start of an attempt to its end
    MaxLag         \* bound: ticks from one frame to the next being handled

ASSUME VioInitAssumption ==
    /\ MaxTime \in Nat /\ MaxCloneSize \in Nat \ {0} /\ Window \in Nat
    /\ Slack \in Nat /\ Offsets \subseteq Int /\ InitTime \in Nat /\ MaxLag \in Nat

VARIABLES
    now,          \* time of the newest inertial reading
    imuLo,        \* oldest reading in the propagator's buffer
    initLo,       \* oldest reading in the initializer's buffer
    imu,          \* the IMU callback: its step and its oldest_time
    worker,       \* the step of the update worker
    frame,        \* camera time of the frame it handles or handled last
    init,         \* the initialisation thread: step, when it began, its result
    running,      \* thread_init_running
    success,      \* thread_init_success
    initialized,  \* is_initialized_vio
    queue,        \* camera_queue_init
    moves,        \* the frames the thread still moves the state to
    timestamp,    \* state->_timestamp
    clones,       \* keys of state->_clones_IMU
    covered,      \* every propagation had readings at both ends (history)
    offset        \* state->_calib_dt_CAMtoIMU

buffers == <<now, imuLo, initLo, imu>>
flags   == <<running, success, initialized>>
filter  == <<timestamp, clones, covered>>
vars == <<buffers, worker, frame, init, flags, queue, moves, filter, offset>>

Times == 1..MaxTime
None  == -1

Larger(a, b)  == IF a < b THEN b ELSE a
Smaller(a, b) == IF a < b THEN a ELSE b
Abs(n)        == IF n < 0 THEN -n ELSE n
Least(S)      == CHOOSE t \in S : \A u \in S : t <= u

Init ==
    /\ now = 0 /\ imuLo = 0 /\ initLo = 0 /\ imu = [pc |-> "idle", oldest |-> None]
    /\ worker = "idle" /\ frame = 0
    /\ init = [pc |-> "none", begun |-> 0, result |-> None]
    /\ running = FALSE /\ success = FALSE /\ initialized = FALSE
    /\ queue = <<>> /\ moves = <<>>
    /\ timestamp = None /\ clones = {} /\ covered = TRUE
    /\ offset \in Offsets

------------------------------------------------------------------------------
(* The IMU callback *)

\* Mutant of OldestWhileInit: the signed offset, as it was before the repair.
OldestWhileInitSigned(t) == t - Window + offset - Slack

\* The oldest time to keep while the filter is not initialised.
OldestWhileInit(t) == t - Window - Abs(offset) - Slack

\* Mutant of OldestNeeded: margtimestep's infinity is taken at its word.
OldestNeededUnguarded == IF clones = {} THEN MaxTime ELSE Least(clones)

\* The oldest time to keep afterwards: the oldest clone, or everything.
OldestNeeded ==
    IF clones = {} \/ Least(clones) > timestamp THEN None ELSE Least(clones)

\* feed_measurement_imu looks up the oldest clone first ...
ReadOldest ==
    /\ imu.pc = "idle" /\ now < MaxTime
    /\ now < frame + offset + MaxLag
    /\ init.pc \in {"solving", "queue", "move", "ending"} => now < init.begun + InitTime
    /\ imu' = [pc |-> "feed",
               oldest |-> IF initialized THEN OldestNeeded
                          ELSE OldestWhileInit(now + 1)]
    /\ UNCHANGED <<now, imuLo, initLo, worker, frame, init, flags, queue, moves,
                   filter, offset>>

\* ... then stores the reading and trims the buffers.
FeedImu ==
    /\ imu.pc = "feed"
    /\ now' = now + 1
    /\ imuLo' = Larger(imuLo, imu.oldest - Slack)
    /\ initLo' = IF initialized THEN initLo ELSE Larger(initLo, imu.oldest)
    /\ imu' = [pc |-> "idle", oldest |-> None]
    /\ UNCHANGED <<worker, frame, init, flags, queue, moves, filter, offset>>

------------------------------------------------------------------------------
(* The update worker *)

\* The buffer reaches from the state's time to the time to propagate to.
Reaches(t) == imuLo <= timestamp + offset /\ t + offset <= now

\* propagate_and_clone.
PropagateAndClone(t) ==
    /\ covered' = (covered /\ Reaches(t))
    /\ timestamp' = t
    /\ clones' = clones \cup {t}

FeedCamera(c) ==
    /\ worker = "idle" /\ frame < c /\ c + offset < now
    /\ frame' = c
    /\ worker' = IF initialized THEN "zupt" ELSE "try"
    /\ UNCHANGED <<buffers, init, flags, queue, moves, filter, offset>>

\* An accepted zero-velocity update: the state moves, no clone is made.
ZuptAccept ==
    /\ worker = "zupt" /\ timestamp # frame
    /\ timestamp' = frame
    /\ imuLo' = Larger(imuLo, frame + offset - Slack)
    /\ worker' = "idle"
    /\ UNCHANGED <<now, initLo, imu, frame, init, flags, queue, moves, clones,
                   covered, offset>>

\* try_to_initialize starts the thread.
StartThread ==
    /\ worker = "try" /\ ~running /\ ~success
    /\ running' = TRUE
    /\ init' = [init EXCEPT !.pc = "start"]
    /\ worker' = "idle"
    /\ UNCHANGED <<buffers, frame, success, initialized, queue, moves, filter, offset>>

\* It finds the thread running and goes for the queue's lock ...
SeeRunning ==
    /\ worker = "try" /\ running /\ worker' = "push"
    /\ UNCHANGED <<buffers, frame, init, flags, queue, moves, filter, offset>>

\* ... which the thread holds while it moves the state.
PushFrame ==
    /\ worker = "push" /\ init.pc # "move"
    /\ queue' = Append(queue, frame)
    /\ worker' = "idle"
    /\ UNCHANGED <<buffers, frame, init, flags, moves, filter, offset>>

\* It finds that the thread has succeeded.
SeeSuccess ==
    /\ worker = "try" /\ ~running /\ success
    /\ initialized' = TRUE
    /\ worker' = "propagate"
    /\ UNCHANGED <<buffers, frame, init, running, success, queue, moves, filter, offset>>

\* do_feature_propagate_update, as far as times are concerned.
Propagate ==
    /\ worker \in {"zupt", "propagate"}
    /\ IF timestamp >= frame
       THEN worker' = "idle" /\ UNCHANGED filter
       ELSE worker' = "marg" /\ PropagateAndClone(frame)
    /\ UNCHANGED <<buffers, frame, init, flags, queue, moves, offset>>

\* marginalize_old_clone.
WithoutOldest(S) == IF Cardinality(S) > MaxCloneSize THEN S \ {Least(S)} ELSE S

MarginalizeOldClone ==
    /\ worker = "marg"
    /\ clones' = WithoutOldest(clones)
    /\ worker' = "idle"
    /\ UNCHANGED <<buffers, frame, init, flags, queue, moves, timestamp, covered, offset>>

------------------------------------------------------------------------------
(* The initialisation thread *)

\* initialize drops what is older than the window before its newest image.
TrimmedLo == Larger(initLo, frame - Window - Slack + offset)

\* The static method needs a full window of readings and returns the middle of
\* it, in IMU time.
StaticTimes == IF now - TrimmedLo < Window THEN {} ELSE {now - Window \div 2}

\* The dynamic one needs a reading from before the window of its images, and
\* returns the time of the newest one.
DynamicTimes == IF TrimmedLo < frame - Window + offset THEN {frame} ELSE {}

\* InertialInitializer::initialize begins; it may always fail.
Solve ==
    /\ init.pc = "start"
    /\ initLo' = TrimmedLo
    /\ \E result \in {None} \cup StaticTimes \cup DynamicTimes :
          init' = [pc |-> "solving", begun |-> now, result |-> result]
    /\ UNCHANGED <<now, imuLo, imu, worker, frame, flags, queue, moves, filter, offset>>

Succeed ==
    /\ init.pc = "solving" /\ init.result # None
    /\ timestamp' = init.result
    /\ init' = [init EXCEPT !.pc = "queue"]
    /\ UNCHANGED <<buffers, worker, frame, flags, queue, moves, clones, covered, offset>>

\* Mutant of CloneRate: every frame is cloned.
CloneRateOne(n) == 1

\* How many frames to step at a time so that the clones fit in the window.
CloneRate(n) == (n \div MaxCloneSize) + 1

EveryNth(s, r) == [i \in 1..((Len(s) + r - 1) \div r) |-> s[(i - 1) * r + 1]]

\* Mutant of Missed: the frame at the state's own time is kept.
MissedSame(t) == t >= timestamp

\* Only frames after the initialised time are moved to.
Missed(t) == t > timestamp

\* camera_timestamps_to_init: those frames, in the order of the queue.
Late == {k \in DOMAIN queue : Missed(queue[k])}

LatePlaces ==
    {place \in [1..Cardinality(Late) -> Late] :
        \A j, k \in DOMAIN place : j < k => place[j] < place[k]}

LateFrames(place) == [k \in DOMAIN place |-> queue[place[k]]]

\* Mutant of TakeQueue: the result is published before the state is moved.
TakeQueuePublished ==
    /\ init.pc = "queue"
    /\ \E place \in LatePlaces :
          moves' = EveryNth(LateFrames(place), CloneRate(Len(LateFrames(place))))
    /\ init' = [init EXCEPT !.pc = "move"]
    /\ success' = TRUE /\ running' = FALSE
    /\ UNCHANGED <<buffers, worker, frame, initialized, queue, filter, offset>>

\* The thread takes the lock of the queue and keeps it while it moves.
TakeQueue ==
    /\ init.pc = "queue"
    /\ \E place \in LatePlaces :
          moves' = EveryNth(LateFrames(place), CloneRate(Len(LateFrames(place))))
    /\ init' = [init EXCEPT !.pc = "move"]
    /\ UNCHANGED <<buffers, worker, frame, flags, queue, filter, offset>>

\* One frame: propagate_and_clone, which exits unless time goes forward, and
\* marginalize_old_clone.
Move ==
    /\ init.pc = "move" /\ moves # <<>>
    /\ IF timestamp >= Head(moves)
       THEN init' = [init EXCEPT !.pc = "exit"] /\ UNCHANGED filter
       ELSE /\ covered' = (covered /\ Reaches(Head(moves)))
            /\ timestamp' = Head(moves)
            /\ clones' = WithoutOldest(clones \cup {Head(moves)})
            /\ UNCHANGED init
    /\ moves' = Tail(moves)
    /\ UNCHANGED <<buffers, worker, frame, flags, queue, offset>>

Finish ==
    /\ init.pc = "move" /\ moves = <<>>
    /\ success' = TRUE /\ queue' = <<>>
    /\ init' = [init EXCEPT !.pc = "ending"]
    /\ UNCHANGED <<buffers, worker, frame, running, initialized, moves, filter, offset>>

Fail ==
    /\ init.pc = "solving" /\ init.result = None
    /\ success' = FALSE /\ queue' = <<>>
    /\ init' = [init EXCEPT !.pc = "ending"]
    /\ UNCHANGED <<buffers, worker, frame, running, initialized, moves, filter, offset>>

\* Mutant of EndThread: a failed thread leaves the flag.
EndThreadFlag ==
    /\ init.pc = "ending"
    /\ running' = ~success
    /\ init' = [pc |-> "none", begun |-> 0, result |-> None]
    /\ UNCHANGED <<buffers, worker, frame, success, initialized, queue, moves, filter, offset>>

EndThread ==
    /\ init.pc = "ending"
    /\ running' = FALSE
    /\ init' = [pc |-> "none", begun |-> 0, result |-> None]
    /\ UNCHANGED <<buffers, worker, frame, success, initialized, queue, moves, filter, offset>>

------------------------------------------------------------------------------
WorkerSteps == \/ ZuptAccept \/ StartThread \/ SeeRunning \/ PushFrame \/ SeeSuccess
               \/ Propagate \/ MarginalizeOldClone
InitSteps   == \/ Solve \/ Succeed \/ TakeQueue \/ Move \/ Finish \/ Fail \/ EndThread

Next ==
    \/ ReadOldest \/ FeedImu
    \/ \E c \in Times : FeedCamera(c)
    \/ WorkerSteps \/ InitSteps

Spec == Init /\ [][Next]_vars

\* The started threads are scheduled; readings and frames need not come.
LiveSpec == Spec /\ WF_vars(WorkerSteps) /\ WF_vars(InitSteps)
------------------------------------------------------------------------------
(* Properties *)

TypeOK ==
    /\ now \in 0..MaxTime /\ imuLo \in Nat /\ initLo \in Nat
    /\ imu.pc \in {"idle", "feed"} /\ imu.oldest \in Int
    /\ worker \in {"idle", "zupt", "try", "push", "propagate", "marg"}
    /\ frame \in 0..MaxTime
    /\ init.pc \in {"none", "start", "solving", "queue", "move", "ending", "exit"}
    /\ init.begun \in Nat /\ init.result \in Int
    /\ {running, success, initialized, covered} \subseteq BOOLEAN
    /\ queue \in Seq(Times) /\ moves \in Seq(Times) /\ offset \in Offsets
    /\ timestamp \in -1..MaxTime /\ clones \subseteq Times

\* The readings needed to move the state are in the propagator's buffer when it
\* is moved: the frames that waited for the initialisation included, however
\* the trimming by the IMU callback falls between.
PropagationCovered == covered

\* The static initialiser is given a full window of readings as soon as one has
\* been received, whatever the sign of the camera offset ("a positive
\* camera-to-IMU offset must not shorten that window").
WindowSuffices ==
    init.pc = "start" => now - TrimmedLo >= Smaller(Window, now)

\* The thread never asks the propagator to stand still or go back, which exits
\* the process, also with frames left in the queue by failed attempts.
NeverExits == TypeOK /\ init.pc # "exit"

\* The worker changes the state only when no initialisation thread exists, and
\* starts one only then.
OneWriter ==
    /\ worker \in {"zupt", "propagate", "marg"} => init.pc = "none"
    /\ init.pc # "none" => running

\* The clones made on the way all stay: none is marginalised again before the
\* first update could use it.
CatchUpFits ==
    [][init.pc = "move" => clones \subseteq clones']_vars

\* The flag that keeps frames from being used is always taken back.
RunningEnds == running ~> ~running
==============================================================================
