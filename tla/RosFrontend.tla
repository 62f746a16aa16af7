----------------------------- MODULE RosFrontend -----------------------------
(***************************************************************************)
(* The ROS 2 front end of OpenVINS (ROS2Visualizer.cpp): the subscription  *)
(* callbacks the executor runs, the update worker that hands camera        *)
(* measurements to the estimator, the image publishing thread, and the     *)
(* shutdown sequence of run_subscribe_msckf.cpp.                           *)
(*                                                                         *)
(* All subscriptions share the node's default, mutually exclusive callback *)
(* group: callbacks never overlap one another, but the worker, the image   *)
(* thread and main run beside them.  Times are integer ticks.  Images are  *)
(* abstracted to <<camera, time>>.                                         *)
(***************************************************************************)
EXTENDS Integers, Sequences, FiniteSets

CONSTANTS
    NumCameras,          \* state_options.num_cameras
    CamStamps,           \* header stamps a camera message can carry
    ImuStamps,           \* header stamps an IMU message can carry
    CalibDt,             \* values the online camera/IMU time offset can take
    TrackDelta,          \* 1 / track_frequency
    MultiThreadingSubs,  \* values params.use_multi_threading_subs can have
    MultiThreadingPubs   \* params.use_multi_threading_pubs

ASSUME ConstantsAssumption ==
    /\ NumCameras \in Nat \ {0}
    /\ CamStamps \subseteq Nat
    /\ ImuStamps \subseteq Nat
    /\ CalibDt \subseteq Int /\ CalibDt # {}
    /\ TrackDelta \in Nat \ {0}
    /\ MultiThreadingSubs \subseteq BOOLEAN
    /\ MultiThreadingPubs \in BOOLEAN

\* Two cameras are synchronised into one stereo stream carrying sensor id 0
\* first; any other number of cameras has one monocular stream each.
Streams == IF NumCameras = 2 THEN {0} ELSE 0..(NumCameras - 1)
NumUniqueCameras == IF NumCameras = 2 THEN 1 ELSE NumCameras

Frame == [cam : Streams, ts : CamStamps]
NoStamp == -1

VARIABLES
    callback,               \* where callback_inertial is, "idle" if none runs
    callback_stamp,         \* message.timestamp of that callback
    imu_newest,             \* newest IMU stamp fed so far (history)
    camera_queue,
    camera_last_timestamp,
    thread_update_running,
    update_joinable,        \* update_thread.joinable()
    worker,                 \* where the update worker is, "none" if no thread
    worker_stamp,           \* the timestamp the worker captured by value
    timestamp_imu_inC,
    camera_message,         \* the popped message: <<>> or <<frame>>
    calib_dt,               \* state->_calib_dt_CAMtoIMU
    fed,                    \* what feed_measurement_camera received (history)
    multi_threading_subs,   \* params.use_multi_threading_subs, fixed
    image_thread,
    main,                   \* where run_subscribe_msckf's main is
    ok,                     \* rclcpp::ok()
    stop_requested

cbVars     == <<callback, callback_stamp, imu_newest>>
queueVars  == <<camera_queue, camera_last_timestamp>>
workerVars == <<worker, worker_stamp, timestamp_imu_inC, camera_message>>
estVars    == <<calib_dt, fed, multi_threading_subs>>
mainVars   == <<main, ok, stop_requested>>
vars == <<cbVars, queueVars, thread_update_running, update_joinable,
          workerVars, estVars, image_thread, mainVars>>

Before(f, g) == \/ f.ts < g.ts
                \/ f.ts = g.ts /\ f.cam < g.cam

Init ==
    /\ callback = "idle" /\ callback_stamp = NoStamp /\ imu_newest = NoStamp
    /\ camera_queue = <<>>
    /\ camera_last_timestamp = [c \in Streams |-> NoStamp]
    /\ thread_update_running = FALSE
    /\ update_joinable = FALSE
    /\ worker = "none" /\ worker_stamp = NoStamp
    /\ timestamp_imu_inC = NoStamp /\ camera_message = <<>>
    /\ calib_dt \in CalibDt
    /\ fed = <<>>
    /\ multi_threading_subs \in MultiThreadingSubs
    /\ image_thread = IF MultiThreadingPubs THEN "check" ELSE "none"
    /\ main = "spin" /\ ok = TRUE /\ stop_requested = FALSE

\* The executor starts a callback only while it spins and no other runs.
CanStartCallback == main = "spin" /\ ok /\ callback = "idle"

------------------------------------------------------------------------------
(* Camera callbacks *)

\* Mutant of TooSoon: no rate limit at all.
TooSoonNever(f) == FALSE

\* The track_frequency drop rule.
TooSoon(f) ==
    LET last == camera_last_timestamp[f.cam]
    IN  last # NoStamp /\ f.ts < last + TrackDelta

\* push_back followed by std::sort on a queue that was already sorted.
PushSorted(f) ==
    \E k \in 0..Len(camera_queue) :
        /\ \A i \in 1..k : Before(camera_queue[i], f)
        /\ \A i \in (k + 1)..Len(camera_queue) : ~Before(camera_queue[i], f)
        /\ camera_queue' = [i \in 1..(Len(camera_queue) + 1) |->
                               IF i <= k THEN camera_queue[i]
                               ELSE IF i = k + 1 THEN f
                               ELSE camera_queue[i - 1]]

\* The stamp is remembered before the image is converted.
RememberStamp(f) ==
    camera_last_timestamp' = [camera_last_timestamp EXCEPT ![f.cam] = f.ts]

CameraCallback(f) ==
    /\ CanStartCallback
    /\ ~TooSoon(f)
    /\ RememberStamp(f)
    /\ PushSorted(f)
    /\ UNCHANGED <<cbVars, thread_update_running, update_joinable, workerVars,
                   estVars, image_thread, mainVars>>

\* cv_bridge throws: the callback returns, the remembered stamp stays.
CameraConversionFails(f) ==
    /\ CanStartCallback
    /\ ~TooSoon(f)
    /\ RememberStamp(f)
    /\ UNCHANGED <<cbVars, camera_queue, thread_update_running, update_joinable,
                   workerVars, estVars, image_thread, mainVars>>

------------------------------------------------------------------------------
(* callback_inertial *)

\* Mutant of SlotBusy: the exchange's old value is ignored.
SlotBusyStopOnly == stop_requested

\* stop_requested || thread_update_running.exchange(true)
SlotBusy == stop_requested \/ thread_update_running

\* Feed the estimator, then claim the worker slot with exchange(true).
InertialCallback(t) ==
    /\ CanStartCallback
    /\ imu_newest' = IF t > imu_newest THEN t ELSE imu_newest
    /\ IF SlotBusy
       THEN UNCHANGED <<callback, callback_stamp, thread_update_running>>
       ELSE /\ thread_update_running' = TRUE
            /\ callback' = "join" /\ callback_stamp' = t
    /\ UNCHANGED <<queueVars, update_joinable, workerVars, estVars,
                   image_thread, mainVars>>

\* if (update_thread.joinable()) update_thread.join();
JoinPrevious ==
    /\ callback = "join"
    /\ update_joinable => worker = "done"
    /\ update_joinable' = FALSE
    /\ worker' = "none"
    /\ callback' = "spawn"
    /\ UNCHANGED <<callback_stamp, imu_newest, queueVars, thread_update_running,
                   worker_stamp, timestamp_imu_inC, camera_message, estVars,
                   image_thread, mainVars>>

SpawnWorker ==
    /\ callback = "spawn"
    /\ update_joinable' = TRUE
    /\ worker' = "count"
    /\ worker_stamp' = callback_stamp
    /\ callback' = IF multi_threading_subs THEN "idle" ELSE "wait"
    /\ callback_stamp' = NoStamp
    /\ UNCHANGED <<imu_newest, queueVars, thread_update_running,
                   timestamp_imu_inC, camera_message, estVars, image_thread,
                   mainVars>>

\* Single threaded: the callback joins the worker it has just started.
JoinInCallback ==
    /\ callback = "wait"
    /\ worker = "done"
    /\ worker' = "none" /\ update_joinable' = FALSE
    /\ callback' = "idle"
    /\ UNCHANGED <<callback_stamp, imu_newest, queueVars, thread_update_running,
                   worker_stamp, timestamp_imu_inC, camera_message, estVars,
                   image_thread, mainVars>>

------------------------------------------------------------------------------
(* The update worker *)

UniqueCamIds == {camera_queue[i].cam : i \in 1..Len(camera_queue)}

\* Under camera_queue_mtx: is there one measurement of each stream?
WorkerCount ==
    /\ worker = "count"
    /\ worker' = IF Cardinality(UniqueCamIds) = NumUniqueCameras
                 THEN "bound" ELSE "clear"
    /\ UNCHANGED <<cbVars, queueVars, thread_update_running, update_joinable,
                   worker_stamp, timestamp_imu_inC, camera_message, estVars,
                   image_thread, mainVars>>

\* The bound is computed once, from the offset as it is now.
WorkerBound ==
    /\ worker = "bound"
    /\ timestamp_imu_inC' = worker_stamp - calib_dt
    /\ worker' = "check"
    /\ UNCHANGED <<cbVars, queueVars, thread_update_running, update_joinable,
                   worker_stamp, camera_message, estVars, image_thread, mainVars>>

WorkerCheck ==
    /\ worker = "check"
    /\ worker' = IF stop_requested THEN "clear" ELSE "pop"
    /\ UNCHANGED <<cbVars, queueVars, thread_update_running, update_joinable,
                   worker_stamp, timestamp_imu_inC, camera_message, estVars,
                   image_thread, mainVars>>

\* Mutant of FrontReady: takes a frame as new as the IMU measurement.
FrontReadyAtBound ==
    camera_queue # <<>> /\ camera_queue[1].ts <= timestamp_imu_inC

FrontReady ==
    camera_queue # <<>> /\ camera_queue[1].ts < timestamp_imu_inC

\* Mutant of WorkerPop: pops before it looks, losing a frame that is not ready.
WorkerPopFirst ==
    /\ worker = "pop"
    /\ camera_queue' = IF camera_queue = <<>> THEN <<>> ELSE Tail(camera_queue)
    /\ IF FrontReady
       THEN camera_message' = <<camera_queue[1]>> /\ worker' = "feed"
       ELSE camera_message' = camera_message /\ worker' = "clear"
    /\ UNCHANGED <<cbVars, camera_last_timestamp, thread_update_running,
                   update_joinable, worker_stamp, timestamp_imu_inC, estVars,
                   image_thread, mainVars>>

\* Under camera_queue_mtx: take one ready frame, or leave the loop.
WorkerPop ==
    /\ worker = "pop"
    /\ IF FrontReady
       THEN /\ camera_message' = <<camera_queue[1]>>
            /\ camera_queue' = Tail(camera_queue)
            /\ worker' = "feed"
       ELSE /\ worker' = "clear"
            /\ UNCHANGED <<camera_message, camera_queue>>
    /\ UNCHANGED <<cbVars, camera_last_timestamp, thread_update_running,
                   update_joinable, worker_stamp, timestamp_imu_inC, estVars,
                   image_thread, mainVars>>

\* feed_measurement_camera and visualize, outside the lock.  The update may
\* move the estimated time offset.
WorkerFeed ==
    /\ worker = "feed"
    /\ fed' = Append(fed, camera_message[1])
    /\ camera_message' = <<>>
    /\ calib_dt' \in CalibDt
    /\ worker' = "check"
    /\ UNCHANGED multi_threading_subs
    /\ UNCHANGED <<cbVars, queueVars, thread_update_running, update_joinable,
                   worker_stamp, timestamp_imu_inC, image_thread, mainVars>>

\* Mutant of WorkerClear: the worker leaves without releasing its slot.
WorkerLeaves ==
    /\ worker = "clear"
    /\ worker' = "exit"
    /\ UNCHANGED <<cbVars, queueVars, thread_update_running, update_joinable,
                   worker_stamp, timestamp_imu_inC, camera_message, estVars,
                   image_thread, mainVars>>

WorkerClear ==
    /\ worker = "clear"
    /\ thread_update_running' = FALSE
    /\ worker' = "exit"
    /\ UNCHANGED <<cbVars, queueVars, update_joinable, worker_stamp,
                   timestamp_imu_inC, camera_message, estVars, image_thread,
                   mainVars>>

\* The thread function returns some time after the flag is cleared.
WorkerExit ==
    /\ worker = "exit"
    /\ worker' = "done"
    /\ UNCHANGED <<cbVars, queueVars, thread_update_running, update_joinable,
                   worker_stamp, timestamp_imu_inC, camera_message, estVars,
                   image_thread, mainVars>>

Worker == WorkerCount \/ WorkerBound \/ WorkerCheck \/ WorkerPop
          \/ WorkerFeed \/ WorkerClear \/ WorkerExit

------------------------------------------------------------------------------
(* The image publishing thread *)

\* Mutant of KeepPublishing: the loop does not look at the stop request.
PublishForever == TRUE

KeepPublishing == ok /\ ~stop_requested

ImageThreadStep ==
    /\ \/ /\ image_thread = "check"
          /\ image_thread' = IF KeepPublishing THEN "publish" ELSE "done"
       \/ /\ image_thread = "publish"
          /\ image_thread' = "check"
    /\ UNCHANGED <<cbVars, queueVars, thread_update_running, update_joinable,
                   workerVars, estVars, mainVars>>

------------------------------------------------------------------------------
(* Shutdown: spin() returns, stop_workers(), visualize_final(), resets *)

RosShutdown ==
    /\ main = "spin" /\ ok
    /\ ok' = FALSE
    /\ UNCHANGED <<cbVars, queueVars, thread_update_running, update_joinable,
                   workerVars, estVars, image_thread, main, stop_requested>>

RequestStop ==
    /\ main = "spin" /\ ~ok /\ callback = "idle"
    /\ stop_requested' = TRUE
    /\ main' = "join_update"
    /\ UNCHANGED <<cbVars, queueVars, thread_update_running, update_joinable,
                   workerVars, estVars, image_thread, ok>>

\* Mutant of JoinUpdateThread: stop_workers does not wait for the worker.
SkipUpdateThread ==
    /\ main = "join_update"
    /\ main' = "join_image"
    /\ UNCHANGED <<cbVars, queueVars, thread_update_running, update_joinable,
                   workerVars, estVars, image_thread, ok, stop_requested>>

JoinUpdateThread ==
    /\ main = "join_update"
    /\ update_joinable => worker = "done"
    /\ update_joinable' = FALSE
    /\ worker' = "none"
    /\ main' = "join_image"
    /\ UNCHANGED <<cbVars, queueVars, thread_update_running, worker_stamp,
                   timestamp_imu_inC, camera_message, estVars, image_thread,
                   ok, stop_requested>>

JoinImageThread ==
    /\ main = "join_image"
    /\ image_thread \in {"none", "done"}
    /\ main' = "final"
    /\ UNCHANGED <<cbVars, queueVars, thread_update_running, update_joinable,
                   workerVars, estVars, image_thread, ok, stop_requested>>

\* visualize_final, viz.reset(), sys.reset()
Destroy ==
    /\ main = "final"
    /\ main' = "destroyed"
    /\ UNCHANGED <<cbVars, queueVars, thread_update_running, update_joinable,
                   workerVars, estVars, image_thread, ok, stop_requested>>

------------------------------------------------------------------------------
Callbacks == JoinPrevious \/ SpawnWorker \/ JoinInCallback
Shutdown  == RequestStop \/ JoinUpdateThread \/ JoinImageThread \/ Destroy

Next ==
    \/ \E f \in Frame : CameraCallback(f) \/ CameraConversionFails(f)
    \/ \E t \in ImuStamps : InertialCallback(t)
    \/ Callbacks
    \/ Worker
    \/ ImageThreadStep
    \/ RosShutdown
    \/ Shutdown

Spec == Init /\ [][Next]_vars

\* Threads are scheduled, a started callback and a started shutdown run to
\* their end, and the IMU keeps delivering measurements newer than any given
\* camera time (the newest stamp of the instance stands for them).
Fairness ==
    /\ WF_vars(Callbacks)
    /\ WF_vars(Worker)
    /\ WF_vars(ImageThreadStep)
    /\ WF_vars(Shutdown)
    /\ SF_vars(\E t \in ImuStamps : (\A u \in ImuStamps : u <= t) /\ InertialCallback(t))

FairSpec == Spec /\ Fairness
------------------------------------------------------------------------------
(* Properties *)

TypeOK ==
    /\ callback \in {"idle", "join", "spawn", "wait"}
    /\ callback_stamp \in ImuStamps \cup {NoStamp}
    /\ imu_newest \in ImuStamps \cup {NoStamp}
    /\ camera_queue \in Seq(Frame)
    /\ camera_last_timestamp \in [Streams -> CamStamps \cup {NoStamp}]
    /\ thread_update_running \in BOOLEAN
    /\ update_joinable \in BOOLEAN
    /\ worker \in {"none", "count", "bound", "check", "pop", "feed", "clear",
                   "exit", "done"}
    /\ worker_stamp \in ImuStamps \cup {NoStamp}
    /\ timestamp_imu_inC \in Int
    /\ camera_message \in Seq(Frame) /\ Len(camera_message) <= 1
    /\ calib_dt \in CalibDt
    /\ multi_threading_subs \in MultiThreadingSubs
    /\ fed \in Seq(Frame)
    /\ image_thread \in {"none", "check", "publish", "done"}
    /\ main \in {"spin", "join_update", "join_image", "final", "destroyed"}
    /\ ok \in BOOLEAN
    /\ stop_requested \in BOOLEAN

\* There is one update worker: while callback_inertial is between winning the
\* exchange and starting a thread, the previous worker has left the queue and
\* the estimator alone, and the handle is free before it is assigned (assigning
\* to a joinable std::thread would terminate the process).
OneUpdateWorker ==
    /\ callback \in {"join", "spawn"} => worker \in {"none", "exit", "done"}
    /\ callback = "spawn" => worker = "none" /\ ~update_joinable
    /\ worker \notin {"none", "exit", "done"} => thread_update_running

\* The estimator receives the measurements of one camera in strictly
\* increasing time order, whatever order the transport delivers them in.
PerCameraOrder ==
    \A i, j \in 1..Len(fed) :
        i < j /\ fed[i].cam = fed[j].cam => fed[i].ts < fed[j].ts

\* The estimator receives all measurements in time order.  It holds with one
\* camera stream; "propagate in the correct order" claims it for every number
\* of cameras.
FedInOrder ==
    \A i, j \in 1..Len(fed) : i < j => fed[i].ts <= fed[j].ts

\* A measurement is handed to the estimator only when an IMU measurement newer
\* than it, under the time offset the estimator will use, has been fed: as long
\* as no update of this drain has moved the offset the bound was computed from.
CoveredByImu ==
    worker = "feed" /\ timestamp_imu_inC = worker_stamp - calib_dt =>
        camera_message[1].ts + calib_dt < imu_newest

\* Once stop_workers has returned, no thread of the front end is left that
\* could touch the estimator main is about to destroy.
QuietAfterStop ==
    main \in {"final", "destroyed"} =>
        /\ callback = "idle"
        /\ worker = "none"
        /\ image_thread \in {"none", "done"}

\* The queue, the hand-over and the log together implement ordered,
\* exactly-once delivery: nothing accepted is lost, repeated or overtaken.
Delivery == INSTANCE FrameDelivery WITH
    Frames    <- Frame,
    pending   <- {camera_queue[i] : i \in 1..Len(camera_queue)},
    delivered <- fed \o camera_message
ImplementsDelivery == Delivery!Spec

\* A measurement that is waiting is eventually handed to the estimator, unless
\* the node shuts down: no schedule of callbacks and worker leaves it stranded.
QueuedIsFed ==
    \A f \in Frame :
        (\E i \in 1..Len(camera_queue) : camera_queue[i] = f)
            ~> (~ok \/ \E i \in 1..Len(fed) : fed[i] = f)

\* A requested shutdown always reaches the destruction of the estimator: the
\* joins cannot wait on each other.
ShutdownCompletes == ~ok ~> main = "destroyed"
==============================================================================
