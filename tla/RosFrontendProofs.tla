-------------------------- MODULE RosFrontendProofs --------------------------
(***************************************************************************)
(* Theorems about RosFrontend for every number of cameras, every set of    *)
(* stamps and every evolution of the time offset.  The inductive invariant *)
(* has three parts beside the types: the worker protocol, the message in   *)
(* hand, and the order of what is waiting, in hand and fed.                *)
(***************************************************************************)
EXTENDS RosFrontend, SequenceTheorems, TLAPS

\* Who may run when: the flag, the handle and main against the worker.
WorkerProtocol ==
    /\ callback \in {"join", "spawn"} =>
           worker \in {"none", "exit", "done"} /\ thread_update_running
    /\ callback = "spawn" => worker = "none" /\ ~update_joinable
    /\ worker \notin {"none", "exit", "done"} => thread_update_running
    /\ worker # "none" => update_joinable
    /\ main # "spin" => callback = "idle"
    /\ main \in {"join_image", "final", "destroyed"} => worker = "none"
    /\ main \in {"final", "destroyed"} => image_thread \in {"none", "done"}

\* A message is in hand exactly between the pop and the feed.
MessageInHand == worker = "feed" <=> camera_message # <<>>

\* The queue is sorted, and per camera: fed < in hand < queued <= last stamp.
QueueOrder ==
    \A i, j \in 1..Len(camera_queue) : i < j => Before(camera_queue[i], camera_queue[j])
QueueBelowLast ==
    \A i \in 1..Len(camera_queue) :
        camera_queue[i].ts <= camera_last_timestamp[camera_queue[i].cam]
HandOrder ==
    \A i \in 1..Len(camera_message) :
        /\ camera_message[i].ts <= camera_last_timestamp[camera_message[i].cam]
        /\ \A j \in 1..Len(camera_queue) :
               camera_queue[j].cam = camera_message[i].cam
                   => camera_message[i].ts < camera_queue[j].ts
FedBelow ==
    \A i \in 1..Len(fed) :
        /\ fed[i].ts <= camera_last_timestamp[fed[i].cam]
        /\ \A j \in 1..Len(camera_queue) :
               camera_queue[j].cam = fed[i].cam => fed[i].ts < camera_queue[j].ts
        /\ \A j \in 1..Len(camera_message) :
               camera_message[j].cam = fed[i].cam => fed[i].ts < camera_message[j].ts

OrderInv == QueueOrder /\ QueueBelowLast /\ HandOrder /\ FedBelow /\ PerCameraOrder

IInv == TypeOK /\ WorkerProtocol /\ MessageInHand /\ OrderInv

------------------------------------------------------------------------------
\* What each action leaves alone for the order: an action that changes none of
\* the queue, the stamps, the hand and the log keeps OrderInv.
dataVars == <<camera_queue, camera_last_timestamp, camera_message, fed>>

LEMMA OrderKept == OrderInv /\ UNCHANGED dataVars => OrderInv'
  BY DEF OrderInv, QueueOrder, QueueBelowLast, HandOrder, FedBelow,
         PerCameraOrder, dataVars, Before

\* The ranges of the constants, in the form the leaves below use them.
LEMMA ConstTypes ==
  /\ CamStamps \subseteq Int /\ ImuStamps \subseteq Int /\ CalibDt \subseteq Int
  /\ Streams \subseteq Int
  /\ NoStamp \in Int
  /\ TrackDelta \in Int /\ TrackDelta > 0
  /\ \A x \in CamStamps : x > NoStamp
  <1>1. NumCameras \in Int /\ TrackDelta \in Int /\ TrackDelta > 0
    BY ConstantsAssumption
  <1>2. Streams \subseteq Int
    BY <1>1 DEF Streams
  <1>3. CamStamps \subseteq Int /\ ImuStamps \subseteq Int /\ CalibDt \subseteq Int
    BY ConstantsAssumption
  <1>4. NoStamp \in Int
    BY DEF NoStamp
  <1>5. \A x \in CamStamps : x > NoStamp
    BY ConstantsAssumption DEF NoStamp
  <1> QED BY <1>1, <1>2, <1>3, <1>4, <1>5

\* A measurement the drop rule lets through is newer than the last stamp of
\* its camera.
LEMMA NewerThanLast ==
  ASSUME NEW f \in Frame, TypeOK, ~TooSoon(f)
  PROVE  f.ts > camera_last_timestamp[f.cam]
  <1>1. f.cam \in Streams /\ f.ts \in CamStamps
    BY DEF Frame
  <1>2. camera_last_timestamp[f.cam] \in Int
    BY <1>1, ConstTypes DEF TypeOK
  <1>3. f.ts \in Int /\ f.ts > NoStamp
    BY <1>1, ConstTypes
  <1> QED
    BY <1>2, <1>3, ConstTypes DEF TooSoon

\* Remembering the stamp of an accepted measurement only moves stamps forward.
LEMMA LastGrows ==
  ASSUME NEW f \in Frame, TypeOK, ~TooSoon(f), RememberStamp(f)
  PROVE  \A c \in Streams :
           /\ camera_last_timestamp[c] \in Int /\ camera_last_timestamp'[c] \in Int
           /\ camera_last_timestamp[c] <= camera_last_timestamp'[c]
  <1> TAKE c \in Streams
  <1>1. camera_last_timestamp[c] \in Int
    BY ConstTypes DEF TypeOK
  <1>2. f.ts > camera_last_timestamp[f.cam] /\ f.ts \in Int
    BY NewerThanLast, ConstTypes DEF Frame
  <1>3. camera_last_timestamp'[c] = IF c = f.cam THEN f.ts ELSE camera_last_timestamp[c]
    BY DEF TypeOK, RememberStamp
  <1>4. CASE c = f.cam
    BY <1>1, <1>2, <1>3, <1>4
  <1>5. CASE c # f.cam
    BY <1>1, <1>3, <1>5
  <1> QED BY <1>4, <1>5

\* Pushing keeps the queue a sequence and every element is an old one or f.
LEMMA PushType ==
  ASSUME NEW f \in Frame, TypeOK, PushSorted(f)
  PROVE  /\ camera_queue' \in Seq(Frame)
         /\ \A i \in 1..Len(camera_queue') :
              camera_queue'[i] = f \/ \E k \in 1..Len(camera_queue) : camera_queue'[i] = camera_queue[k]
         /\ \A k \in 1..Len(camera_queue) : \E i \in 1..Len(camera_queue') :
              camera_queue'[i] = camera_queue[k]
         /\ \E i \in 1..Len(camera_queue') : camera_queue'[i] = f
  <1> DEFINE n == Len(camera_queue)
  <1>1. camera_queue \in Seq(Frame) /\ n \in Nat
    BY DEF TypeOK
  <1>2. PICK k \in 0..n :
           camera_queue' = [i \in 1..(n + 1) |-> IF i <= k THEN camera_queue[i]
                                                 ELSE IF i = k + 1 THEN f
                                                 ELSE camera_queue[i - 1]]
    BY DEF PushSorted
  <1>3. \A i \in 1..(n + 1) : camera_queue'[i] \in Frame
    <2> TAKE i \in 1..(n + 1)
    <2>1. CASE i <= k
      BY <1>1, <1>2, <2>1
    <2>2. CASE i = k + 1
      BY <1>1, <1>2, <2>2
    <2>3. CASE i > k + 1
      BY <1>1, <1>2, <2>3
    <2> QED BY <1>1, <2>1, <2>2, <2>3
  <1>4. camera_queue' \in Seq(Frame) /\ Len(camera_queue') = n + 1
    BY <1>1, <1>2, <1>3
  <1>5. ASSUME NEW i \in 1..(n + 1)
        PROVE  camera_queue'[i] = f \/ \E m \in 1..n : camera_queue'[i] = camera_queue[m]
    <2>1. CASE i <= k
      BY <1>1, <1>2, <2>1
    <2>2. CASE i = k + 1
      BY <1>1, <1>2, <2>2
    <2>3. CASE i > k + 1
      <3>1. i - 1 \in 1..n /\ camera_queue'[i] = camera_queue[i - 1]
        BY <1>1, <1>2, <2>3
      <3> QED BY <3>1
    <2> QED BY <1>1, <2>1, <2>2, <2>3
  <1>6. ASSUME NEW m \in 1..n
        PROVE  \E i \in 1..(n + 1) : camera_queue'[i] = camera_queue[m]
    <2>1. CASE m <= k
      BY <1>1, <1>2, <2>1
    <2>2. CASE m > k
      <3>1. m + 1 \in 1..(n + 1) /\ camera_queue'[m + 1] = camera_queue[m]
        BY <1>1, <1>2, <2>2
      <3> QED BY <3>1
    <2> QED BY <1>1, <2>1, <2>2
  <1>7. k + 1 \in 1..(n + 1) /\ camera_queue'[k + 1] = f
    BY <1>1, <1>2
  <1> QED
    BY <1>4, <1>5, <1>6, <1>7

\* Pushing a measurement that is newer than everything of its camera keeps
\* the queue strictly sorted.
LEMMA PushOrder ==
  ASSUME NEW f \in Frame, TypeOK, QueueOrder, QueueBelowLast,
         f.ts > camera_last_timestamp[f.cam], PushSorted(f)
  PROVE  QueueOrder'
  <1> DEFINE n == Len(camera_queue)
  <1>1. camera_queue \in Seq(Frame) /\ n \in Nat
    BY DEF TypeOK
  <1>2. PICK k \in 0..n :
          /\ \A i \in 1..k : Before(camera_queue[i], f)
          /\ \A i \in (k + 1)..n : ~Before(camera_queue[i], f)
          /\ camera_queue' = [i \in 1..(n + 1) |-> IF i <= k THEN camera_queue[i]
                                                   ELSE IF i = k + 1 THEN f
                                                   ELSE camera_queue[i - 1]]
    BY DEF PushSorted
  <1>3. f.cam \in Int /\ f.ts \in Int
    BY ConstTypes DEF Frame
  <1>4. \A i \in 1..n : camera_queue[i].cam \in Int /\ camera_queue[i].ts \in Int
    <2> TAKE i \in 1..n
    <2>1. camera_queue[i] \in Frame
      BY <1>1
    <2> QED BY <2>1, ConstTypes DEF Frame
  <1>5. \A i \in 1..n : camera_queue[i].cam = f.cam => camera_queue[i].ts # f.ts
    <2> SUFFICES ASSUME NEW i \in 1..n, camera_queue[i].cam = f.cam
                 PROVE  camera_queue[i].ts # f.ts
      OBVIOUS
    <2>1. f.cam \in Streams
      BY DEF Frame
    <2>2. camera_last_timestamp[f.cam] \in Int
      BY <2>1, ConstTypes DEF TypeOK
    <2> QED BY <1>3, <1>4, <2>2 DEF QueueBelowLast
  <1>6. \A i \in (k + 1)..n : Before(f, camera_queue[i])
    BY <1>1, <1>2, <1>3, <1>4, <1>5 DEF Before
  <1>7. Len(camera_queue') = n + 1
    BY <1>1, <1>2, PushType
  <1> SUFFICES ASSUME NEW i \in 1..(n + 1), NEW j \in 1..(n + 1), i < j
               PROVE  Before(camera_queue'[i], camera_queue'[j])
    BY <1>7 DEF QueueOrder, Before
  <1>8. CASE j <= k
    BY <1>1, <1>2, <1>8 DEF QueueOrder
  <1>9. CASE j = k + 1
    BY <1>1, <1>2, <1>9
  <1>10. CASE j > k + 1
    <2>1. j - 1 \in (k + 1)..n /\ camera_queue'[j] = camera_queue[j - 1]
      BY <1>1, <1>2, <1>10
    <2>2. CASE i <= k
      BY <1>1, <1>2, <2>1, <2>2 DEF QueueOrder
    <2>3. CASE i = k + 1
      BY <1>1, <1>2, <1>6, <2>1, <2>3
    <2>4. CASE i > k + 1
      <3>1. i - 1 \in 1..n /\ camera_queue'[i] = camera_queue[i - 1] /\ i - 1 < j - 1
        BY <1>1, <1>2, <2>4
      <3> QED BY <1>1, <2>1, <3>1 DEF QueueOrder
    <2> QED BY <1>1, <2>2, <2>3, <2>4
  <1> QED BY <1>1, <1>8, <1>9, <1>10
------------------------------------------------------------------------------
(* The types *)

LEMMA InitType == Init => TypeOK
  <1> SUFFICES ASSUME Init PROVE TypeOK
    OBVIOUS
  <1>1. camera_queue \in Seq(Frame) /\ camera_message \in Seq(Frame) /\ fed \in Seq(Frame)
        /\ Len(camera_message) <= 1
    BY DEF Init
  <1>2. camera_last_timestamp \in [Streams -> CamStamps \cup {NoStamp}]
    BY DEF Init
  <1>3. timestamp_imu_inC \in Int
    BY ConstTypes DEF Init
  <1>4. image_thread \in {"none", "check", "publish", "done"}
    BY DEF Init
  <1> QED BY <1>1, <1>2, <1>3, <1>4 DEF Init, TypeOK

LEMMA CallbackType ==
  ASSUME TypeOK, NEW t \in ImuStamps, InertialCallback(t)
  PROVE  TypeOK'
  <1>1. imu_newest' \in ImuStamps \cup {NoStamp}
    BY DEF TypeOK, InertialCallback
  <1>2. /\ callback' \in {"idle", "join", "spawn", "wait"}
        /\ callback_stamp' \in ImuStamps \cup {NoStamp}
        /\ thread_update_running' \in BOOLEAN
    BY DEF TypeOK, InertialCallback
  <1>3. UNCHANGED <<queueVars, update_joinable, workerVars, estVars, image_thread, mainVars>>
    BY DEF InertialCallback
  <1> QED
    BY <1>1, <1>2, <1>3 DEF TypeOK, queueVars, workerVars, estVars, mainVars

LEMMA CameraType ==
  ASSUME TypeOK, NEW f \in Frame, CameraCallback(f) \/ CameraConversionFails(f)
  PROVE  TypeOK'
  <1>1. camera_last_timestamp' \in [Streams -> CamStamps \cup {NoStamp}]
    BY DEF TypeOK, CameraCallback, CameraConversionFails, RememberStamp, Frame
  <1>2. camera_queue' \in Seq(Frame)
    <2>1. CASE CameraCallback(f)
      BY <2>1, PushType DEF CameraCallback
    <2>2. CASE CameraConversionFails(f)
      BY <2>2 DEF TypeOK, CameraConversionFails
    <2> QED BY <2>1, <2>2
  <1>3. UNCHANGED <<cbVars, thread_update_running, update_joinable, workerVars,
                    estVars, image_thread, mainVars>>
    BY DEF CameraCallback, CameraConversionFails
  <1> QED
    BY <1>1, <1>2, <1>3 DEF TypeOK, cbVars, workerVars, estVars, mainVars

LEMMA WorkerType ==
  ASSUME TypeOK, MessageInHand, Worker
  PROVE  TypeOK'
  <1>1. CASE WorkerCount
    BY <1>1 DEF TypeOK, WorkerCount, cbVars, queueVars, estVars, mainVars
  <1>2. CASE WorkerBound
    <2>1. timestamp_imu_inC' \in Int
      BY <1>2, ConstTypes DEF TypeOK, WorkerBound
    <2> QED
      BY <1>2, <2>1 DEF TypeOK, WorkerBound, cbVars, queueVars, estVars, mainVars
  <1>3. CASE WorkerCheck
    BY <1>3 DEF TypeOK, WorkerCheck, cbVars, queueVars, estVars, mainVars
  <1>4. CASE WorkerPop
    <2>1. camera_queue' \in Seq(Frame) /\ camera_message' \in Seq(Frame)
          /\ Len(camera_message') <= 1
      <3>1. CASE FrontReady
        <4>1. camera_queue \in Seq(Frame) /\ camera_queue # <<>>
          BY <3>1 DEF TypeOK, FrontReady
        <4>2. camera_queue[1] \in Frame /\ Tail(camera_queue) \in Seq(Frame)
          BY <4>1
        <4>3. camera_message' = <<camera_queue[1]>> /\ camera_queue' = Tail(camera_queue)
          BY <1>4, <3>1 DEF WorkerPop
        <4> QED BY <4>2, <4>3
      <3>2. CASE ~FrontReady
        BY <1>4, <3>2 DEF TypeOK, WorkerPop
      <3> QED BY <3>1, <3>2
    <2> QED
      BY <1>4, <2>1 DEF TypeOK, WorkerPop, cbVars, estVars, mainVars
  <1>5. CASE WorkerFeed
    <2>1. camera_message # <<>> /\ camera_message[1] \in Frame
      BY <1>5 DEF TypeOK, WorkerFeed, MessageInHand
    <2>2. fed' \in Seq(Frame)
      BY <1>5, <2>1 DEF TypeOK, WorkerFeed
    <2>3. camera_message' \in Seq(Frame) /\ Len(camera_message') <= 1
      BY <1>5 DEF WorkerFeed
    <2> QED
      BY <1>5, <2>2, <2>3 DEF TypeOK, WorkerFeed, cbVars, queueVars, mainVars
  <1>6. CASE WorkerClear
    <2>1. worker' = "exit" /\ thread_update_running' = FALSE
      BY <1>6 DEF WorkerClear
    <2>2. UNCHANGED <<cbVars, queueVars, update_joinable, worker_stamp,
                      timestamp_imu_inC, camera_message, estVars, image_thread,
                      mainVars>>
      BY <1>6 DEF WorkerClear
    <2> QED
      BY <2>1, <2>2, ZenonT(60) DEF TypeOK, cbVars, queueVars, estVars, mainVars
  <1>7. CASE WorkerExit
    BY <1>7 DEF TypeOK, WorkerExit, cbVars, queueVars, estVars, mainVars
  <1> QED BY <1>1, <1>2, <1>3, <1>4, <1>5, <1>6, <1>7 DEF Worker

LEMMA OtherType ==
  ASSUME TypeOK,
         Callbacks \/ ImageThreadStep \/ RosShutdown \/ Shutdown
  PROVE  TypeOK'
  <1>1. CASE JoinPrevious
    BY <1>1 DEF TypeOK, JoinPrevious, queueVars, estVars, mainVars
  <1>2. CASE SpawnWorker
    BY <1>2 DEF TypeOK, SpawnWorker, queueVars, estVars, mainVars
  <1>3. CASE JoinInCallback
    BY <1>3 DEF TypeOK, JoinInCallback, queueVars, estVars, mainVars
  <1>4. CASE ImageThreadStep
    BY <1>4 DEF TypeOK, ImageThreadStep, cbVars, queueVars, workerVars, estVars, mainVars
  <1>5. CASE RosShutdown
    <2>1. ok' \in BOOLEAN
      BY <1>5, Zenon DEF RosShutdown
    <2>2. UNCHANGED <<cbVars, queueVars, thread_update_running, update_joinable,
                      workerVars, estVars, image_thread, main, stop_requested>>
      BY <1>5, Zenon DEF RosShutdown
    <2> QED
      BY <2>1, <2>2 DEF TypeOK, cbVars, queueVars, workerVars, estVars
  <1>6. CASE RequestStop
    BY <1>6 DEF TypeOK, RequestStop, cbVars, queueVars, workerVars, estVars
  <1>7. CASE JoinUpdateThread
    BY <1>7 DEF TypeOK, JoinUpdateThread, cbVars, queueVars, estVars
  <1>8. CASE JoinImageThread
    BY <1>8 DEF TypeOK, JoinImageThread, cbVars, queueVars, workerVars, estVars
  <1>9. CASE Destroy
    BY <1>9 DEF TypeOK, Destroy, cbVars, queueVars, workerVars, estVars
  <1> QED
    BY <1>1, <1>2, <1>3, <1>4, <1>5, <1>6, <1>7, <1>8, <1>9 DEF Callbacks, Shutdown
------------------------------------------------------------------------------
(* The worker protocol *)

LEMMA ProtocolStep ==
  ASSUME TypeOK, WorkerProtocol, Next
  PROVE  WorkerProtocol'
  <1>1. ASSUME NEW f \in Frame, CameraCallback(f) \/ CameraConversionFails(f)
        PROVE  WorkerProtocol'
    BY <1>1 DEF WorkerProtocol, CameraCallback, CameraConversionFails, cbVars,
                workerVars, mainVars
  <1>2. ASSUME NEW t \in ImuStamps, InertialCallback(t)
        PROVE  WorkerProtocol'
    BY <1>2 DEF WorkerProtocol, InertialCallback, SlotBusy, CanStartCallback, workerVars, mainVars
  <1>3. CASE JoinPrevious
    BY <1>3 DEF WorkerProtocol, JoinPrevious, mainVars
  <1>4. CASE SpawnWorker
    BY <1>4 DEF WorkerProtocol, SpawnWorker, mainVars
  <1>5. CASE JoinInCallback
    BY <1>5 DEF WorkerProtocol, JoinInCallback, mainVars
  <1>6. CASE WorkerCount
    BY <1>6 DEF WorkerProtocol, WorkerCount, cbVars, mainVars
  <1>7. CASE WorkerBound
    BY <1>7 DEF WorkerProtocol, WorkerBound, cbVars, mainVars
  <1>8. CASE WorkerCheck
    BY <1>8 DEF WorkerProtocol, WorkerCheck, cbVars, mainVars
  <1>9. CASE WorkerPop
    BY <1>9 DEF WorkerProtocol, WorkerPop, cbVars, mainVars
  <1>10. CASE WorkerFeed
    BY <1>10 DEF WorkerProtocol, WorkerFeed, cbVars, mainVars
  <1>11. CASE WorkerClear
    BY <1>11 DEF WorkerProtocol, WorkerClear, cbVars, mainVars
  <1>12. CASE WorkerExit
    BY <1>12 DEF WorkerProtocol, WorkerExit, cbVars, mainVars
  <1>13. CASE ImageThreadStep
    BY <1>13 DEF WorkerProtocol, ImageThreadStep, cbVars, workerVars, mainVars
  <1>14. CASE RosShutdown
    BY <1>14 DEF WorkerProtocol, RosShutdown, cbVars, workerVars
  <1>15. CASE RequestStop
    BY <1>15 DEF WorkerProtocol, RequestStop, cbVars, workerVars
  <1>16. CASE JoinUpdateThread
    BY <1>16 DEF WorkerProtocol, JoinUpdateThread, cbVars
  <1>17. CASE JoinImageThread
    BY <1>17 DEF WorkerProtocol, JoinImageThread, cbVars, workerVars
  <1>18. CASE Destroy
    BY <1>18 DEF WorkerProtocol, Destroy, cbVars, workerVars
  <1> QED
    BY <1>1, <1>2, <1>3, <1>4, <1>5, <1>6, <1>7, <1>8, <1>9, <1>10, <1>11, <1>12,
       <1>13, <1>14, <1>15, <1>16, <1>17, <1>18
    DEF Next, Callbacks, Worker, Shutdown

LEMMA HandStep ==
  ASSUME TypeOK, WorkerProtocol, MessageInHand, Next
  PROVE  MessageInHand'
  <1>1. CASE \/ \E f \in Frame : CameraCallback(f) \/ CameraConversionFails(f)
             \/ \E t \in ImuStamps : InertialCallback(t)
             \/ ImageThreadStep \/ RosShutdown
             \/ RequestStop \/ JoinImageThread \/ Destroy
    <2>1. UNCHANGED workerVars
      BY <1>1, Zenon DEF CameraCallback, CameraConversionFails, InertialCallback,
                  ImageThreadStep, RosShutdown, RequestStop, JoinImageThread, Destroy
    <2> QED BY <2>1 DEF MessageInHand, workerVars
  <1>2. CASE JoinPrevious \/ SpawnWorker \/ JoinInCallback \/ JoinUpdateThread
    <2>1. worker # "feed" /\ worker' # "feed"
      BY <1>2 DEF WorkerProtocol, JoinPrevious, SpawnWorker, JoinInCallback,
                  JoinUpdateThread
    <2>2. camera_message' = camera_message
      BY <1>2, Zenon DEF JoinPrevious, SpawnWorker, JoinInCallback, JoinUpdateThread
    <2>3. camera_message = <<>>
      BY <2>1, MessageInHand, Zenon DEF MessageInHand
    <2> QED BY <2>1, <2>2, <2>3, Zenon DEF MessageInHand
  <1>3. CASE WorkerPop
    <2>1. CASE FrontReady
      <3>1. camera_message' = <<camera_queue[1]>> /\ worker' = "feed"
        BY <1>3, <2>1, Zenon DEF WorkerPop
      <3>2. <<camera_queue[1]>> # <<>>
        OBVIOUS
      <3> QED BY <3>1, <3>2, Zenon DEF MessageInHand
    <2>2. CASE ~FrontReady
      <3>1. camera_message' = camera_message /\ worker = "pop" /\ worker' = "clear"
        BY <1>3, <2>2, Zenon DEF WorkerPop
      <3> QED BY <3>1 DEF MessageInHand
    <2> QED BY <2>1, <2>2
  <1>4. CASE WorkerFeed
    BY <1>4 DEF MessageInHand, WorkerFeed
  <1>5. CASE WorkerCount \/ WorkerBound \/ WorkerCheck \/ WorkerClear \/ WorkerExit
    BY <1>5 DEF MessageInHand, WorkerCount, WorkerBound, WorkerCheck, WorkerClear, WorkerExit
  <1> QED
    BY <1>1, <1>2, <1>3, <1>4, <1>5, Zenon DEF Next, Callbacks, Worker, Shutdown
------------------------------------------------------------------------------
(* The order of what is queued, in hand and fed *)

\* An accepted measurement joins the queue.
LEMMA CameraOrder ==
  ASSUME TypeOK, OrderInv, NEW f \in Frame, CameraCallback(f)
  PROVE  OrderInv'
  <1>1. f.ts > camera_last_timestamp[f.cam]
    BY NewerThanLast DEF CameraCallback
  <1>2. PushSorted(f) /\ f.cam \in Streams /\ f.ts \in Int
    BY ConstTypes DEF CameraCallback, Frame
  <1>3. /\ camera_last_timestamp' = [camera_last_timestamp EXCEPT ![f.cam] = f.ts]
        /\ UNCHANGED <<camera_message, fed>>
    BY DEF CameraCallback, RememberStamp, workerVars, estVars
  <1>4. QueueOrder'
    BY <1>1, <1>2, PushOrder DEF OrderInv
  <1>5. \A i \in 1..Len(camera_queue') : camera_queue'[i] = f
          \/ \E k \in 1..Len(camera_queue) : camera_queue'[i] = camera_queue[k]
    BY <1>2, PushType
  \* The last stamp of every camera only grows.
  <1>6. \A c \in Streams :
          /\ camera_last_timestamp[c] \in Int /\ camera_last_timestamp'[c] \in Int
          /\ camera_last_timestamp[c] <= camera_last_timestamp'[c]
    BY LastGrows DEF CameraCallback
  <1>7. camera_last_timestamp'[f.cam] = f.ts
    BY <1>2, <1>3 DEF TypeOK
  <1>8. /\ \A i \in 1..Len(camera_queue) : camera_queue[i] \in Frame
        /\ \A i \in 1..Len(camera_message) : camera_message[i] \in Frame
        /\ \A i \in 1..Len(fed) : fed[i] \in Frame
    BY DEF TypeOK
  <1>9. \A g \in Frame : g.cam \in Streams /\ g.ts \in Int
    BY ConstTypes DEF Frame
  <1>10. QueueBelowLast'
    <2> SUFFICES ASSUME NEW i \in 1..Len(camera_queue')
                 PROVE  camera_queue'[i].ts <= camera_last_timestamp'[camera_queue'[i].cam]
      BY DEF QueueBelowLast
    <2>1. CASE camera_queue'[i] = f
      BY <2>1, <1>2, <1>7
    <2>2. ASSUME NEW k \in 1..Len(camera_queue), camera_queue'[i] = camera_queue[k]
          PROVE  camera_queue'[i].ts <= camera_last_timestamp'[camera_queue'[i].cam]
      BY <2>2, <1>6, <1>8, <1>9 DEF OrderInv, QueueBelowLast
    <2> QED BY <2>1, <2>2, <1>5
  <1>11. HandOrder'
    <2> SUFFICES ASSUME NEW i \in 1..Len(camera_message)
                 PROVE  /\ camera_message[i].ts <= camera_last_timestamp'[camera_message[i].cam]
                        /\ \A j \in 1..Len(camera_queue') :
                             camera_queue'[j].cam = camera_message[i].cam
                               => camera_message[i].ts < camera_queue'[j].ts
      BY <1>3 DEF HandOrder
    <2>1. camera_message[i].ts <= camera_last_timestamp'[camera_message[i].cam]
      BY <1>6, <1>8, <1>9 DEF OrderInv, HandOrder
    <2>2. ASSUME NEW j \in 1..Len(camera_queue'), camera_queue'[j].cam = camera_message[i].cam
          PROVE  camera_message[i].ts < camera_queue'[j].ts
      <3>1. CASE camera_queue'[j] = f
        BY <2>2, <3>1, <1>1, <1>6, <1>8, <1>9 DEF OrderInv, HandOrder
      <3>2. ASSUME NEW k \in 1..Len(camera_queue), camera_queue'[j] = camera_queue[k]
            PROVE  camera_message[i].ts < camera_queue'[j].ts
        BY <2>2, <3>2 DEF OrderInv, HandOrder
      <3> QED BY <3>1, <3>2, <1>5
    <2> QED BY <2>1, <2>2
  <1>12. FedBelow'
    <2> SUFFICES ASSUME NEW i \in 1..Len(fed)
                 PROVE  /\ fed[i].ts <= camera_last_timestamp'[fed[i].cam]
                        /\ \A j \in 1..Len(camera_queue') :
                             camera_queue'[j].cam = fed[i].cam => fed[i].ts < camera_queue'[j].ts
                        /\ \A j \in 1..Len(camera_message) :
                             camera_message[j].cam = fed[i].cam => fed[i].ts < camera_message[j].ts
      BY <1>3 DEF FedBelow
    <2>1. fed[i].ts <= camera_last_timestamp'[fed[i].cam]
      BY <1>6, <1>8, <1>9 DEF OrderInv, FedBelow
    <2>2. ASSUME NEW j \in 1..Len(camera_queue'), camera_queue'[j].cam = fed[i].cam
          PROVE  fed[i].ts < camera_queue'[j].ts
      <3>1. CASE camera_queue'[j] = f
        BY <2>2, <3>1, <1>1, <1>6, <1>8, <1>9 DEF OrderInv, FedBelow
      <3>2. ASSUME NEW k \in 1..Len(camera_queue), camera_queue'[j] = camera_queue[k]
            PROVE  fed[i].ts < camera_queue'[j].ts
        BY <2>2, <3>2 DEF OrderInv, FedBelow
      <3> QED BY <3>1, <3>2, <1>5
    <2>3. \A j \in 1..Len(camera_message) :
            camera_message[j].cam = fed[i].cam => fed[i].ts < camera_message[j].ts
      BY DEF OrderInv, FedBelow
    <2> QED BY <2>1, <2>2, <2>3
  <1>13. PerCameraOrder'
    BY <1>3 DEF OrderInv, PerCameraOrder
  <1> QED BY <1>4, <1>10, <1>11, <1>12, <1>13 DEF OrderInv

\* A failed conversion only moves the last stamp of its camera forward.
LEMMA ConversionOrder ==
  ASSUME TypeOK, OrderInv, NEW f \in Frame, CameraConversionFails(f)
  PROVE  OrderInv'
  <1>1. f.ts > camera_last_timestamp[f.cam]
    BY NewerThanLast DEF CameraConversionFails
  <1>2. /\ camera_last_timestamp' = [camera_last_timestamp EXCEPT ![f.cam] = f.ts]
        /\ UNCHANGED <<camera_queue, camera_message, fed>>
    BY DEF CameraConversionFails, RememberStamp, workerVars, estVars
  <1>3. f.cam \in Streams /\ f.ts \in Int
    BY ConstTypes DEF Frame
  <1>4. \A c \in Streams :
          /\ camera_last_timestamp[c] \in Int /\ camera_last_timestamp'[c] \in Int
          /\ camera_last_timestamp[c] <= camera_last_timestamp'[c]
    BY LastGrows DEF CameraConversionFails
  <1>5. /\ \A i \in 1..Len(camera_queue) : camera_queue[i] \in Frame
        /\ \A i \in 1..Len(camera_message) : camera_message[i] \in Frame
        /\ \A i \in 1..Len(fed) : fed[i] \in Frame
    BY DEF TypeOK
  <1>6. \A g \in Frame : g.cam \in Streams /\ g.ts \in Int
    BY ConstTypes DEF Frame
  <1>7. QueueOrder' /\ PerCameraOrder'
    BY <1>2 DEF OrderInv, QueueOrder, PerCameraOrder, Before
  <1>8. QueueBelowLast'
    BY <1>2, <1>4, <1>5, <1>6 DEF OrderInv, QueueBelowLast
  <1>9. HandOrder'
    BY <1>2, <1>4, <1>5, <1>6 DEF OrderInv, HandOrder
  <1>10. FedBelow'
    BY <1>2, <1>4, <1>5, <1>6 DEF OrderInv, FedBelow
  <1> QED BY <1>7, <1>8, <1>9, <1>10 DEF OrderInv
\* Popping moves the head of the sorted queue into the hand.
LEMMA PopOrder ==
  ASSUME TypeOK, MessageInHand, OrderInv, WorkerPop, FrontReady
  PROVE  OrderInv'
  <1> DEFINE q == camera_queue
  <1>1. /\ camera_message' = <<q[1]>> /\ camera_queue' = Tail(q)
        /\ UNCHANGED <<camera_last_timestamp, fed>>
    BY DEF WorkerPop, estVars
  <1>2. q \in Seq(Frame) /\ Len(q) \in Nat /\ Len(q) > 0 /\ camera_message = <<>>
    BY DEF TypeOK, FrontReady, WorkerPop, MessageInHand
  <1>3. /\ Len(camera_queue') = Len(q) - 1
        /\ \A i \in 1..(Len(q) - 1) : i + 1 \in 1..Len(q) /\ camera_queue'[i] = q[i + 1]
    BY <1>1, <1>2
  <1>4. Len(camera_message') = 1 /\ camera_message'[1] = q[1]
    BY <1>1
  <1>5. \A i \in 1..Len(q) : q[i] \in Frame /\ q[i].ts \in Int /\ q[i].cam \in Int
    <2> TAKE i \in 1..Len(q)
    <2>1. q[i] \in Frame
      BY <1>2
    <2> QED BY <2>1, ConstTypes DEF Frame
  <1>6. QueueOrder'
    <2> SUFFICES ASSUME NEW i \in 1..(Len(q) - 1), NEW j \in 1..(Len(q) - 1), i < j
                 PROVE  Before(camera_queue'[i], camera_queue'[j])
      BY <1>3 DEF QueueOrder, Before
    <2>1. i + 1 \in 1..Len(q) /\ j + 1 \in 1..Len(q) /\ i + 1 < j + 1
      BY <1>2
    <2>2. Before(q[i + 1], q[j + 1])
      BY <2>1 DEF OrderInv, QueueOrder
    <2> QED BY <1>3, <2>2
  <1>7. QueueBelowLast'
    BY <1>1, <1>2, <1>3 DEF OrderInv, QueueBelowLast
  <1>8. HandOrder'
    <2>1. 1 \in 1..Len(q) /\ q[1].ts <= camera_last_timestamp[q[1].cam]
      BY <1>2 DEF OrderInv, QueueBelowLast
    <2>2. \A i \in 1..(Len(q) - 1) : Before(q[1], q[i + 1])
      BY <1>2 DEF OrderInv, QueueOrder
    <2>3. \A i \in 1..Len(camera_queue') :
            camera_queue'[i].cam = q[1].cam => q[1].ts < camera_queue'[i].ts
      BY <1>2, <1>3, <1>5, <2>2 DEF Before
    <2> QED BY <1>1, <1>4, <2>1, <2>3 DEF HandOrder
  <1>9. FedBelow'
    <2> SUFFICES ASSUME NEW i \in 1..Len(fed)
                 PROVE  /\ fed[i].ts <= camera_last_timestamp[fed[i].cam]
                        /\ \A j \in 1..Len(camera_queue') :
                             camera_queue'[j].cam = fed[i].cam => fed[i].ts < camera_queue'[j].ts
                        /\ \A j \in 1..Len(camera_message') :
                             camera_message'[j].cam = fed[i].cam => fed[i].ts < camera_message'[j].ts
      BY <1>1 DEF FedBelow
    <2>1. \A j \in 1..Len(q) : q[j].cam = fed[i].cam => fed[i].ts < q[j].ts
      BY DEF OrderInv, FedBelow
    <2>2. \A j \in 1..Len(camera_queue') :
            camera_queue'[j].cam = fed[i].cam => fed[i].ts < camera_queue'[j].ts
      BY <1>2, <1>3, <2>1
    <2>3. \A j \in 1..Len(camera_message') :
            camera_message'[j].cam = fed[i].cam => fed[i].ts < camera_message'[j].ts
      BY <1>2, <1>4, <2>1
    <2>4. fed[i].ts <= camera_last_timestamp[fed[i].cam]
      BY DEF OrderInv, FedBelow
    <2> QED BY <2>2, <2>3, <2>4
  <1>10. PerCameraOrder'
    BY <1>1 DEF OrderInv, PerCameraOrder
  <1> QED BY <1>6, <1>7, <1>8, <1>9, <1>10 DEF OrderInv

\* Feeding appends the message in hand, which is newer than what was fed.
LEMMA FeedOrder ==
  ASSUME TypeOK, MessageInHand, OrderInv, WorkerFeed
  PROVE  OrderInv'
  <1> DEFINE m == camera_message[1]
  <1>1. /\ fed' = Append(fed, m) /\ camera_message' = <<>>
        /\ UNCHANGED <<camera_queue, camera_last_timestamp>>
    BY DEF WorkerFeed, queueVars
  <1>2. camera_message # <<>> /\ camera_message \in Seq(Frame) /\ fed \in Seq(Frame)
    BY DEF TypeOK, MessageInHand, WorkerFeed
  <1>3. 1 \in 1..Len(camera_message) /\ m \in Frame
    BY <1>2
  <1>4. /\ Len(fed) \in Nat /\ Len(fed') = Len(fed) + 1
        /\ fed'[Len(fed) + 1] = m
        /\ \A i \in 1..Len(fed) : fed'[i] = fed[i]
    BY <1>1, <1>2, <1>3
  <1>5. QueueOrder' /\ QueueBelowLast'
    BY <1>1 DEF OrderInv, QueueOrder, QueueBelowLast, Before
  <1>6. HandOrder'
    BY <1>1 DEF HandOrder
  <1>7. FedBelow'
    <2> SUFFICES ASSUME NEW i \in 1..(Len(fed) + 1)
                 PROVE  /\ fed'[i].ts <= camera_last_timestamp[fed'[i].cam]
                        /\ \A j \in 1..Len(camera_queue) :
                             camera_queue[j].cam = fed'[i].cam => fed'[i].ts < camera_queue[j].ts
      BY <1>1, <1>4 DEF FedBelow
    <2>1. CASE i = Len(fed) + 1
      BY <1>3, <1>4, <2>1 DEF OrderInv, HandOrder
    <2>2. CASE i # Len(fed) + 1
      BY <1>4, <2>2 DEF OrderInv, FedBelow
    <2> QED BY <2>1, <2>2
  <1>8. PerCameraOrder'
    <2> SUFFICES ASSUME NEW i \in 1..(Len(fed) + 1), NEW j \in 1..(Len(fed) + 1),
                        i < j, fed'[i].cam = fed'[j].cam
                 PROVE  fed'[i].ts < fed'[j].ts
      BY <1>4 DEF PerCameraOrder
    <2>1. i \in 1..Len(fed)
      BY <1>4
    <2>2. CASE j = Len(fed) + 1
      BY <1>3, <1>4, <2>1, <2>2 DEF OrderInv, FedBelow
    <2>3. CASE j # Len(fed) + 1
      BY <1>4, <2>1, <2>3 DEF OrderInv, PerCameraOrder
    <2> QED BY <2>2, <2>3
  <1> QED BY <1>5, <1>6, <1>7, <1>8 DEF OrderInv

LEMMA OrderStep ==
  ASSUME TypeOK, MessageInHand, OrderInv, Next
  PROVE  OrderInv'
  <1>1. ASSUME NEW f \in Frame, CameraCallback(f)
        PROVE  OrderInv'
    BY <1>1, CameraOrder
  <1>2. ASSUME NEW f \in Frame, CameraConversionFails(f)
        PROVE  OrderInv'
    BY <1>2, ConversionOrder
  <1>3. CASE WorkerPop
    <2>1. CASE FrontReady
      BY <1>3, <2>1, PopOrder
    <2>2. CASE ~FrontReady
      <3>1. UNCHANGED dataVars
        BY <1>3, <2>2, Zenon DEF WorkerPop, dataVars, estVars
      <3> QED BY <3>1, OrderKept
    <2> QED BY <2>1, <2>2
  <1>4. CASE WorkerFeed
    BY <1>4, FeedOrder
  <1>5. CASE \/ \E t \in ImuStamps : InertialCallback(t)
             \/ JoinPrevious \/ SpawnWorker \/ JoinInCallback
             \/ WorkerCount \/ WorkerBound \/ WorkerCheck \/ WorkerClear \/ WorkerExit
             \/ ImageThreadStep \/ RosShutdown
             \/ RequestStop \/ JoinUpdateThread \/ JoinImageThread \/ Destroy
    <2>1. UNCHANGED dataVars
      BY <1>5, Zenon DEF dataVars, queueVars, workerVars, estVars, InertialCallback,
         JoinPrevious, SpawnWorker, JoinInCallback, WorkerCount, WorkerBound, WorkerCheck,
         WorkerClear, WorkerExit, ImageThreadStep, RosShutdown, RequestStop,
         JoinUpdateThread, JoinImageThread, Destroy
    <2> QED BY <2>1, OrderKept
  <1> QED
    BY <1>1, <1>2, <1>3, <1>4, <1>5, Zenon DEF Next, Callbacks, Worker, Shutdown
------------------------------------------------------------------------------
(* The theorems *)

LEMMA Inductive == Spec => []IInv
  <1>1. Init => IInv
    BY InitType, ConstTypes
    DEF Init, IInv, WorkerProtocol, MessageInHand, OrderInv, QueueOrder,
        QueueBelowLast, HandOrder, FedBelow, PerCameraOrder
  <1>2. IInv /\ [Next]_vars => IInv'
    <2> SUFFICES ASSUME IInv, [Next]_vars
                 PROVE  IInv'
      OBVIOUS
    <2>1. CASE Next
      <3>1. TypeOK'
        BY <2>1, CallbackType, CameraType, WorkerType, OtherType, Zenon DEF IInv, Next
      <3> QED
        BY <2>1, <3>1, ProtocolStep, HandStep, OrderStep, Zenon DEF IInv
    <2>2. CASE UNCHANGED vars
      <3>1. UNCHANGED dataVars
        BY <2>2 DEF vars, dataVars, queueVars, workerVars, estVars
      <3>2. OrderInv'
        BY <3>1, OrderKept DEF IInv
      <3>3. TypeOK'
        BY <2>2 DEF IInv, TypeOK, vars, cbVars, queueVars, workerVars, estVars, mainVars
      <3>4. WorkerProtocol' /\ MessageInHand'
        BY <2>2 DEF IInv, WorkerProtocol, MessageInHand, vars, cbVars, queueVars,
                    workerVars, estVars, mainVars
      <3> QED BY <3>2, <3>3, <3>4 DEF IInv
    <2> QED BY <2>1, <2>2
  <1> QED BY <1>1, <1>2, PTL DEF Spec

\* The variables of the front end keep their types.
THEOREM TypeCorrect == Spec => []TypeOK
  BY Inductive, PTL DEF IInv

\* There is never a second update worker, and no thread handle is assigned
\* while it still owns a thread.
THEOREM OneWorker == Spec => []OneUpdateWorker
  <1>1. IInv => OneUpdateWorker
    BY DEF IInv, WorkerProtocol, OneUpdateWorker
  <1> QED BY Inductive, <1>1, PTL

\* stop_workers leaves no thread behind.
THEOREM Quiet == Spec => []QuietAfterStop
  <1>1. IInv => QuietAfterStop
    BY DEF IInv, WorkerProtocol, QuietAfterStop
  <1> QED BY Inductive, <1>1, PTL

\* Each camera's measurements reach the estimator in strictly increasing time
\* order, for every number of cameras and every delivery order.
THEOREM CameraOrdered == Spec => []PerCameraOrder
  <1>1. IInv => PerCameraOrder
    BY DEF IInv, OrderInv
  <1> QED BY Inductive, <1>1, PTL

\* With one stream (one camera, or a synchronised stereo pair) that is the
\* global order of everything the estimator receives.
THEOREM StereoOrdered ==
  ASSUME NumCameras \in {1, 2}
  PROVE  Spec => []FedInOrder
  <1>1. \A c \in Streams : c = 0
    BY DEF Streams
  <1>2. IInv => FedInOrder
    <2> SUFFICES ASSUME IInv, NEW i \in 1..Len(fed), NEW j \in 1..Len(fed), i < j
                 PROVE  fed[i].ts <= fed[j].ts
      BY DEF FedInOrder
    <2>1. fed[i] \in Frame /\ fed[j] \in Frame
      BY DEF IInv, TypeOK
    <2>2. fed[i].cam = fed[j].cam
      BY <1>1, <2>1, Zenon DEF Frame
    <2>3. fed[i].ts \in Int /\ fed[j].ts \in Int
      BY <2>1, ConstTypes DEF Frame
    <2> QED BY <2>2, <2>3 DEF IInv, OrderInv, PerCameraOrder
  <1> QED BY Inductive, <1>2, PTL

------------------------------------------------------------------------------
(* RosFrontend implements FrameDelivery *)

queued == {camera_queue[i] : i \in 1..Len(camera_queue)}
handed == fed \o camera_message

\* Accepting a measurement is an abstract Accept.
LEMMA RefineAccept ==
  ASSUME IInv, NEW f \in Frame, CameraCallback(f)
  PROVE  Delivery!Accept(f)
  <1>1. f.ts > camera_last_timestamp[f.cam] /\ f.cam \in Streams /\ f.ts \in Int
    BY NewerThanLast, ConstTypes DEF CameraCallback, IInv, Frame
  <1>2. camera_last_timestamp[f.cam] \in Int
    BY <1>1, ConstTypes DEF IInv, TypeOK
  <1>3. \A g \in Frame : g.ts \in Int
    BY ConstTypes DEF Frame
  <1>4. \A g \in queued : g.cam = f.cam => g.ts < f.ts
    <2> SUFFICES ASSUME NEW i \in 1..Len(camera_queue), camera_queue[i].cam = f.cam
                 PROVE  camera_queue[i].ts < f.ts
      BY DEF queued
    <2>1. camera_queue[i] \in Frame
      BY DEF IInv, TypeOK
    <2> QED BY <1>1, <1>2, <1>3, <2>1 DEF IInv, OrderInv, QueueBelowLast
  <1>5. \A i \in 1..Len(handed) : handed[i].cam = f.cam => handed[i].ts < f.ts
    <2> SUFFICES ASSUME NEW i \in 1..Len(handed), handed[i].cam = f.cam
                 PROVE  handed[i].ts < f.ts
      OBVIOUS
    <2>1. fed \in Seq(Frame) /\ camera_message \in Seq(Frame)
      BY DEF IInv, TypeOK
    <2>2. CASE i <= Len(fed)
      <3>1. i \in 1..Len(fed) /\ handed[i] = fed[i] /\ fed[i] \in Frame
        BY <2>1, <2>2 DEF handed
      <3> QED BY <1>1, <1>2, <1>3, <3>1 DEF IInv, OrderInv, FedBelow
    <2>3. CASE i > Len(fed)
      <3>1. PICK k \in 1..Len(camera_message) : handed[i] = camera_message[k]
        BY <2>1, <2>3 DEF handed
      <3>2. camera_message[k] \in Frame
        BY <2>1
      <3> QED BY <1>1, <1>2, <1>3, <3>1, <3>2 DEF IInv, OrderInv, HandOrder
    <2> QED BY <2>1, <2>2, <2>3 DEF handed
  <1>6. queued' = queued \cup {f}
    <2>1. TypeOK /\ PushSorted(f)
      BY DEF IInv, CameraCallback
    <2> QED BY <2>1, PushType DEF queued
  <1>7. handed' = handed
    BY DEF CameraCallback, workerVars, estVars, handed
  <1> QED BY <1>4, <1>5, <1>6, <1>7 DEF Delivery!Accept, queued, handed

\* Popping a ready measurement is the abstract Deliver of it.
LEMMA RefinePop ==
  ASSUME IInv, WorkerPop, FrontReady
  PROVE  \E f \in Frame : Delivery!Deliver(f)
  <1> DEFINE q == camera_queue
  <1>1. /\ camera_message' = <<q[1]>> /\ camera_queue' = Tail(q) /\ fed' = fed
    BY DEF WorkerPop, estVars
  <1>2. /\ q \in Seq(Frame) /\ Len(q) \in Nat /\ Len(q) > 0 /\ camera_message = <<>>
        /\ fed \in Seq(Frame)
    BY DEF IInv, TypeOK, FrontReady, WorkerPop, MessageInHand
  <1>3. 1 \in 1..Len(q) /\ q[1] \in Frame
    BY <1>2
  <1>4. \A i \in 2..Len(q) : Before(q[1], q[i])
    BY <1>2 DEF IInv, OrderInv, QueueOrder
  <1>5. \A i \in 2..Len(q) : q[i] # q[1]
    <2>1. q[1].ts \in Int /\ q[1].cam \in Int
      BY <1>3, ConstTypes DEF Frame
    <2> QED BY <1>4, <2>1 DEF Before
  <1>6. queued' = queued \ {q[1]}
    <2>1. queued = {q[1]} \cup {q[i] : i \in 2..Len(q)}
      BY <1>2 DEF queued
    <2>2. /\ Len(camera_queue') = Len(q) - 1
          /\ \A i \in 1..(Len(q) - 1) : camera_queue'[i] = q[i + 1]
      BY <1>1, <1>2
    <2>3. queued' = {q[i + 1] : i \in 1..(Len(q) - 1)}
      BY <2>2 DEF queued
    <2>4. {q[i + 1] : i \in 1..(Len(q) - 1)} = {q[i] : i \in 2..Len(q)}
      <3>1. ASSUME NEW x \in {q[i + 1] : i \in 1..(Len(q) - 1)}
            PROVE  x \in {q[i] : i \in 2..Len(q)}
        <4>1. PICK i \in 1..(Len(q) - 1) : x = q[i + 1]
          OBVIOUS
        <4>2. i + 1 \in 2..Len(q)
          BY <1>2
        <4> QED BY <4>1, <4>2
      <3>2. ASSUME NEW x \in {q[i] : i \in 2..Len(q)}
            PROVE  x \in {q[i + 1] : i \in 1..(Len(q) - 1)}
        <4>1. PICK i \in 2..Len(q) : x = q[i]
          OBVIOUS
        <4>2. i - 1 \in 1..(Len(q) - 1) /\ (i - 1) + 1 = i
          BY <1>2
        <4> QED BY <4>1, <4>2
      <3> QED BY <3>1, <3>2
    <2> QED BY <1>5, <2>1, <2>3, <2>4
  <1>7. \A g \in queued \ {q[1]} : Before(q[1], g)
    BY <1>2, <1>4 DEF queued
  <1>8. handed' = Append(handed, q[1])
    <2>1. handed = fed
      BY <1>2 DEF handed
    <2>2. handed' = fed \o <<q[1]>>
      BY <1>1 DEF handed
    <2> QED BY <1>2, <1>3, <2>1, <2>2
  <1>9. q[1] \in queued
    BY <1>3 DEF queued
  <1>10. PICK f \in Frame : f = q[1]
    BY <1>3
  <1>11. Delivery!Deliver(f)
    BY <1>6, <1>7, <1>8, <1>9, <1>10
    DEF Delivery!Deliver, Delivery!Before, Before, queued, handed
  <1> QED BY <1>11

\* Feeding moves the message from the hand to the log: a stutter.
LEMMA RefineFeed ==
  ASSUME IInv, WorkerFeed
  PROVE  UNCHANGED <<queued, handed>>
  <1>1. /\ fed' = Append(fed, camera_message[1]) /\ camera_message' = <<>>
        /\ camera_queue' = camera_queue
    BY DEF WorkerFeed, queueVars
  <1>2. /\ camera_message \in Seq(Frame) /\ Len(camera_message) = 1
        /\ camera_message[1] \in Frame /\ fed \in Seq(Frame)
    <2>1. /\ camera_message \in Seq(Frame) /\ Len(camera_message) <= 1
          /\ fed \in Seq(Frame) /\ worker = "feed" /\ camera_message # <<>>
      BY DEF IInv, TypeOK, MessageInHand, WorkerFeed
    <2>2. Len(camera_message) = 1
      BY <2>1, EmptySeq
    <2> QED BY <2>1, <2>2
  <1>3. camera_message = <<camera_message[1]>>
    BY <1>2
  <1>4. fed \o <<camera_message[1]>> = Append(fed, camera_message[1])
    BY <1>2
  <1>5. handed' = Append(fed, camera_message[1])
    BY <1>1, <1>2 DEF handed
  <1> QED BY <1>1, <1>3, <1>4, <1>5 DEF queued, handed

\* The front end implements ordered, exactly-once delivery.
THEOREM Implements == Spec => ImplementsDelivery
  <1>1. Init => Delivery!Init
    BY DEF Init, Delivery!Init
  <1>2. IInv /\ [Next]_vars => [Delivery!Next]_(Delivery!deliveryVars)
    <2> SUFFICES ASSUME IInv, [Next]_vars
                 PROVE  Delivery!Next \/ UNCHANGED <<queued, handed>>
      BY DEF Delivery!deliveryVars, queued, handed
    <2>1. ASSUME NEW f \in Frame, CameraCallback(f)
          PROVE  Delivery!Next
      BY <2>1, RefineAccept DEF Delivery!Next
    <2>2. CASE WorkerPop /\ FrontReady
      BY <2>2, RefinePop DEF Delivery!Next
    <2>3. CASE WorkerFeed
      BY <2>3, RefineFeed
    <2>4. CASE \/ \E f \in Frame : CameraConversionFails(f)
               \/ \E t \in ImuStamps : InertialCallback(t)
               \/ JoinPrevious \/ SpawnWorker \/ JoinInCallback
               \/ WorkerCount \/ WorkerBound \/ WorkerCheck \/ WorkerClear \/ WorkerExit
               \/ (WorkerPop /\ ~FrontReady)
               \/ ImageThreadStep \/ RosShutdown
               \/ RequestStop \/ JoinUpdateThread \/ JoinImageThread \/ Destroy
      <3>1. UNCHANGED <<camera_queue, camera_message, fed>>
        BY <2>4, Zenon DEF queueVars, workerVars, estVars, CameraConversionFails,
           InertialCallback, JoinPrevious, SpawnWorker, JoinInCallback, WorkerCount,
           WorkerBound, WorkerCheck, WorkerPop, WorkerClear, WorkerExit, ImageThreadStep,
           RosShutdown, RequestStop, JoinUpdateThread, JoinImageThread, Destroy
      <3> QED BY <3>1 DEF queued, handed
    <2>5. CASE UNCHANGED vars
      BY <2>5 DEF vars, queueVars, workerVars, estVars, queued, handed
    <2> QED
      BY <2>1, <2>2, <2>3, <2>4, <2>5, Zenon DEF Next, Callbacks, Worker, Shutdown
  <1> QED BY Inductive, <1>1, <1>2, PTL DEF Spec, ImplementsDelivery, Delivery!Spec
------------------------------------------------------------------------------
\* What a worker goes by is the stamp of a reading the estimator has, and what it
\* holds is older than the bound it computed from it.
Covered ==
    /\ callback_stamp <= imu_newest /\ worker_stamp <= imu_newest
    /\ worker = "feed" => camera_message[1].ts < timestamp_imu_inC

\* Each step of a callback or the worker keeps that.
LEMMA CoveredStep ==
  ASSUME TypeOK, MessageInHand, Covered, [Next]_vars
  PROVE  Covered'
<1> USE DEF cbVars, queueVars, workerVars, estVars, mainVars
<1>0. /\ imu_newest \in Int /\ callback_stamp \in Int /\ worker_stamp \in Int
      /\ NoStamp <= imu_newest /\ NoStamp <= callback_stamp /\ NoStamp <= worker_stamp
  BY ConstantsAssumption DEF TypeOK, NoStamp
<1>1. ASSUME NEW f \in Frame, CameraCallback(f) PROVE Covered'
  BY <1>1 DEF CameraCallback, Covered
<1>2. ASSUME NEW f \in Frame, CameraConversionFails(f) PROVE Covered'
  BY <1>2 DEF CameraConversionFails, Covered
<1>3. ASSUME NEW t \in ImuStamps, InertialCallback(t) PROVE Covered'
  <2>1. t \in Int /\ imu_newest' = IF t > imu_newest THEN t ELSE imu_newest
    BY <1>3, ConstTypes DEF InertialCallback
  <2>2. imu_newest' \in Int /\ imu_newest <= imu_newest' /\ t <= imu_newest'
    BY <1>0, <2>1
  <2>3. callback_stamp' = callback_stamp \/ callback_stamp' = t
    BY <1>3 DEF InertialCallback
  <2>4. callback_stamp' <= imu_newest' /\ worker_stamp <= imu_newest'
    BY <1>0, <2>1, <2>2, <2>3 DEF Covered
  <2> QED BY <1>3, <2>4 DEF InertialCallback, Covered
<1>4. CASE JoinPrevious
  BY <1>4 DEF JoinPrevious, Covered
<1>5. CASE SpawnWorker
  BY <1>0, <1>5 DEF SpawnWorker, Covered
<1>6. CASE JoinInCallback
  BY <1>6 DEF JoinInCallback, Covered
<1>7. CASE WorkerCount \/ WorkerBound \/ WorkerCheck \/ WorkerFeed \/ WorkerClear \/ WorkerExit
  BY <1>7 DEF WorkerCount, WorkerBound, WorkerCheck, WorkerFeed, WorkerClear, WorkerExit, Covered
<1>8. CASE WorkerPop
  <2>1. CASE FrontReady
    <3>1. camera_message' = <<camera_queue[1]>> /\ timestamp_imu_inC' = timestamp_imu_inC
      BY <1>8, <2>1 DEF WorkerPop
    <3>2. camera_message'[1].ts < timestamp_imu_inC'
      BY <2>1, <3>1 DEF FrontReady
    <3> QED BY <1>8, <3>2 DEF WorkerPop, Covered
  <2>2. CASE ~FrontReady
    BY <1>8, <2>2 DEF WorkerPop, Covered
  <2> QED BY <2>1, <2>2
<1>9. CASE ImageThreadStep \/ RosShutdown \/ RequestStop \/ JoinImageThread \/ Destroy
  BY <1>9 DEF ImageThreadStep, RosShutdown, RequestStop, JoinImageThread, Destroy, Covered
<1>10. CASE JoinUpdateThread
  BY <1>10 DEF JoinUpdateThread, Covered
<1>11. CASE UNCHANGED vars
  BY <1>11 DEF vars, Covered
<1> QED BY <1>1, <1>2, <1>3, <1>4, <1>5, <1>6, <1>7, <1>8, <1>9, <1>10, <1>11
        DEF Next, Callbacks, Worker, Shutdown

\* A frame is handed to the estimator only when a reading beyond it was fed, under
\* the offset the worker computed its bound with, for every number of cameras and
\* every course of the calibration (callback_inertial, ROS2Visualizer.cpp).
THEOREM FramesCovered == Spec => []CoveredByImu
<1>1. Init => Covered
  BY DEF Init, Covered, NoStamp
<1>2. IInv /\ Covered /\ [Next]_vars => Covered'
  BY CoveredStep DEF IInv
<1>3. IInv /\ Covered => CoveredByImu
  <2> SUFFICES ASSUME IInv, Covered, worker = "feed", timestamp_imu_inC = worker_stamp - calib_dt
               PROVE  camera_message[1].ts + calib_dt < imu_newest
    BY DEF CoveredByImu
  <2>1. worker_stamp \in Int /\ imu_newest \in Int /\ calib_dt \in Int
    BY ConstTypes DEF IInv, TypeOK
  <2>2. camera_message[1].ts \in Int
    <3>1. camera_message # <<>> /\ camera_message \in Seq(Frame)
      BY DEF IInv, TypeOK, MessageInHand
    <3>2. camera_message[1] \in Frame
      BY <3>1
    <3> QED BY <3>2, ConstTypes DEF Frame
  <2> QED BY <2>1, <2>2 DEF Covered
<1> QED BY <1>1, <1>2, <1>3, Inductive, PTL DEF Spec
==============================================================================
