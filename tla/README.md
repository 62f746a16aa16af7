# Verification of VisualInertialOdometry_ros2_gazebo

TLA+ models of the visual-inertial odometry stack in this repository: a modified
OpenVINS (`src/open_vins`), the ORB-SLAM3 ROS 2 node (`src/ORB_SLAM`) and the
HW290 / stereo camera drivers.  TLC checks the models on small instances, TLAPS
proves the main results for every value of the constants.  Everything is
translated from the source; docs and comments are only quoted, where the code is
found to disagree with them.

Contents: [the system](#the-system-and-its-parts), [the modules](#the-modules),
[the runs](#the-runs), [fairness](#fairness), [the proofs](#the-proofs),
[where code and comments part](#where-code-and-comments-part),
[what is not modelled](#what-is-not-modelled), [the plan](#the-plan).

## The system and its parts

| part | state it keeps | operations | how it interacts |
|---|---|---|---|
| ROS 2 front end, `ov_msckf/src/ros/ROS2Visualizer.cpp`, `run_subscribe_msckf.cpp` | camera queue, per-camera rate limiter, worker flag, two owned threads, stop flag | IMU callback, camera callbacks, update worker, image thread, shutdown | runs on the executor; feeds `VioManager`; the IMU callback starts the worker |
| Filter manager, `ov_msckf/src/core/VioManager*.cpp` | initialisation flags, `camera_queue_init`, has-moved flag, counters | feed IMU, feed camera, `try_to_initialize` and its thread, the feature and propagation update | called by the worker and the IMU callback; calls every class below |
| State and covariance, `ov_msckf/src/state/State*.cpp` | variables with ids, covariance, clones, SLAM features | clone, initialize, marginalize, augment_clone, EKF propagation and update | written by propagator and updaters only |
| Propagator, `Propagator.cpp` | IMU buffer, fast-prediction cache | feed_imu, select_imu_readings, propagate_and_clone, fast_state_propagate | the IMU callback writes the buffer and predicts while the worker propagates |
| Zero-velocity updater, `UpdaterZeroVelocity.cpp` | its own IMU buffer, last update time, count | feed_imu, try_update | replaces the update while the platform stands still |
| MSCKF and SLAM updaters, `UpdaterMSCKF.cpp`, `UpdaterSLAM.cpp` | none besides the state | update, delayed_init, change_anchors | delete used features from the database, change anchors before a clone is marginalised |
| Feature database and trackers, `ov_core/src/feat`, `ov_core/src/track` | features by id, per-camera last frame, id counter | feed, update_feature, queries, cleanup | trackers write, updaters read and mark for deletion |
| Initialiser, `ov_init/src/init` | IMU vector, feature database | feed_imu, static and dynamic initialisation | runs in a detached thread while IMU callbacks go on |
| HW290 serial node and its firmware, `ov_hw290` | byte buffer, device clock, rate windows | receive, clock update, publish | firmware -> serial line -> `imu_protocol.hpp` -> ROS topic |
| Stereo splitter, `ov_hw290/src/stereo_splitter.cpp` | time-stamp calibration | split one frame into two | publishes the pair the front end synchronises |
| ORB-SLAM3 stereo-inertial node, `orb_slam_ros2` | IMU queue, pending stereo queue, last stamps | IMU and stereo callbacks, tracking timer, reset, shutdown | two executor threads and the SLAM library |
| ORB stereo worker pool, `benchmark/orb_stereo_workers.hpp` | generation counter, finished counter, two condition variables | run, stop, work | the SLAM front end hands it one left and one right job per frame |
| Simulation, evaluation, calibration and launch tooling | files | batch programs | not part of the running estimator |

Measurements flow one way: firmware, serial node and splitter publish; the front
end queues frames until readings beyond them exist, and its worker hands them to
the filter manager, which initialises or propagates, clones, updates and
marginalises.  Three things run beside that flow: the IMU callback (stores
readings, trims buffers, predicts odometry), the detached initialisation thread
and the image thread.  The hard behaviours follow from there:

- **Concurrency without locks.** Estimate, prediction cache and several buffers
  are shared by the callback and the worker; flags tested one after the other
  decide who may write.
- **Ordering.** Cameras of several topics, two cameras of one instant, camera and
  IMU clocks that differ by a calibrated offset of either sign.
- **Long histories.** Ids into the covariance, anchors of landmarks, measurements
  that may be used once, over any mix of cloning, updating and marginalising.
- **Failure.** Slow and failed initialisation, images that do not convert, jobs
  that throw, a serial line that loses records, a microcontroller that resets.
- **Liveness.** Frames waiting in a queue, flags that must be taken back, joins at
  shutdown.

What makes each part correct, and the lines where it can go wrong, is the list of
hazards in `PROJECT.json`; each names the properties that cover it.

## The modules

| component | modules | abstract specification | proofs |
|---|---|---|---|
| front end | `RosFrontend` | `FrameDelivery` | `RosFrontendProofs` |
| covariance bookkeeping | `StateCov` | | `FilterProofs` |
| filter update | `FilterWindow` | | `FilterProofs` |
| initialisation, inertial buffers | `VioInit` | | `InertialProofs` |
| fast prediction | `FastPropagate` | | `FastPropagateProofs` |
| stereo worker pool | `StereoWorkers` | `JobPair` | `StereoWorkersProofs` |
| serial IMU | `SerialImu` | | `SerialImuProofs` |
| ORB stereo-inertial node, splitter | `OrbFeed` | `InertialBatches` | `OrbFeedProofs` |
| selection of readings | `ImuSelect` | its properties `WholePeriod`, `Exact` | `InertialProofs` |
| feature trackers | `FeatureTracks` | | `FeatureTracksProofs` |

`FilterProofs` and `InertialProofs` each extend two components that share lemmas: the
filter's state and its update work on the same variables and clones, the buffer that
`VioInit` fills is the one `ImuSelect` reads.  (So `StateCov` and `ImuSelect` name
their specification `CovSpec` and `SelectSpec`.)

`MC<module>` instantiates a module for TLC, `MC<module>_<run>.cfg` gives a run its
constants.  An operator whose comment says "Mutant of X" is X with a plausible
bug; no specification uses it, and TLC finds the named property violated when X is
replaced by it.

The modules meet at assumptions that one establishes and the next relies on:
`RosFrontend` shows that frames reach the estimator in order (one stream) and only
when an IMU reading beyond them exists, which `VioInit`, `FastPropagate` and
`FilterWindow` take for granted; `VioInit` hands `FilterWindow` its initial
states (no clone, or the clones of the catch-up).  `SerialImu!StampsIncrease` is
why the readings `ImuSelect` interpolates between differ in time, and
`ImuSelect!WholePeriod` is why `VioInit` and `FastPropagate` may treat a
propagation as exact once the readings reach back.  `FeatureTracks` gives
`FilterWindow` its features: an id names one point and does not come back.

### RosFrontend

One action per callback and per step of each thread of `ROS2Visualizer.cpp`.
`CameraCallback` is `callback_stereo`/`callback_monocular` up to the sorted push
into `camera_queue`, `CameraConversionFails` the early return after the rate
limiter has stored the stamp.  `InertialCallback`, `JoinPrevious`, `SpawnWorker`
and `JoinInCallback` are the steps of `callback_inertial`: the exchange of
`thread_update_running`, joining the previous thread, starting one, and waiting
for it when `use_multi_threading_subs` is off.  `WorkerCount` to `WorkerExit` are
the steps of the worker between its lock releases; `WorkerFeed` may change the
camera/IMU offset, as online calibration does.  `RosShutdown`, `RequestStop`,
`JoinUpdateThread`, `JoinImageThread` and `Destroy` are the end of
`run_subscribe_msckf.cpp`.  The publishers only read and are left out.
`FrameDelivery` promises that what is accepted is delivered once, in order.

`CoveredByImu` says that a frame handed over has a reading beyond it; it speaks of
the frames taken while no update of the same drain has moved the time offset, for
the bound is computed once per drain.

### StateCov

Rows of the covariance are labels `<<variable, component>>`, so that "an id points
at its own rows" can be said.  `Construct` is the constructor of `State` one
variable at a time, `Clone`, `Initialize` and `Marginalize` are the operations of
`StateHelper.cpp` that grow or shrink the matrix; `ShiftedId` is the loop that
moves the ids behind a removed block.

### FilterWindow

One measurement from `feed_new_camera` through the zero-velocity test,
propagation, the selection of features, MSCKF update, SLAM update, delayed
initialisation, the cleanup of the database, the change of anchors and the
marginalisation of the oldest clone: one action per stage, in the code's order,
with its early returns.  Real-valued decisions (tracked, triangulated, gated,
standing still) are free choices.  A measurement is its time; the database
holds an image only once its message was handled (`NewestImage`).  One stream of
messages shows a feature (`CamOf`), in one image or, with `Views` 2, in one or both
images of a pair; the code counts images where the model has times, so that with pairs
every count of times up to twice is a free choice (`Triangulable`, `MaxTracks`,
`IsBest`).  `MinMeas` 2, landmarks of single inverse depth, is modelled for single
images only, where an image is a time.  The initial clones are those of the catch-up,
every `CloneRate`-th image.  Measurements are
assumed in time order, which `RosFrontend` gives for one stream or two
(synchronised) cameras, not for three monocular ones.

### VioInit

Time is counted in IMU readings.  The IMU callback reads `margtimestep` and then
stores and trims (`ReadOldest`, `FeedImu`); the worker reads the flags in the
code's order; the detached thread solves, takes the queue, moves the state
forward over the frames it missed and ends.  Whether an attempt succeeds is free
within the times the two methods need.  `InitTime` and `MaxLag` bound how long an
attempt and a frame take: the code relies on it ("ok as long as the
initialization didn't take too long", `VioManagerHelper.cpp:157`), for readings
are only kept for the initialiser's window meanwhile.

### FastPropagate

`fast_state_propagate` field by field against the worker's corrections,
propagation and invalidations.  An estimate is the time it is for and the number
of corrections in it, so that a copy whose mean and covariance differ, or that
lacks a correction, shows.  The worker's corrections may move the time offset to any of
`Offsets`, and `out` keeps for which time the odometry of the latest message was.  The
offset is added to the requested time although a message's stamp is IMU time
(`Propagator.cpp:154`), and a copy that was predicted from keeps the time it reached.
So the first odometry of a copy is for the stamp shifted by the offset, the later ones
are for their stamps, and a copy that is past a message gives it none.  That is what
`OdometryFollows` says, with how far the copy can be past a message
(`MayBePast`): with offsets of 0 and -1 readings it never is; with a positive one, or
one below -1, messages go without odometry (see
[below](#where-code-and-comments-part)).

### StereoWorkers

One action per critical section of `run`, `work`, `stop` and the constructor, with
spurious wake-ups, jobs that throw and a constructor that fails after one thread.
`JobPair` promises one pair at a time, both jobs finished when `run` returns, and
an exception of that very pair.

### SerialImu

An action takes a sample from the firmware's loop to the end of `receive`:
numbering and stamping, loss, delay, then the checks of the node in their order
(gap, rate, sequence, elapsed time), `DeviceClock::update`, publishing.  Time is counted
in ticks of the device, and a tick lasts `pace` of the host's stamp units: `Unit`, but
for the error of the device's oscillator, which is constant over a run.  It is at most
`Limit`, the 1 % the clock corrects at most (`PacesAssumption`); a device that is further
off is not followed, and up to 20 % the rate checks do not refuse it.  An oscillator
whose rate changes during a run is not modelled.  Counters
are words (`% Word`).  A record is observed after one of `Delays`; a busy host
receives it a `Hold` later, which `receive` makes up for from the bytes behind it.
Records stay in order, and their jitter is at most a fifth of a rate window
(`DelaysAssumption`; one period in the run): with more, the first rate window may refuse
a healthy sensor, as it should a bad line.  What the pace takes from the limits of the
rate it takes from the jitter they allow.
A reset is taken to
come after more samples than faults could hide and before the number is 2^31
ahead, which is 248 days.

### OrbFeed

Two callback groups of `stereo_imu_node.cpp`: `ImuCallback` in one; pairs, the timer
and the reset service, one after the other, in the other.  The timer's callback takes
`imu_mutex_` three times, and an action is what happens between two releases:
`TimerTakesPair` (is the head of the queue covered?), `Select` (trim the deque, choose
the readings), then `Skip` or `Commit` (store the sent time) and `Process`.  The
viewer, a signal or the destructor may come between any two.  The pairs come from
`stereo_splitter.cpp` (`Split`, `Calibrate`; `FrameRefused` is its early return before
the calibration, `FrameLost` a frame whose images do not arrive as a pair): stamps may jump forward once, when
thirty ages are collected, and step back when the driver restarts.  A deque of
readings with increasing times is the set of its times.  `InertialBatches` is the
promise to the SLAM core: frames in order, readings sent once and in order, a batch
that spans its frame.

### ImuSelect

`select_imu_readings` one loop turn at a time, on the times of the readings, which may
repeat.  A selected reading remembers which two it was interpolated from, so that
"between neighbours" and "divides by zero" can be said.

### FeatureTracks

An image's detection and tracking in `TrackKLT`, `TrackDescriptor` and `TrackAruco`:
`DetectKlt` drops points that came too close and fills up, `Number` gives one id (the
two workers of binocular tracking interleave here), `NumberPair` gives a matched pair
one id, `Store` and `StoreStereo` track into the new image and keep `pts_last` and
`ids_last`.  Where a point lies is the cell of `grid_2d_close`, the grid that keeps
points apart; what is seen, lost, masked, matched or moved is free, up to `MaxMasked`
masked corners of tags in an image.  An image that shows two copies of one tag is left
out: `TrackAruco` gives both the same ids, and nothing in it could tell them apart.

## The runs

All runs finish within five minutes on two cores.  Type invariants are checked as a
part of `Bounded`, `NeverExits`, `OdometryFollows`, `DroppedExact` and
`IdNamesPoint`; in the other modules they are proved.

| run | instance | what it shows |
|---|---|---|
| `ros_stereo` | stereo, stamps 1..3, IMU stamps 1, 2, 3, 5, offset in -1..1 changed by updates, worker joined or in the background | one worker, measurements in order and covered by readings, nothing lost, refinement of `FrameDelivery`, waiting frames are fed, shutdown ends |
| `cov_layout` | a constructed state, three clones, two landmarks | each id points at its own rows |
| `filter` | two points, a tag corner, two streams of pairs, window 2, one landmark, five instants | information is used once, anchors stay in the window, limits hold, no exit |
| `filter_single` | one point, one corner, single inverse depth | **violation**: a corner's measurements enter an update twice |
| `init_start` | twelve readings, offsets -1 and 2, slack 1, window 4 | readings cover every propagation, one writer, the catch-up fits, the flag is taken back |
| `fast_odometry` | joined and background worker, offsets -2 and 2 between which updates move, three corrections | a joined cache is one exact estimate; odometry is for the stamp asked, or for it shifted by the offset, or left out as the offsets explain |
| `fast_race` | background worker | **violation**: a valid cache lacks corrections |
| `workers` | two callers, three pairs | refinement of `JobPair`, live contexts, `run` and `stop` return |
| `serial_line` | twelve samples, a device fast or slow by one in forty, jitter of a period, two faults, both counters wrap | stamps increase and follow the device, drops are counted, no break is stamped over, jitter stops no healthy sensor |
| `orb_feed` | six readings, pairs at three instants that may jump by one and step back once, a queue of two, buffers of four to five | refinement of `InertialBatches`, no reading lost but for the named limits, a skipped frame costs nothing, every pair leaves the queue |
| `imu_select` | every ascending buffer of at most five readings over six instants, every pair of boundaries | the period is covered, nothing in it left out, no division by zero |
| `tracker` | three trackers, three configurations, two cells, three images, five ids | an id names one point, is shared by pairs only, does not come back; points in one cell part |

Why the bounds are enough:

- *Front end.* Every step of the worker is short of memory but for the queue, so
  three stamps give an older, a current and a later frame of a camera; the proofs
  extend the safety results to every number, and to several monocular cameras
  (`CameraOrdered`).
- *Covariance.* Two blocks behind a removed one show a wrong shift; proved for all.
- *Filter.* Five instants with a window of two let a feature be seen, lost,
  marginalised over twice, and a landmark be initialised, fail twice and come back;
  two streams give two messages of one instant, and a pair may show a feature in one
  image or both.  Proved for all numbers of points,
  cameras and clones; that information is used once, for a feature that is
  triangulated from a single measurement (`MinMeas` 1, as in the run).
- *Initialisation.* Twelve readings hold two failed attempts and a success with
  frames waiting in between, and the filter running afterwards past a whole window.
  The run's delays satisfy the theorem's condition (`Timely`, below) with nothing to
  spare.  With `InitTime` 3, or with `MaxLag` 3 and 14 readings, TLC finds a
  propagation whose readings are gone; that is the environment bound quoted above
  and not a property of the code.
- *Prediction.* A stale or mixed cache takes two corrections; a third lets the
  worker come back to it.  With the offsets -2 and 2 a copy can be past a message for each
  of the reasons `MayBePast` names; six stamps leave messages to ask before, at and
  after it.
- *Pool.* Two callers are the least that compete; three pairs give a generation
  before, at and after any wake-up.
- *Serial line.* `Unit` 40, `Paces` 39 and 41, `Limit` 10, `Block` 3, `Gain` 2 and
  `Window` 6 samples keep the real ratios the
  properties depend on (a block of at most two times the gain, as 100 to 50; a
  correction below a sample's time; two checks for gaps with a hole between them);
  twelve samples are a warm-up, three blocks and two windows, long enough for the
  device's pace to take the stamps beyond what jitter alone could.  The fault "delivery
  below 80 Hz for three windows" needs more faults than the bound: it is part of the
  model, but this run does not reach it.  The proofs hold for every length and bound.
- *ORB feed.* Three pair stamps give one before, at and after a jump; six readings
  exceed every buffer (`MaxBuffer` 5, `MaxBatch` 4, `CutBatch` 3, `FirstCount` 2,
  `Keep` 4), so that each limit is reached, alone and together with a skip or reset.
- *Selection.* Every branch of the loop looks at two neighbouring readings and two
  boundaries; five readings put one before, between and behind them, with a repeated
  time at each place.  Proved for all.
- *Trackers.* Two cells are the least in which points can meet and part; three images
  are the one that starts, the one that tracks and the one in which a lost id could
  come back; five ids leave room after both workers numbered their first points.

Deadlock is checked in `cov_layout`, the one system without an end.  The others really
end (shutdown, the process exits, the bound on time, pairs or images, a function that
returns), so their runs say `CHECK_DEADLOCK FALSE`; that the pool and the shutdown do
not hang before their end is what their liveness properties say.

## Fairness

- `RosFrontend!FairSpec`: weak fairness of the callbacks' own steps, the worker,
  the image thread and the shutdown, since each is a thread the scheduler runs;
  and strong fairness of the arrival of a newest IMU message (callbacks of other
  topics may come first, but the IMU keeps publishing), without which no worker is
  ever started.  Camera messages need none.
- `VioInit!LiveSpec`: weak fairness of the worker's and the thread's steps.  Both
  are threads; an attempt ends because the solvers are bounded in iterations.
- `StereoWorkers!LiveSpec`: weak fairness of each thread's next step, of each woken
  caller and of the join.  A sleeping thread is only guaranteed to run once it was
  notified; spurious wake-ups get no fairness.
- `OrbFeed!LiveSpec`: weak fairness of the timer's callback (a 2 ms wall timer on an
  executor thread that goes on once it has begun) and of the arrival of readings: the
  sensor goes on to deliver.  Pairs, the reset and the shutdown get none.

## The proofs

TLAPS checks the following for every value of the constants that satisfies the
named assumption of the module.  Each is `Spec => []P` from an inductive
invariant, unless it says otherwise.

- **RosFrontendProofs** (from `ConstantsAssumption`).  `IInv` is the type
  invariant, `WorkerProtocol` (which combinations of callback step, worker step,
  flag and handle are possible: what makes one worker), `MessageInHand` and
  `OrderInv`: the queue is sorted, each queued frame is older than its camera's
  limiter and newer than every frame of its camera fed before.  The last part is
  why order per camera survives the release of the lock between popping and
  feeding.  Results: `TypeCorrect`, `OneWorker`, `Quiet`, `CameraOrdered`,
  `StereoOrdered` (one stream: the order is total), `Implements` (refinement of
  `FrameDelivery`, each step maps to a step or a stutter).  `FramesCovered` adds
  `Covered`: the worker goes by the stamp of a reading that was fed, and the frame in
  its hand is older than the bound it computed from that stamp.
- **FilterProofs**, the layout (from `CovAssumption`).  `CovInv` adds to the layout that the
  constructor's variables enter in order and lie before all others, so that a
  block that is removed is never before them.  `PushBackLayout` and
  `MarginalizeLayout` are the two lemmas about growing and shrinking.  Results:
  `CovTypes`, `OwnRows`, `NoneStray`, `FixedInPlace` (an action property).
- **FilterProofs**, the update (from `WindowAssumption`).  `WindowInv` is
  `Typed`, `Sizes` (how many clones there are at each stage: one more than the window
  from cloning until the marginalisation), `StandsAtClone` (after propagation the state
  stands at its newest clone, unless the platform stood still),
  `Anchored` (between the change of anchors and the removal of the oldest clone no
  landmark is anchored there; elsewhere every anchor is a clone) and `Counted` (the
  landmarks with those about to be added stay below the limit).  Results:
  `UpdatesHaveClone`, `AnchorsStay`, `WithinLimits`, `MeasurementsLeave`.
  `NoInformationTwice` needs more: what the database holds is unused, but for the
  features of a list the running update has taken from (`UsedOnce`); new measurements
  are newer than all that was used (`Seen`); the lists share no feature two of them
  could use (`ListsApart`), because landmarks have no measurement that waits from an
  earlier update (`NothingWaits`).  It assumes `MinMeas = 1`: a landmark's waiting
  measurement is then always used or deleted in the update that meets it.  With 2 the
  result is false, see [below](#where-code-and-comments-part).
- **StereoWorkersProofs** (from `StereoWorkersAssumption`).  `IInv`
  counts: `finished` is the number of threads that are done with the generation;
  one caller is inside; a thread at work has the job of that caller.  Results:
  `TypeCorrect`, `JobsHaveLiveContext`, `Implements` (refinement of `JobPair`).
- **SerialImuProofs**, the order of stamps (from `SerialImuAssumption`).  A correction
  takes back less than `Limit * delta`, which is below the `Unit * delta` that has
  passed, and the checks leave `delta` positive; with the types of the clock as the
  invariant `ClockTyped` this gives `StampsInOrder`, an action property.
- **SerialImuProofs**, the rest (also from `PacesAssumption`, the device's rate error is
  at most what the clock corrects; `LimitsAssumption`, the constants of the code as they
  relate to each other; `FaultsAssumption`, no silence hides a whole turn of the
  counters; and `DelaysAssumption`, delays and their jitter are bounded).  `CountInv`
  says how far the sensor's counters are ahead of the last sample taken (`Follows`), as
  words and in truth, and after a restart that its numbers are behind: `DropsCounted`.
  `InStep` bounds the clock's error: a negative minimum steers at most `Block` times,
  by a share of `1/Gain` each, so no further back than twice what the clock was ahead
  when the minimum was seen (`Steered`, `Block <= 2 * Gain`); meanwhile the device runs
  away by its rate error, and once the minimum is `Gain` times what it runs away between
  two samples the correction outweighs that: `ClockInStep`, a bound that does not grow
  with the length of the run.  `InWindow`
  says when a rate window began, for the source and for the host, and how many samples
  it holds; a gap of exactly `ResetGap`, which both other checks pass, ends the window,
  and its source was too slow: `BreaksSeen`, an action property.  `Steady` says by how
  much the first record of a window and the last one were late; each slow window in a
  row costs another fifth of a window, and three are more than a record can be late:
  `HealthyRunsOn`.
- **OrbFeedProofs** (from `OrbAssumption`).  The type invariant, and with it that the
  readings selected are unsent, that there is at most one at or behind the frame, and
  that the frame is newer than the last: what `Spans` tests outside the lock is still
  true at `Commit`.  Results: `TypeCorrect`, `Implements` (refinement of
  `InertialBatches`).  `ReadingsInv` says what becomes of a reading: the buffer is the
  newest part of what was received (`Newer`); what has left it was sent, was older than
  `Keep` before a frame, fell to the limit of the buffer or to the trim before a first
  frame (`Lost`); and what is selected lacks no reading for any other reason, even
  when readings arrive, and overflow the buffer, between the sections (`Complete`,
  `Enough`).  It gives two action properties: `EveryReading`, `NoneStarved`.
- **FastPropagateProofs** (from `FastPropagateAssumption`).  For a joined worker
  `IInv` says how far the worker is with mean, covariance and time, that a valid copy is
  whole, that it lacks a correction only on the paths that still invalidate it, and that
  nobody refills it before the worker has ended (so `delayed_init`, which does not
  invalidate, does no harm).  `PInv` needs no join: the callback is busy with a newer
  message than the one that launched the worker, and frames are older than that one.
  Results: `JoinedExact` and `Predicted`
  (`OdometryFollows`), for every set of offsets and with nothing assumed of them: a copy
  holds a time between those `MayBePast` allows, whether it was filled from a frame the
  worker went for under an earlier offset or left by the prediction before.
- **InertialProofs**, initialisation (from `InitAssumption`).  `StartInv` is `Typed`,
  `OneThread` (which stages of the worker and of the thread go with which flags),
  `InOrder` (frames queued during an attempt are newer than the one it started from and
  ascend), `Lag` (how far a frame is behind the readings) and `WindowKept` (the buffer
  reaches back to the initialiser's window, or to the oldest clone).  Results:
  `OneThreadWrites`, `StartNeverExits`, `FullWindow`, `CatchUpKeepsClones`.
  `MovesCovered` adds what the delays may be: `Attempt` and `Retention` bound how old
  the state can be when the thread ends, and `Timely` says that the readings kept reach
  that far.  The other results hold for any delays.
- **InertialProofs**, selection (from `SelectAssumption`).  `SelectInv` has one part for
  each stage: in the loop the selection begins at the start and ends at the last reading
  passed; behind it the steps ascend; in the second loop the part already passed is
  strict.  `ExactInv` says what is selected in the loop: the start and every reading
  passed since, of which only the end may be missing behind the loop (`LoopExact`).
  Results: `SelectTypes`, `CoversPeriod`, `LeavesNothingOut`, for buffers of every
  length.
- **FeatureTracksProofs** (from `CountsAssumption`, `BoundAssumption`,
  `ConfigAssumption` and `TagsAssumption`).  Every id in work is one the camera holds
  or is new (`KnownOrNew`), what two workers hold is apart (`Separate`), what a pair
  holds is the same (`Paired`).  `NameInv` adds that the points of a camera, and those
  in work, have ids of their own: a new id is above every id in use, and the corners of
  a tag have numbers no other tag's corners have.  `Twins` follows a detection: a
  point in work is one the camera had or has a new id, and of those it had no two
  share a cell.  Results: `NoReturn` (an action property), `SharedOnlyByPairs`, `IdsName`
  and `DriftedPart` (an action property).

Only model-checked: all liveness (fairness and ENABLED are out of the prover's
reach).  Every invariant and action property of the passing runs is stated by a
theorem.

## Where code and comments part

Two runs end in a violation; `PROJECT.json` quotes the lines.

1. `filter_single`: a tag corner whose first measurement is at the marginalisation
   time is appended to `feats_slam` twice.  With a larger `MinMeas` it takes no corner:
   with two camera streams, a landmark of one of them, whose single measurement waits
   while an image of the other is handled until it is at the marginalisation time, is put
   in the MSCKF list (`VioManager.cpp:378`, `:504`) and again in the list of the SLAM
   update (`:469-473`), so that `InformationUsedOnce` fails for `MinMeas` 2, one point,
   two streams and a window of 2.
2. `fast_race`: nothing invalidates the prediction cache after `delayed_init`, and
   a fill that ends after an invalidation overwrites it.

Met while modelling, and stated without a run of their own.

Front end and filter:

- `ROS2Visualizer.cpp:511-514`: the worker checks once that every camera has a frame
  queued and then drains the queue, so with three monocular cameras a later frame can
  be fed before an earlier one of a camera that has run empty, although the comment
  says "to ensure we propagate in the correct order".
- A silent monocular camera lets the queue grow without a bound
  (`ROS2Visualizer.cpp:583`).
- `VioManager.cpp:172` hands the oldest clone's camera time to `feed_imu`, whose
  parameter is "in IMU clock" (`Propagator.h:63`); with an offset below minus the
  0.10 s of slack, readings are trimmed that the next propagation needs.  `BothSigns`
  of `init_start` stays within the slack.
- An offset that online calibration raises inside the worker's loop lets a frame
  through before its IMU data; propagation then extrapolates the two newest readings
  (`Propagator.cpp:362`).
- With a background worker a copy can take mean and covariance of different moments.
- `Propagator.h:120-121` documents the time of a prediction as "Time to propagate to
  (IMU clock frame)"; `Propagator.cpp:154-155` adds the cached offset to it.  The first
  odometry after a fill is for the stamp plus the offset, though it is published with
  the stamp; with an offset of a reading or more the messages the copy is then past
  select no readings and get none, and with one below minus a reading so do messages
  whose shifted stamp is older than the frame the copy was filled at.  `OdometryFollows` states what does hold.
- `VioManagerHelper.cpp:85` queues the time of every message that arrives while the
  filter initialises; three monocular cameras whose images carry one time put it there
  several times, and the catch-up then asks `propagate_and_clone` to stand still, which
  exits (`Propagator.cpp:39-47`).  `VioInit` takes frame times as increasing.
- `VioManager.cpp:464` speaks of updates that failed "in a row"; the count of failures
  is never reset, so that two failures with successes between them remove a landmark.
- The static initialiser returns an IMU time that is stored as a camera time
  (`StaticInitializer.cpp:134`).
- The detached initialisation thread can outlive the manager; that thread, the IMU
  callback and the trackers touch the same vectors and maps without a lock, and it
  sets `num_features` while a tracker may read it.
- A measurement kept from a zero-velocity image hides the loss of a landmark for one
  update (`VioManager.cpp:477`); the early returns of the zero-velocity updater reset
  its time but not its count (`UpdaterZeroVelocity.cpp:69`).
- `UpdaterSLAM.cpp:411` takes `featid < max_aruco_features` for a tag, all other places
  `<= 4 * max_aruco_features`: three of a tag's four corners are treated as points
  there, with the points' noise and gate.

Selection of readings:

- The stretch at the end divides by zero if the two newest readings carry one time
  (`Propagator.cpp:362`).  The HW290 node publishes increasing stamps
  (`SerialImu!StampsIncrease`), so that it takes another driver.

ORB node:

- The trim before a first frame looks at the newest reading, not at the frame
  (`stereo_imu_node.cpp:314-316`): a first frame that lags the readings by more than
  two seconds may lose the ones it needs and be skipped, although the comment above
  says "a frame is never starved".  `NotStarved` excuses this case only.
- A pair whose images differ in size is dropped in `process_stereo` after the sent time
  has been advanced, so its readings never reach the core (`:367`).

Trackers:

- `TrackKLT.cpp:752` says "if it is *not* a stereo point, then we will not delete the
  feature"; the code deletes exactly those.  `:608` says that two equal features are
  merged; both are kept.  `:721` starts the right image's mask from the left one.
  `:142` ("we didn't have enough to do ransac") is only reached without any point:
  with one to nine, `perform_matching` returns zeros.  `:308` tests `>` where the other
  three tests use `>=`.
- `TrackDescriptor.cpp:432-465` tests two grids that nothing marks, so that points of
  a pair are never kept apart.
- `TrackAruco.cpp:135` lets the tag `num_aruco` pass, whose first corner has the id of
  tag 0's second; `TagsAssumption` excludes it, as the default configuration does.

## What is not modelled

- The mathematics of the estimator (Jacobians, preintegration, triangulation,
  initialisation): real arithmetic, abstracted to choices of its outcomes.
- Image processing in the trackers, their regions for detection and the masks as
  images; what is seen is a choice.  `TrackSIM`, which takes ids from a simulation.
- The bytes of the serial protocol and its checksum (a corrupt record is a lost
  one), I2C set-up, the firmware's own health counter.
- The publishers of the front end, which only read.
- The simulator, evaluation, calibration, benchmarks, launch files and the rover
  simulation: sequential programs around files.
- Third-party code (AprilTag) and `OPENVINS_HANDOVER`, an earlier copy.
- The ORB node's publishers, its gate on the inertial initialisation and the files it
  writes; the ORB node without inertial data and the live viewer, which pass each pair
  on from one callback; the cutting of images in the splitter.
- The inside of the zero-velocity updater (disparity and the test over the reals);
  `FilterWindow` takes its decision as a choice.
- The values in the covariance (`EKFPropagation`, `EKFUpdate`).

The implementation's line count includes the hand-over copy of OpenVINS, plotting
headers, the simulators and the least-squares code: what is modelled is the part that
keeps state over calls or runs concurrently.

## The plan

Done, in this order of importance: `RosFrontend`/`FrameDelivery` with proofs,
`StateCov`, `FilterWindow`, `VioInit` and `FastPropagate` with proofs,
`StereoWorkers`/`JobPair` with proofs, `SerialImu` with proofs,
`OrbFeed`/`InertialBatches`, `ImuSelect` and `FeatureTracks` with proofs.

Next:

1. `ZeroVelocity`: `try_update` with its buffer, count and disparity, and what
   several monocular streams do to its interval (`UpdaterZeroVelocity.cpp:86`).
2. The publishing gate of the ORB node over resets and maps
   (`stereo_imu_node.cpp:425`).
3. Composition of `FeatureTracks` and `FilterWindow` over the feature database.
