--------------------------- MODULE FastPropagate ---------------------------
(***************************************************************************)
(* The odometry at inertial rate: Propagator::fast_state_propagate runs in *)
(* the IMU callback on a cached copy of the estimate, while the update     *)
(* worker, started by earlier callbacks, changes the estimate and then     *)
(* invalidates the copy.  No lock protects the estimate or the cache.      *)
(*                                                                         *)
(* A mean or a covariance is the time it is an estimate for and the number *)
(* of corrections that went into it; times are inertial readings, one per  *)
(* tick.  The filter is initialised and past its first second.             *)
(***************************************************************************)
EXTENDS Integers

CONSTANTS
    MaxTime,      \* bound on the inertial stamps
    MaxUpdates,   \* bound on the corrections of a run
    Offsets,      \* values of the estimated calib_dt_CAMtoIMU
    Threading     \* what params.use_multi_threading_subs may be

ASSUME FastPropagateAssumption ==
    /\ MaxTime \in Nat \ {0, 1} /\ MaxUpdates \in Nat
    /\ Offsets \subseteq Int /\ Threading \subseteq BOOLEAN

VARIABLES
    imu,        \* the step of the IMU callback
    stamp,      \* the IMU message it handles or handled last
    worker,     \* the step of the update worker
    bound,      \* timestamp_imu_inC: the stamp it was started with, less the offset
    frame,      \* the camera frame it handles or handled last
    timestamp,  \* state->_timestamp
    mean,       \* state->_imu
    cov,        \* state->_Cov
    offset,     \* state->_calib_dt_CAMtoIMU
    cache,      \* cache_imu_valid, cache_state_time, _est, _covariance, cache_t_off,
                \* and whether a prediction has been made from it (history)
    out,        \* the answer to the latest message asked for (history)
    threaded    \* params.use_multi_threading_subs

state == <<timestamp, mean, cov, offset>>
vars  == <<imu, stamp, worker, bound, frame, state, cache, out, threaded>>

Estimate(t, n) == [t |-> t, n |-> n]

Init ==
    /\ imu = "idle" /\ worker = "off" /\ frame = 1
    /\ timestamp = 1 /\ mean = Estimate(1, 0) /\ cov = Estimate(1, 0)
    /\ offset \in Offsets /\ stamp \in 2..MaxTime /\ 1 + offset < stamp
    /\ bound = stamp - offset
    /\ cache = [valid |-> FALSE, time |-> 0, mean |-> mean, cov |-> cov, off |-> 0,
                used |-> FALSE]
    /\ out = [done |-> TRUE, asked |-> stamp, at |-> stamp, again |-> TRUE]
    /\ threaded \in Threading

------------------------------------------------------------------------------
(* The IMU callback: visualize_odometry, then starting the worker *)

ImuArrive ==
    /\ imu = "idle" /\ stamp < MaxTime
    /\ threaded \/ worker = "off"
    /\ stamp' = stamp + 1 /\ imu' = "check"
    /\ UNCHANGED <<worker, bound, frame, state, cache, out, threaded>>

\* fast_state_propagate looks whether the cache is valid ...
Check ==
    /\ imu = "check"
    /\ imu' = IF cache.valid THEN "predict" ELSE "time"
    /\ UNCHANGED <<stamp, worker, bound, frame, state, cache, out, threaded>>

\* ... and fills it field by field from the estimate.
FillTime ==
    /\ imu = "time" /\ imu' = "mean"
    /\ cache' = [cache EXCEPT !.time = timestamp]
    /\ UNCHANGED <<stamp, worker, bound, frame, state, out, threaded>>

FillMean ==
    /\ imu = "mean" /\ imu' = "cov"
    /\ cache' = [cache EXCEPT !.mean = mean]
    /\ UNCHANGED <<stamp, worker, bound, frame, state, out, threaded>>

\* Mutant of FilledCov: the covariance is left from the last prediction.
FilledCovOld == cache.cov

\* The covariance that enters the cache.
FilledCov == cov

FillCov ==
    /\ imu = "cov" /\ imu' = "offset"
    /\ cache' = [cache EXCEPT !.cov = FilledCov]
    /\ UNCHANGED <<stamp, worker, bound, frame, state, out, threaded>>

FillOffset ==
    /\ imu = "offset" /\ imu' = "predict"
    /\ cache' = [cache EXCEPT !.off = offset, !.valid = TRUE, !.used = FALSE]
    /\ UNCHANGED <<stamp, worker, bound, frame, state, out, threaded>>

\* Mutant of AfterPrediction: the offset stays with the copy.
AfterPredictionKept(time0, time1) ==
    [cache EXCEPT !.time = time1, !.used = TRUE, !.mean.t = @ + (time1 - time0),
                  !.cov.t = @ + (time1 - time0)]

\* The cache moves with the prediction, and its time is IMU time from then on.
AfterPrediction(time0, time1) ==
    [cache EXCEPT !.time = time1, !.off = 0, !.used = TRUE,
                  !.mean.t = @ + (time1 - time0), !.cov.t = @ + (time1 - time0)]

\* Readings exist up to this message; beyond them the last one is stretched.
Selects(time0, time1) == time0 < time1 /\ time0 < stamp

\* Without readings between the two there is no odometry: the copy is past the
\* message, by the camera's clock or by the sensor's.
Predict ==
    /\ imu = "predict" /\ imu' = "launch"
    /\ LET time0 == cache.time + cache.off
           time1 == stamp + cache.off
       IN IF Selects(time0, time1)
          THEN /\ cache' = AfterPrediction(time0, time1)
               /\ out' = [done |-> TRUE, asked |-> stamp, at |-> time1,
                          again |-> cache.used]
          ELSE /\ out' = [done |-> FALSE, asked |-> stamp, again |-> cache.used,
                          at |-> IF time0 < cache.time THEN cache.time ELSE time0]
               /\ UNCHANGED cache
    /\ UNCHANGED <<stamp, worker, bound, frame, state, threaded>>

\* thread_update_running.exchange(true): start a worker or let it run.
Launch ==
    /\ imu = "launch" /\ imu' = "idle"
    /\ IF worker = "off" THEN worker' = "take" /\ bound' = stamp - offset
       ELSE UNCHANGED <<worker, bound>>
    /\ UNCHANGED <<stamp, frame, state, cache, out, threaded>>

------------------------------------------------------------------------------
(* The update worker *)

\* A frame is taken when an IMU message after it has been fed.
FrameReady(c) == c < bound

TakeFrame(c) ==
    /\ worker = "take" /\ frame < c /\ FrameReady(c)
    /\ frame' = c /\ worker' \in {"zupt", "propagate"}
    /\ UNCHANGED <<imu, stamp, bound, state, cache, out, threaded>>

NoFrame ==
    /\ worker = "take" /\ worker' = "off"
    /\ UNCHANGED <<imu, stamp, bound, frame, state, cache, out, threaded>>

\* EKFUpdate: the covariance, then the variables; a calibrated offset is one.
CorrectCov(from, to) ==
    /\ worker = from /\ cov.n < MaxUpdates
    /\ cov' = [cov EXCEPT !.n = @ + 1] /\ worker' = to
    /\ UNCHANGED <<imu, stamp, bound, frame, timestamp, mean, offset, cache, out, threaded>>

CorrectMean(from, to) ==
    /\ worker = from
    /\ mean' = [mean EXCEPT !.n = cov.n] /\ offset' \in Offsets /\ worker' = to
    /\ UNCHANGED <<imu, stamp, bound, frame, timestamp, cov, cache, out, threaded>>

\* Propagator::invalidate_cache.
Invalidated == [cache EXCEPT !.valid = FALSE]

Invalidate(from, to) ==
    /\ worker = from /\ worker' = to
    /\ cache' = Invalidated
    /\ UNCHANGED <<imu, stamp, bound, frame, state, out, threaded>>

\* An accepted zero-velocity update: correct, move the time, invalidate.
ZuptTime ==
    /\ worker = "zuptTime" /\ worker' = "zuptInvalidate"
    /\ timestamp' = frame
    /\ mean' = [mean EXCEPT !.t = frame] /\ cov' = [cov EXCEPT !.t = frame]
    /\ UNCHANGED <<imu, stamp, bound, frame, offset, cache, out, threaded>>

\* propagate_and_clone: the mean, the covariance, then the time.
PropagateMean ==
    /\ worker = "propagate" /\ worker' = "propagateCov"
    /\ mean' = [mean EXCEPT !.t = frame]
    /\ UNCHANGED <<imu, stamp, bound, frame, timestamp, cov, offset, cache, out, threaded>>

PropagateCov ==
    /\ worker = "propagateCov" /\ worker' = "propagateTime"
    /\ cov' = [cov EXCEPT !.t = frame]
    /\ UNCHANGED <<imu, stamp, bound, frame, timestamp, mean, offset, cache, out, threaded>>

\* Then the update, or the return for want of clones.
PropagateTime ==
    /\ worker = "propagateTime" /\ worker' \in {"update", "invalidate", "take"}
    /\ timestamp' = frame
    /\ UNCHANGED <<imu, stamp, bound, frame, mean, cov, offset, cache, out, threaded>>

\* After the MSCKF update and after every batch of SLAM features the cache is
\* invalidated; then comes another batch, delayed_init, or the end.
NextUpdate ==
    /\ worker = "next" /\ worker' \in {"update", "delayed", "take"}
    /\ UNCHANGED <<imu, stamp, bound, frame, state, cache, out, threaded>>

Updates ==
    \/ CorrectCov("update", "updateMean") \/ CorrectMean("updateMean", "invalidate")
    \/ Invalidate("invalidate", "next") \/ NextUpdate
    \/ CorrectCov("delayed", "delayedMean") \/ CorrectMean("delayedMean", "take")

ZeroVelocity ==
    \/ CorrectCov("zupt", "zuptMean") \/ CorrectMean("zuptMean", "zuptTime")
    \/ ZuptTime \/ Invalidate("zuptInvalidate", "take")

Next ==
    \/ ImuArrive \/ Check \/ FillTime \/ FillMean \/ FillCov \/ FillOffset
    \/ Predict \/ Launch
    \/ \E c \in 1..MaxTime : TakeFrame(c)
    \/ NoFrame \/ ZeroVelocity \/ PropagateMean \/ PropagateCov \/ PropagateTime
    \/ Updates

Spec == Init /\ [][Next]_vars
------------------------------------------------------------------------------
(* Properties *)

TypeOK ==
    /\ imu \in {"idle", "check", "time", "mean", "cov", "offset", "predict", "launch"}
    /\ stamp \in 1..MaxTime /\ bound \in Int /\ frame \in 1..MaxTime
    /\ timestamp \in 1..MaxTime /\ offset \in Offsets
    /\ mean.n \in 0..MaxUpdates /\ cov.n \in 0..MaxUpdates
    /\ cache.valid \in BOOLEAN /\ cache.time \in Int

\* A callback that finds a valid cache between measurements finds the current
\* estimate in it, with all corrections made so far ("propagate a clone of the
\* current IMU state").
CacheCurrent ==
    imu = "check" /\ cache.valid /\ worker \in {"off", "take"}
        => cache.mean.n = mean.n

\* With the worker joined by the callback that starts it, the copy that is
\* predicted from is one estimate, the newest, at the time the cache says under
\* the newest offset: its fields belong together, whichever of the worker's paths
\* came before.
JoinedCacheIsExact ==
    ~threaded /\ imu = "predict" =>
        /\ cache.mean = cache.cov /\ cache.mean.n = mean.n
        /\ cache.mean.t + offset = cache.time + cache.off

\* How far a copy may be past a message: from its first prediction less than the
\* offset; as filled, less than the offset the other way, or than what an update
\* has moved it by since the frame was let through.
MayBePast(n) ==
    \/ \E p \in Offsets : n < p
    \/ \E o, p \in Offsets \cup {0} : n + 1 < p - o

\* The odometry of a message is for its stamp ("Time to propagate to (IMU clock
\* frame)"), but for the first one of a copy, which the code shifts by the offset;
\* and a message gets none only if the copy is already past it, by no more than
\* the offsets explain.  So with offsets of 0 and -1 none is left out, however
\* the worker's steps fall between the callback's.
OdometryFollows ==
    /\ TypeOK
    /\ out.done => out.at - out.asked \in (IF out.again THEN {0} ELSE Offsets)
    /\ ~out.done => out.asked <= out.at /\ MayBePast(out.at - out.asked)
==============================================================================
