------------------------ MODULE FastPropagateProofs ------------------------
(***************************************************************************)
(* Proofs about FastPropagate for runs of any length and any number of     *)
(* corrections: with the worker joined the cache is one estimate and the   *)
(* newest, however the worker moves the time offset; with a background     *)
(* worker too, the odometry of a message is for its stamp but for the      *)
(* first one of a copy, and a message gets none only when the copy is past *)
(* it by what the offsets explain.                                         *)
(***************************************************************************)
EXTENDS FastPropagate, TLAPS

Estimates == [t : Int, n : Int]
Caches    == [valid : BOOLEAN, time : Int, mean : Estimates, cov : Estimates, off : Int,
              used : BOOLEAN]

Typed ==
    /\ stamp \in Int /\ bound \in Int /\ frame \in Int /\ timestamp \in Int
    /\ mean \in Estimates /\ cov \in Estimates /\ cache \in Caches
    /\ offset \in Offsets /\ threaded \in BOOLEAN

\* The callback waits for the worker it has started.
Waits == worker # "off" => imu = "idle"

\* How far the worker is with the mean, the covariance and the time.
EstimateWhole ==
    /\ worker \in {"updateMean", "delayedMean", "zuptMean"} =>
           mean.t = cov.t /\ mean.t = timestamp
    /\ worker = "propagateCov"  => mean.n = cov.n
    /\ worker \in {"propagateTime", "zuptTime"} => mean = cov
    /\ worker \in {"propagateCov", "propagateTime"} => mean.t = frame
    /\ worker \notin {"updateMean", "delayedMean", "zuptMean", "zuptTime",
                      "propagateCov", "propagateTime"} =>
           mean = cov /\ mean.t = timestamp

\* Where the worker is going to invalidate the copy for what it has done.
Corrected == worker \in {"invalidate", "zuptTime", "zuptInvalidate"}

\* A valid copy is whole at the time it says ...
CopyWhole ==
    cache.valid =>
        /\ cache.mean = cache.cov
        /\ cache.mean.t + offset = cache.time + cache.off \/ Corrected

\* ... and lacks no correction, but for those the worker will invalidate it for.
CopyNewest == cache.valid => cache.mean.n = mean.n \/ Corrected

\* After an invalidation nobody refills it before the worker has ended.
StaysInvalid == worker \in {"next", "delayed", "delayedMean"} => ~cache.valid

\* How far the callback is with filling.
Filling ==
    /\ imu \in {"time", "mean", "cov", "offset"} => ~cache.valid
    /\ imu \in {"mean", "cov", "offset"} => cache.time = timestamp
    /\ imu \in {"cov", "offset"} => cache.mean = mean
    /\ imu = "offset" => cache.cov = cov
    /\ imu = "predict" => cache.valid

Joined == Waits /\ EstimateWhole /\ CopyWhole /\ CopyNewest /\ StaysInvalid /\ Filling

IInv == Typed /\ (~threaded => Joined)

------------------------------------------------------------------------------
LEMMA InitTyped == Init => IInv
  BY FastPropagateAssumption DEF Init, IInv, Typed, Joined, Waits, EstimateWhole,
     CopyWhole, CopyNewest, StaysInvalid, Filling, Estimates, Caches, Estimate

\* One lemma for the steps of the callback, one for those of the worker.
CallbackSteps == \/ ImuArrive \/ Check \/ FillTime \/ FillMean \/ FillCov \/ FillOffset
                 \/ Predict \/ Launch

WorkerSteps == \/ \E c \in 1..MaxTime : TakeFrame(c)
               \/ NoFrame \/ ZeroVelocity \/ PropagateMean \/ PropagateCov
               \/ PropagateTime \/ Updates

LEMMA PredictStep ==
  ASSUME Typed, Predict
  PROVE  /\ cache' \in Caches
         /\ cache'.valid = cache.valid
         /\ cache'.mean.n = cache.mean.n
         /\ cache.mean = cache.cov => cache'.mean = cache'.cov
         /\ cache.mean.t + offset = cache.time + cache.off =>
                cache'.mean.t + offset = cache'.time + cache'.off
<1> DEFINE time0 == cache.time + cache.off
           time1 == stamp + cache.off
<1>1. CASE Selects(time0, time1)
  <2>1. cache' = AfterPrediction(time0, time1)
    BY <1>1 DEF Predict
  <2>2. cache' = [valid |-> cache.valid, time |-> time1,
                  mean |-> [t |-> cache.mean.t + (time1 - time0), n |-> cache.mean.n],
                  cov |-> [t |-> cache.cov.t + (time1 - time0), n |-> cache.cov.n],
                  off |-> 0, used |-> TRUE]
    BY <2>1 DEF AfterPrediction, Typed, Caches, Estimates
  <2> QED
    BY <2>2, FastPropagateAssumption DEF Typed, Caches, Estimates
<1>2. CASE ~Selects(time0, time1)
  <2>1. cache' = cache
    BY <1>2 DEF Predict
  <2> QED
    BY <2>1 DEF Typed
<1> QED BY <1>1, <1>2

LEMMA CallbackTyped ==
  ASSUME Typed, CallbackSteps
  PROVE  Typed'
<1> USE FastPropagateAssumption DEF Typed, state
<1>1. CASE ImuArrive
  BY <1>1 DEF ImuArrive
<1>2. CASE Check
  BY <1>2 DEF Check
<1>3. CASE FillTime
  BY <1>3 DEF FillTime, Caches
<1>4. CASE FillMean
  BY <1>4 DEF FillMean, Caches
<1>5. CASE FillCov
  BY <1>5 DEF FillCov, FilledCov, Caches
<1>6. CASE Predict
  <2>1. cache' \in Caches
    BY <1>6, PredictStep
  <2> QED BY <1>6, <2>1 DEF Predict
<1>7. CASE Launch
  BY <1>7 DEF Launch
<1>8. CASE FillOffset
  BY <1>8 DEF FillOffset, Caches
<1> QED BY <1>1, <1>2, <1>3, <1>4, <1>5, <1>6, <1>7, <1>8 DEF CallbackSteps

LEMMA CorrectTyped ==
  ASSUME Typed, NEW from, NEW to, CorrectCov(from, to) \/ CorrectMean(from, to)
  PROVE  Typed'
<1>1. CASE CorrectCov(from, to)
  BY <1>1 DEF CorrectCov, Typed, Estimates
<1>2. CASE CorrectMean(from, to)
  BY <1>2 DEF CorrectMean, Typed, Estimates
<1> QED BY <1>1, <1>2

LEMMA InvalidateTyped ==
  ASSUME Typed, NEW from, NEW to, Invalidate(from, to)
  PROVE  Typed'
  BY DEF Invalidate, Invalidated, Typed, Caches, state

LEMMA WorkerTyped ==
  ASSUME Typed, WorkerSteps
  PROVE  Typed'
<1>1. ASSUME NEW c \in 1..MaxTime, TakeFrame(c) PROVE Typed'
  BY <1>1, FastPropagateAssumption DEF TakeFrame, Typed, state
<1>2. CASE NoFrame
  BY <1>2 DEF NoFrame, Typed, state
<1>3. CASE ZeroVelocity
  <2>1. CASE ZuptTime
    BY <2>1 DEF ZuptTime, Typed, Estimates
  <2> QED BY <1>3, <2>1, CorrectTyped, InvalidateTyped DEF ZeroVelocity
<1>4. CASE PropagateMean
  BY <1>4 DEF PropagateMean, Typed, Estimates
<1>5. CASE PropagateCov
  BY <1>5 DEF PropagateCov, Typed, Estimates
<1>6. CASE PropagateTime
  BY <1>6 DEF PropagateTime, Typed
<1>7. CASE Updates
  <2>1. CASE NextUpdate
    BY <2>1 DEF NextUpdate, Typed, state
  <2> QED BY <1>7, <2>1, CorrectTyped, InvalidateTyped DEF Updates
<1> QED BY <1>1, <1>2, <1>3, <1>4, <1>5, <1>6, <1>7 DEF WorkerSteps

------------------------------------------------------------------------------
\* With the worker joined a step of the callback finds it "off", and the
\* estimate at rest.
LEMMA CallbackJoined ==
  ASSUME Typed, Joined, ~threaded, CallbackSteps
  PROVE  Joined'
<1> USE FastPropagateAssumption
<1>1. CASE ImuArrive
  BY <1>1 DEF ImuArrive, state, Joined, Waits, EstimateWhole, CopyWhole, CopyNewest,
     Corrected, StaysInvalid, Filling
<1>2. CASE Check
  BY <1>2 DEF Check, state, Joined, Waits, EstimateWhole, CopyWhole, CopyNewest,
     Corrected, StaysInvalid, Filling
<1>3. CASE FillTime
  <2>1. worker = "off" /\ worker' = "off"
    BY <1>3 DEF FillTime, Joined, Waits
  <2>2. ~cache'.valid /\ cache'.time = timestamp'
    BY <1>3 DEF FillTime, Joined, Filling, Typed, Caches, state
  <2> QED
    BY <1>3, <2>1, <2>2 DEF FillTime, state, Joined, Waits, EstimateWhole, CopyWhole,
       CopyNewest, Corrected, StaysInvalid, Filling
<1>4. CASE FillMean
  <2>1. worker = "off" /\ worker' = "off"
    BY <1>4 DEF FillMean, Joined, Waits
  <2>2. ~cache'.valid /\ cache'.time = timestamp' /\ cache'.mean = mean'
    BY <1>4 DEF FillMean, Joined, Filling, Typed, Caches, state
  <2> QED
    BY <1>4, <2>1, <2>2 DEF FillMean, state, Joined, Waits, EstimateWhole, CopyWhole,
       CopyNewest, Corrected, StaysInvalid, Filling
<1>5. CASE FillCov
  <2>1. worker = "off" /\ worker' = "off"
    BY <1>5 DEF FillCov, Joined, Waits
  <2>2. /\ ~cache'.valid /\ cache'.time = timestamp'
        /\ cache'.mean = mean' /\ cache'.cov = cov'
    BY <1>5 DEF FillCov, FilledCov, Joined, Filling, Typed, Caches, state
  <2> QED
    BY <1>5, <2>1, <2>2 DEF FillCov, state, Joined, Waits, EstimateWhole, CopyWhole,
       CopyNewest, Corrected, StaysInvalid, Filling
<1>8. CASE FillOffset
  <2>1. worker = "off" /\ worker' = "off"
    BY <1>8 DEF FillOffset, Joined, Waits
  <2>2. mean = cov /\ mean.t = timestamp
    BY <2>1 DEF Joined, EstimateWhole
  <2>3. /\ cache'.valid /\ cache'.mean = mean /\ cache'.cov = cov
        /\ cache'.time = timestamp /\ cache'.off = offset
    BY <1>8 DEF FillOffset, Joined, Filling, Typed, Caches
  <2> QED
    BY <1>8, <2>1, <2>2, <2>3 DEF FillOffset, state, Joined, Waits, EstimateWhole,
       CopyWhole, CopyNewest, StaysInvalid, Filling
<1>6. CASE Predict
  <2>1. worker = "off" /\ worker' = "off"
    BY <1>6 DEF Predict, Joined, Waits
  <2>2. CopyWhole' /\ CopyNewest'
    BY <1>6, <2>1, PredictStep DEF Predict, state, Joined, CopyWhole, CopyNewest, Corrected
  <2> QED
    BY <1>6, <2>1, <2>2 DEF Predict, state, Joined, Waits, EstimateWhole, StaysInvalid,
       Filling
<1>7. CASE Launch
  BY <1>7 DEF Launch, state, Joined, Waits, EstimateWhole, CopyWhole, CopyNewest,
     Corrected, StaysInvalid, Filling
<1> QED BY <1>1, <1>2, <1>3, <1>4, <1>5, <1>6, <1>7, <1>8 DEF CallbackSteps

\* A correction: the covariance first, then the mean; each route ends at an
\* invalidation or began behind one.
LEMMA CorrectCovJoined ==
  ASSUME Typed, Joined, NEW from, NEW to, CorrectCov(from, to),
         <<from, to>> \in {<<"update", "updateMean">>, <<"delayed", "delayedMean">>,
                           <<"zupt", "zuptMean">>}
  PROVE  Joined'
<1>1. imu = "idle"
  BY DEF CorrectCov, Joined, Waits
<1>2. mean = cov /\ mean.t = timestamp
  BY DEF CorrectCov, Joined, EstimateWhole
<1>3. cov'.t = cov.t
  BY DEF CorrectCov, Typed, Estimates
<1>4. EstimateWhole'
  BY <1>2, <1>3 DEF CorrectCov, EstimateWhole
<1>5. CopyNewest' /\ StaysInvalid'
  BY DEF CorrectCov, Joined, CopyNewest, Corrected, StaysInvalid
<1> QED
  BY <1>1, <1>4, <1>5 DEF CorrectCov, Joined, Waits, CopyWhole, Corrected, Filling

LEMMA CorrectMeanJoined ==
  ASSUME Typed, Joined, NEW from, NEW to, CorrectMean(from, to),
         <<from, to>> \in {<<"updateMean", "invalidate">>, <<"delayedMean", "take">>,
                           <<"zuptMean", "zuptTime">>}
  PROVE  Joined'
<1>1. imu = "idle"
  BY DEF CorrectMean, Joined, Waits
<1>2. mean.t = cov.t /\ mean.t = timestamp
  BY DEF CorrectMean, Joined, EstimateWhole
<1>3. mean' = cov /\ cov' = cov /\ timestamp' = timestamp
  BY <1>2 DEF CorrectMean, Typed, Estimates
<1>4. EstimateWhole'
  BY <1>2, <1>3 DEF CorrectMean, EstimateWhole
<1>5. CopyNewest' /\ StaysInvalid'
  BY DEF CorrectMean, Joined, CopyNewest, Corrected, StaysInvalid
<1> QED
  BY <1>1, <1>4, <1>5 DEF CorrectMean, Joined, Waits, CopyWhole, Corrected, StaysInvalid,
     Filling

LEMMA InvalidateJoined ==
  ASSUME Typed, Joined, NEW from, NEW to, Invalidate(from, to),
         <<from, to>> \in {<<"invalidate", "next">>, <<"zuptInvalidate", "take">>}
  PROVE  Joined'
<1>1. imu = "idle"
  BY DEF Invalidate, Joined, Waits
<1>2. ~cache'.valid
  BY DEF Invalidate, Invalidated, Typed, Caches
<1> QED
  BY <1>1, <1>2 DEF Invalidate, state, Joined, Waits, EstimateWhole, CopyWhole,
     CopyNewest, Corrected, StaysInvalid, Filling

LEMMA WorkerJoined ==
  ASSUME Typed, Joined, ~threaded, WorkerSteps
  PROVE  Joined'
<1> USE DEF state, Joined, Waits, EstimateWhole, CopyWhole, CopyNewest, Corrected,
            StaysInvalid, Filling
<1>1. ASSUME NEW c \in 1..MaxTime, TakeFrame(c) PROVE Joined'
  BY <1>1 DEF TakeFrame
<1>2. CASE NoFrame
  BY <1>2 DEF NoFrame
<1>3. CASE ZeroVelocity
  <2>1. CASE ZuptTime
    <3>1. mean' = cov' /\ mean'.t = timestamp' /\ mean'.n = mean.n
      BY <2>1 DEF ZuptTime, Typed, Estimates
    <3> QED BY <2>1, <3>1 DEF ZuptTime
  <2>2. CASE CorrectCov("zupt", "zuptMean")
    BY <2>2, CorrectCovJoined
  <2>3. CASE CorrectMean("zuptMean", "zuptTime")
    BY <2>3, CorrectMeanJoined
  <2>4. CASE Invalidate("zuptInvalidate", "take")
    BY <2>4, InvalidateJoined
  <2> QED BY <1>3, <2>1, <2>2, <2>3, <2>4 DEF ZeroVelocity
<1>4. CASE PropagateMean
  <2>1. mean'.n = mean.n /\ cov' = cov /\ mean.n = cov.n /\ mean'.t = frame
    BY <1>4 DEF PropagateMean, Typed, Estimates
  <2> QED BY <1>4, <2>1 DEF PropagateMean
<1>5. CASE PropagateCov
  <2>1. mean' = mean /\ mean.t = frame /\ mean.n = cov.n
    BY <1>5 DEF PropagateCov
  <2>2. cov' = mean
    BY <1>5, <2>1 DEF PropagateCov, Typed, Estimates
  <2> QED BY <1>5, <2>1, <2>2 DEF PropagateCov
<1>6. CASE PropagateTime
  BY <1>6 DEF PropagateTime
<1>7. CASE Updates
  <2>1. CASE NextUpdate
    BY <2>1 DEF NextUpdate
  <2>2. CASE CorrectCov("update", "updateMean") \/ CorrectCov("delayed", "delayedMean")
    BY <2>2, CorrectCovJoined
  <2>3. CASE CorrectMean("updateMean", "invalidate") \/ CorrectMean("delayedMean", "take")
    BY <2>3, CorrectMeanJoined
  <2>4. CASE Invalidate("invalidate", "next")
    BY <2>4, InvalidateJoined
  <2> QED BY <1>7, <2>1, <2>2, <2>3, <2>4 DEF Updates
<1> QED BY <1>1, <1>2, <1>3, <1>4, <1>5, <1>6, <1>7 DEF WorkerSteps

LEMMA NextSplits ==
  ASSUME Next
  PROVE  (CallbackSteps \/ WorkerSteps) /\ (Typed => threaded' = threaded)
<1>1. CallbackSteps \/ WorkerSteps
  BY DEF Next, CallbackSteps, WorkerSteps
<1>2. threaded' = threaded
  BY DEF Next, ImuArrive, Check, FillTime, FillMean, FillCov, FillOffset, Predict, Launch,
     TakeFrame, NoFrame, ZeroVelocity, CorrectCov, CorrectMean, Invalidate, ZuptTime, PropagateMean,
     PropagateCov, PropagateTime, Updates, NextUpdate
<1> QED BY <1>1, <1>2

LEMMA Inductive == IInv /\ [Next]_vars => IInv'
<1> SUFFICES ASSUME IInv, [Next]_vars PROVE IInv'
  OBVIOUS
<1>1. CASE Next
  <2>1. Typed'
    BY <1>1, NextSplits, CallbackTyped, WorkerTyped DEF IInv
  <2>2. ASSUME ~threaded' PROVE Joined'
    BY <1>1, <2>2, NextSplits, CallbackJoined, WorkerJoined DEF IInv
  <2> QED BY <2>1, <2>2 DEF IInv
<1>2. CASE UNCHANGED vars
  BY <1>2 DEF vars, state, IInv, Typed, Joined, Waits, EstimateWhole, CopyWhole,
     CopyNewest, Corrected, StaysInvalid, Filling
<1> QED BY <1>1, <1>2

\* With the worker joined by the callback that starts it, a prediction starts
\* from one whole estimate with every correction in it, at the time the cache
\* says, however updates move the offset and whichever paths the worker took before
\* (Propagator::fast_state_propagate, invalidate_cache).
THEOREM JoinedExact == Spec => []JoinedCacheIsExact
<1>1. Init => IInv
  BY InitTyped
<1>2. IInv /\ [Next]_vars => IInv'
  BY Inductive
<1>3. IInv => JoinedCacheIsExact
  BY DEF IInv, Joined, JoinedCacheIsExact, Waits, CopyWhole, CopyNewest, Corrected, Filling
<1> QED BY <1>1, <1>2, <1>3, PTL DEF Spec

------------------------------------------------------------------------------
(* What the odometry of a message is for, with a background worker too *)

Bounds ==
    /\ imu \in {"idle", "check", "time", "mean", "cov", "offset", "predict", "launch"}
    /\ stamp \in 2..MaxTime /\ frame \in 1..MaxTime
    /\ timestamp \in 1..MaxTime /\ timestamp <= frame
    /\ mean.n \in 0..MaxUpdates /\ cov.n \in 0..MaxUpdates

\* The worker was started by an earlier message than the callback is busy with,
\* under the offset of then, and its frames lie before that one.
Started ==
    /\ \E o \in Offsets : bound + o <= stamp /\ (imu # "idle" => bound + o < stamp)
    /\ \E o \in Offsets : frame + o < stamp /\ (imu # "idle" => frame + o < stamp - 1)

\* While the callback fills the cache nobody can find it valid.
Refill ==
    /\ imu \in {"time", "mean", "cov", "offset"} => ~cache.valid
    /\ imu \in {"mean", "cov", "offset"} => cache.time <= frame

\* A copy that was predicted from is at an earlier message, but for the offset of
\* its first prediction; one as filled is no newer than the worker's frame.
Moved ==
    /\ cache.off = 0
    /\ \E q \in Offsets \cup {0} :
           /\ cache.time <= stamp + q
           /\ imu \in {"check", "predict"} => cache.time < stamp + q

AsFilled == cache.off \in Offsets /\ cache.time <= frame

Copied == cache.valid \/ imu = "predict" => IF cache.used THEN Moved ELSE AsFilled

Answered ==
    /\ out.done => out.at - out.asked \in (IF out.again THEN {0} ELSE Offsets)
    /\ ~out.done => out.asked <= out.at /\ MayBePast(out.at - out.asked)

PInv == Typed /\ Bounds /\ Started /\ Refill /\ Copied /\ Answered

LEMMA InitFollows == Init => PInv
  BY FastPropagateAssumption DEF Init, PInv, Typed, Bounds, Started, Refill, Copied, Answered,
     Estimates, Caches, Estimate

\* The two clocks of a request: when nothing is selected the copy is past it.
LEMMA NotSelected ==
  ASSUME NEW t \in Int, NEW o \in Int, NEW at \in Int, stamp \in Int,
         at = IF t + o < t THEN t ELSE t + o,
         ~Selects(t + o, stamp + o)
  PROVE  stamp <= at
BY DEF Selects

LEMMA PredictFollows ==
  ASSUME PInv, Predict
  PROVE  (Started /\ Refill /\ Copied /\ Answered)'
<1> USE FastPropagateAssumption
<1> DEFINE time0 == cache.time + cache.off
           time1 == stamp + cache.off
<1>1. /\ imu = "predict" /\ imu' = "launch"
      /\ stamp' = stamp /\ bound' = bound /\ frame' = frame
  BY DEF Predict
<1>2. Started' /\ Refill'
  BY <1>1 DEF PInv, Started, Refill
<1>3. cache.time \in Int /\ cache.off \in Int /\ stamp \in Int /\ cache.used \in BOOLEAN
  BY DEF PInv, Typed, Caches
<1>4. IF cache.used THEN Moved ELSE AsFilled
  BY <1>1 DEF PInv, Copied
<1>5. CASE Selects(time0, time1)
  <2>1. /\ cache' = AfterPrediction(time0, time1)
        /\ out' = [done |-> TRUE, asked |-> stamp, at |-> time1, again |-> cache.used]
    BY <1>5 DEF Predict
  <2>2. cache'.time = stamp + cache.off /\ cache'.off = 0 /\ cache'.used
    BY <2>1, <1>3 DEF AfterPrediction, PInv, Typed, Caches, Estimates
  <2>3. cache.off \in Offsets \cup {0} /\ (cache.used => cache.off = 0)
    BY <1>4 DEF Moved, AsFilled
  <2>4. ~cache.used => cache.off \in Offsets
    BY <1>4 DEF AsFilled
  <2>5. Moved'
    BY <1>1, <1>3, <2>2, <2>3 DEF Moved
  <2>6. Answered'
    BY <1>3, <2>1, <2>3, <2>4 DEF Answered
  <2> QED BY <1>2, <2>2, <2>5, <2>6 DEF Copied
<1>6. CASE ~Selects(time0, time1)
  <2> DEFINE at == IF time0 < cache.time THEN cache.time ELSE time0
  <2>1. /\ cache' = cache
        /\ out' = [done |-> FALSE, asked |-> stamp, again |-> cache.used, at |-> at]
    BY <1>6 DEF Predict
  <2>2. at \in Int /\ stamp <= at
    BY <1>3, <1>6, NotSelected
  <2>3. CASE cache.used
    <3>1. PICK q \in Offsets \cup {0} : cache.time < stamp + q
      BY <1>1, <1>4, <2>3 DEF Moved
    <3>2. at = cache.time
      BY <1>3, <1>4, <2>3 DEF Moved
    <3>3. q \in Offsets /\ at - stamp < q
      BY <1>3, <2>2, <3>1, <3>2
    <3>4. Answered'
      <4>1. MayBePast(at - stamp)
        BY <3>3 DEF MayBePast
      <4> QED BY <2>1, <2>2, <4>1 DEF Answered
    <3>5. Moved'
      BY <1>1, <1>4, <2>1, <2>3, <1>3 DEF Moved
    <3> QED BY <1>2, <2>1, <2>3, <3>4, <3>5 DEF Copied
  <2>4. CASE ~cache.used
    <3>1. PICK o \in Offsets : frame + o < stamp - 1
      BY <1>1 DEF PInv, Started
    <3>2. cache.off \in Offsets /\ cache.time <= frame /\ frame \in Int /\ o \in Int
      BY <1>4, <2>4, <3>1 DEF AsFilled, PInv, Typed
    <3>3. PICK p \in Offsets \cup {0} : at = cache.time + p
      BY <1>3, <3>2
    <3>4. p \in Int /\ (at - stamp) + 1 < p - o
      BY <1>3, <3>1, <3>2, <3>3
    <3>5. MayBePast(at - stamp)
      BY <3>1, <3>3, <3>4 DEF MayBePast
    <3>6. Answered'
      BY <2>1, <2>2, <3>5 DEF Answered
    <3>7. AsFilled'
      BY <1>1, <2>1, <3>2 DEF AsFilled
    <3> QED BY <1>2, <2>1, <2>4, <3>6, <3>7 DEF Copied
  <2> QED BY <1>3, <2>3, <2>4
<1> QED BY <1>5, <1>6

LEMMA CallbackBounds ==
  ASSUME PInv, CallbackSteps
  PROVE  Bounds'
<1> USE FastPropagateAssumption DEF PInv, Bounds, state
<1>1. CASE ImuArrive
  BY <1>1 DEF ImuArrive
<1>2. CASE Check \/ FillTime \/ FillMean \/ FillCov \/ FillOffset
  BY <1>2 DEF Check, FillTime, FillMean, FillCov, FillOffset
<1>3. CASE Predict \/ Launch
  BY <1>3 DEF Predict, Launch
<1> QED BY <1>1, <1>2, <1>3 DEF CallbackSteps

LEMMA CallbackFollows ==
  ASSUME PInv, CallbackSteps
  PROVE  (Started /\ Refill /\ Copied /\ Answered)'
<1> USE FastPropagateAssumption
<1>0. /\ stamp \in Int /\ frame \in Int /\ bound \in Int /\ cache \in Caches
      /\ offset \in Offsets /\ timestamp <= frame
  BY DEF PInv, Typed, Bounds
<1>1. CASE ImuArrive
  <2>1. /\ stamp' = stamp + 1 /\ imu = "idle" /\ imu' = "check"
        /\ bound' = bound /\ frame' = frame /\ cache' = cache /\ out' = out
    BY <1>1 DEF ImuArrive
  <2>2. Started'
    <3>1. PICK o \in Offsets : bound + o <= stamp
      BY DEF PInv, Started
    <3>2. PICK p \in Offsets : frame + p < stamp
      BY DEF PInv, Started
    <3>3. bound' + o < stamp' /\ frame' + p < stamp' - 1
      BY <1>0, <2>1, <3>1, <3>2
    <3> QED BY <2>1, <3>1, <3>2, <3>3, <1>0 DEF Started
  <2>3. Copied'
    BY <1>0, <2>1 DEF PInv, Copied, Moved, AsFilled, Caches
  <2> QED BY <2>1, <2>2, <2>3 DEF PInv, Refill, Answered
<1>2. CASE Check
  <2>1. /\ stamp' = stamp /\ imu = "check"
        /\ imu' = IF cache.valid THEN "predict" ELSE "time"
        /\ bound' = bound /\ frame' = frame /\ cache' = cache /\ out' = out
    BY <1>2 DEF Check
  <2>2. Started'
    BY <2>1 DEF PInv, Started
  <2>3. Copied'
    BY <2>1 DEF PInv, Copied, Moved, AsFilled
  <2> QED BY <2>1, <2>2, <2>3 DEF PInv, Refill, Answered
<1>3. CASE FillTime
  <2>1. /\ stamp' = stamp /\ imu = "time" /\ imu' = "mean"
        /\ bound' = bound /\ frame' = frame /\ out' = out
    BY <1>3 DEF FillTime
  <2>2. cache'.time = timestamp /\ cache'.valid = cache.valid /\ ~cache.valid
    BY <1>0, <1>3 DEF FillTime, Caches, PInv, Refill
  <2> QED BY <1>0, <2>1, <2>2 DEF PInv, Started, Refill, Copied, Answered
<1>4. CASE FillMean
  <2>1. /\ stamp' = stamp /\ imu = "mean" /\ imu' = "cov"
        /\ bound' = bound /\ frame' = frame /\ out' = out
    BY <1>4 DEF FillMean
  <2>2. cache'.time = cache.time /\ cache'.valid = cache.valid /\ ~cache.valid
    BY <1>0, <1>4 DEF FillMean, Caches, PInv, Refill
  <2> QED BY <1>0, <2>1, <2>2 DEF PInv, Started, Refill, Copied, Answered
<1>5. CASE FillCov
  <2>1. /\ stamp' = stamp /\ imu = "cov" /\ imu' = "offset"
        /\ bound' = bound /\ frame' = frame /\ out' = out
    BY <1>5 DEF FillCov
  <2>2. cache'.time = cache.time /\ cache'.valid = cache.valid /\ ~cache.valid
    BY <1>0, <1>5 DEF FillCov, Caches, PInv, Refill
  <2> QED BY <1>0, <2>1, <2>2 DEF PInv, Started, Refill, Copied, Answered
<1>6. CASE FillOffset
  <2>1. /\ stamp' = stamp /\ imu = "offset" /\ imu' = "predict"
        /\ bound' = bound /\ frame' = frame /\ out' = out
    BY <1>6 DEF FillOffset
  <2>2. cache'.time = cache.time /\ cache'.off = offset /\ cache'.used = FALSE
    BY <1>0, <1>6 DEF FillOffset, Caches
  <2>3. cache.time <= frame
    BY <2>1 DEF PInv, Refill
  <2>4. Copied'
    BY <1>0, <2>1, <2>2, <2>3 DEF Copied, AsFilled
  <2> QED BY <2>1, <2>4 DEF PInv, Started, Refill, Answered
<1>7. CASE Predict
  BY <1>7, PredictFollows
<1>8. CASE Launch
  <2>1. /\ stamp' = stamp /\ imu = "launch" /\ imu' = "idle"
        /\ frame' = frame /\ cache' = cache /\ out' = out
        /\ bound' = stamp - offset \/ bound' = bound
    BY <1>8 DEF Launch
  <2>2. Started'
    <3>1. PICK o \in Offsets : bound + o < stamp
      BY <2>1 DEF PInv, Started
    <3>2. PICK p \in Offsets : frame + p < stamp - 1
      BY <2>1 DEF PInv, Started
    <3>3. \E q \in Offsets : bound' + q <= stamp'
      BY <1>0, <2>1, <3>1
    <3> QED BY <1>0, <2>1, <3>2, <3>3 DEF Started
  <2>3. Copied'
    BY <2>1 DEF PInv, Copied, Moved, AsFilled
  <2> QED BY <2>1, <2>2, <2>3 DEF PInv, Refill, Answered
<1> QED BY <1>1, <1>2, <1>3, <1>4, <1>5, <1>6, <1>7, <1>8 DEF CallbackSteps

\* The worker leaves the copy's time alone, and its frames only go on.
LEMMA WorkerKeeps ==
  ASSUME PInv, frame' \in Int, stamp' = stamp, bound' = bound, imu' = imu, out' = out,
         frame' = frame \/ (frame < frame' /\ frame' < bound),
         cache' = cache \/ cache' = [cache EXCEPT !.valid = FALSE]
  PROVE  (Started /\ Refill /\ Copied /\ Answered)'
<1>1. /\ cache'.time = cache.time /\ cache'.off = cache.off /\ cache'.used = cache.used
      /\ cache'.valid => cache.valid
  BY DEF PInv, Typed, Caches
<1>2. /\ stamp \in Int /\ frame \in Int /\ bound \in Int /\ cache.time \in Int
      /\ Offsets \subseteq Int
  BY FastPropagateAssumption DEF PInv, Typed, Caches
<1>3. Started'
  BY <1>2 DEF PInv, Started
<1>4. Refill'
  BY <1>1, <1>2 DEF PInv, Refill
<1>5. Copied'
  BY <1>1, <1>2 DEF PInv, Copied, Moved, AsFilled
<1> QED BY <1>3, <1>4, <1>5 DEF PInv, Answered

LEMMA WorkerFollows ==
  ASSUME PInv, WorkerSteps
  PROVE  (Started /\ Refill /\ Copied /\ Answered)'
<1> USE WorkerKeeps DEF state
<1>0. frame \in Int
  BY DEF PInv, Typed
<1>1. ASSUME NEW c \in 1..MaxTime, TakeFrame(c) PROVE (Started /\ Refill /\ Copied /\ Answered)'
  BY <1>1, FastPropagateAssumption DEF TakeFrame, FrameReady
<1>2. CASE NoFrame
  BY <1>0, <1>2 DEF NoFrame
<1>3. ASSUME NEW from, NEW to,
             CorrectCov(from, to) \/ CorrectMean(from, to) \/ Invalidate(from, to)
      PROVE  (Started /\ Refill /\ Copied /\ Answered)'
  BY <1>0, <1>3 DEF CorrectCov, CorrectMean, Invalidate, Invalidated
<1>4. CASE ZeroVelocity
  <2>1. CASE ZuptTime
    BY <1>0, <2>1 DEF ZuptTime
  <2> QED BY <1>3, <1>4, <2>1 DEF ZeroVelocity
<1>5. CASE PropagateMean \/ PropagateCov \/ PropagateTime
  BY <1>0, <1>5 DEF PropagateMean, PropagateCov, PropagateTime
<1>6. CASE Updates
  <2>1. CASE NextUpdate
    BY <1>0, <2>1 DEF NextUpdate
  <2> QED BY <1>3, <1>6, <2>1 DEF Updates
<1> QED BY <1>1, <1>2, <1>4, <1>5, <1>6 DEF WorkerSteps

LEMMA CorrectBounds ==
  ASSUME PInv, NEW from, NEW to,
         CorrectCov(from, to) \/ CorrectMean(from, to) \/ Invalidate(from, to)
  PROVE  Bounds'
<1> USE FastPropagateAssumption DEF PInv, Bounds
<1>1. CASE CorrectCov(from, to)
  <2>1. cov'.n = cov.n + 1 /\ cov.n < MaxUpdates
    BY <1>1 DEF CorrectCov, Typed, Estimates
  <2> QED BY <1>1, <2>1 DEF CorrectCov
<1>2. CASE CorrectMean(from, to)
  <2>1. mean'.n = cov.n
    BY <1>2 DEF CorrectMean, Typed, Estimates
  <2> QED BY <1>2, <2>1 DEF CorrectMean
<1>3. CASE Invalidate(from, to)
  BY <1>3 DEF Invalidate, state
<1> QED BY <1>1, <1>2, <1>3

LEMMA WorkerBounds ==
  ASSUME PInv, WorkerSteps
  PROVE  Bounds'
<1> USE FastPropagateAssumption DEF PInv, Bounds, state
<1>1. ASSUME NEW c \in 1..MaxTime, TakeFrame(c) PROVE Bounds'
  BY <1>1 DEF TakeFrame, FrameReady
<1>2. CASE NoFrame
  BY <1>2 DEF NoFrame
<1>3. CASE ZeroVelocity
  <2>1. CASE ZuptTime
    <3>1. mean'.n = mean.n /\ cov'.n = cov.n
      BY <2>1 DEF ZuptTime, Typed, Estimates
    <3> QED BY <2>1, <3>1 DEF ZuptTime
  <2> QED BY <1>3, <2>1, CorrectBounds DEF ZeroVelocity
<1>4. CASE PropagateMean
  <2>1. mean'.n = mean.n
    BY <1>4 DEF PropagateMean, Typed, Estimates
  <2> QED BY <1>4, <2>1 DEF PropagateMean
<1>5. CASE PropagateCov
  <2>1. cov'.n = cov.n
    BY <1>5 DEF PropagateCov, Typed, Estimates
  <2> QED BY <1>5, <2>1 DEF PropagateCov
<1>6. CASE PropagateTime
  BY <1>6 DEF PropagateTime
<1>7. CASE Updates
  <2>1. CASE NextUpdate
    BY <2>1 DEF NextUpdate
  <2> QED BY <1>7, <2>1, CorrectBounds DEF Updates
<1> QED BY <1>1, <1>2, <1>3, <1>4, <1>5, <1>6, <1>7 DEF WorkerSteps

\* The odometry of every message is for its stamp, the first of a copy for the
\* stamp shifted by an offset the estimate had, and a message gets none only when
\* the copy is past it by what the offsets explain, however the background
\* worker's corrections, propagations and invalidations fall between the
\* callback's reads and move the offset (fast_state_propagate, callback_inertial).
THEOREM Predicted == Spec => []OdometryFollows
<1>1. Init => PInv
  BY InitFollows
<1>2. PInv /\ [Next]_vars => PInv'
  <2> SUFFICES ASSUME PInv, [Next]_vars PROVE PInv'
    OBVIOUS
  <2>1. CASE Next
    <3>1. CallbackSteps \/ WorkerSteps
      BY <2>1, NextSplits
    <3>2. CASE CallbackSteps
      BY <3>2, CallbackTyped, CallbackBounds, CallbackFollows DEF PInv
    <3>3. CASE WorkerSteps
      BY <3>3, WorkerTyped, WorkerBounds, WorkerFollows DEF PInv
    <3> QED BY <3>1, <3>2, <3>3
  <2>2. CASE UNCHANGED vars
    BY <2>2 DEF vars, state, PInv, Typed, Bounds, Started, Refill, Copied, Moved, AsFilled,
       Answered
  <2> QED BY <2>1, <2>2
<1>3. PInv => OdometryFollows
  BY FastPropagateAssumption DEF PInv, Typed, Bounds, Answered, OdometryFollows, TypeOK,
     Caches
<1> QED BY <1>1, <1>2, <1>3, PTL DEF Spec
==============================================================================
