-------------------------- MODULE InertialProofs ---------------------------
(***************************************************************************)
(* What is proved about the inertial readings of OpenVINS: that the start  *)
(* of the filter (VioInit) keeps its threads apart, never exits, keeps a   *)
(* full window for the initialiser and the clones of the catch-up, and     *)
(* covers every propagation; and, in the second part, that the selection   *)
(* of readings for one propagation (ImuSelect) covers its whole period and *)
(* leaves no reading of it out.                                            *)
(*                                                                         *)
(* The invariant of VioInit says who may write the state (OneThread), that *)
(* frames put aside stay in order (InOrder), that readings run ahead of    *)
(* frames by a bounded lag (Lag), what the trims of the initialiser's      *)
(* buffer leave (WindowKept), and that the clones the thread still has to  *)
(* make fit beside those it made (Fits).  For coverage it also follows the *)
(* age of an attempt's result (Attempt) until the filter runs, and from    *)
(* then on what the IMU callback retains (Retention).                      *)
(***************************************************************************)
EXTENDS VioInit, ImuSelect, FiniteSetTheorems, WellFoundedInduction, TLAPS

\* The types, with those of the records; a frame exists before anybody works.
Typed ==
    /\ TypeOK
    /\ imu \in [pc : {"idle", "feed"}, oldest : Int]
    /\ init \in [pc : {"none", "start", "solving", "queue", "move", "ending", "exit"},
                 begun : Nat, result : -1..MaxTime]
    /\ imu.pc = "feed" => now < MaxTime
    /\ frame = 0 => worker = "idle" /\ init.pc = "none"

\* The thread and the worker's use of the state exclude each other: while the
\* thread exists the flag is set, the filter is not initialised, and all the
\* worker does with a frame is to put it aside.
OneThread ==
    /\ worker \in {"try", "push"} => ~initialized
    /\ worker \in {"zupt", "propagate", "marg"} => initialized
    /\ initialized => init.pc = "none"
    /\ init.pc # "none" => running

\* The frames put aside are in order and behind the one in hand; those the
\* thread still moves to are in order and ahead of the state.
Rising(s) == \A j, k \in DOMAIN s : j < k => s[j] < s[k]

InOrder ==
    /\ Rising(queue)
    /\ \A k \in DOMAIN queue :
          queue[k] <= frame /\ (worker \in {"try", "push"} => queue[k] < frame)
    /\ init.pc = "move" =>
          Rising(moves) /\ \A k \in DOMAIN moves : timestamp < moves[k] /\ moves[k] <= frame
    /\ init.pc # "exit"

\* The time of the newest reading, a reading in hand included.
Ahead == IF imu.pc = "feed" THEN now + 1 ELSE now

Lag ==
    /\ frame # 0 => frame + offset < now
    /\ Ahead = 0 \/ Ahead <= frame + offset + MaxLag

\* What both trims leave to the initialiser.
WindowKept ==
    /\ initLo = 0 \/ initLo <= now - Window - Slack
    /\ imu.pc = "feed" /\ ~initialized => imu.oldest = OldestWhileInit(now + 1)

\* The initial state has the types, those of the records included.
LEMMA InitTyped ==
  ASSUME Init
  PROVE  Typed
<1> USE VioInitAssumption DEF VioInitAssumption, Init, None
<1>1. {running, success, initialized, covered} \subseteq BOOLEAN
  OBVIOUS
<1>2. /\ imu \in [pc : {"idle", "feed"}, oldest : Int]
      /\ init \in [pc : {"none", "start", "solving", "queue", "move", "ending", "exit"},
                   begun : Nat, result : -1..MaxTime]
  OBVIOUS
<1>3. queue \in Seq(Times) /\ moves \in Seq(Times) /\ clones \subseteq Times
  OBVIOUS
<1> QED BY <1>1, <1>2, <1>3 DEF Typed, TypeOK

\* The frames that are left to move to come from the queue, are ahead of the
\* state and keep the order of the queue (camera_timestamps_to_init).
LEMMA MissedFrames ==
  ASSUME Typed, NEW place \in LatePlaces
  PROVE  LET late == LateFrames(place)
         IN  /\ late \in Seq(Times)
             /\ \A k \in DOMAIN late :
                   timestamp < late[k] /\ \E m \in DOMAIN queue : late[k] = queue[m]
             /\ Rising(queue) => Rising(late)
<1> DEFINE places == Late
           n == Cardinality(places)
           late == LateFrames(place)
<1>1. IsFiniteSet(places) /\ n \in Nat
  <2>1. DOMAIN queue = 1..Len(queue) /\ Len(queue) \in Nat
    BY DEF Typed, TypeOK
  <2>2. IsFiniteSet(1..Len(queue))
    BY <2>1, FS_Interval
  <2>3. IsFiniteSet(places)
    BY <2>1, <2>2, FS_Subset DEF Late
  <2> QED BY <2>3, FS_CardinalityType
<1>2. /\ place \in [1..n -> places]
      /\ \A j, k \in DOMAIN place : j < k => place[j] < place[k]
  BY DEF LatePlaces
<1> HIDE DEF n
<1>3. DOMAIN late = 1..n /\ \A k \in 1..n : late[k] = queue[place[k]] /\ place[k] \in places
  BY <1>2 DEF LateFrames
<1>4. \A k \in places : queue[k] \in Times /\ timestamp < queue[k] /\ k \in DOMAIN queue
  <2>1. \A k \in DOMAIN queue : queue[k] \in Times
    BY DEF Typed, TypeOK
  <2> QED BY <2>1 DEF Missed, Late
<1>5. late \in Seq(Times)
  <2>1. late \in [1..n -> Times]
    BY <1>2, <1>3, <1>4 DEF LateFrames
  <2> QED BY <1>1, <2>1
<1> HIDE DEF late
<1>6. \A k \in DOMAIN late : timestamp < late[k] /\ \E m \in DOMAIN queue : late[k] = queue[m]
  BY <1>3, <1>4
<1>7. ASSUME Rising(queue) PROVE Rising(late)
  BY <1>2, <1>3, <1>4, <1>7 DEF Rising
<1> QED BY <1>5, <1>6, <1>7 DEF late

\* A stride through a sequence keeps the order, and takes no more than fit.
LEMMA StrideFits ==
  ASSUME NEW n \in Nat
  PROVE  /\ CloneRate(n) \in Nat \ {0}
         /\ (n + CloneRate(n) - 1) \div CloneRate(n) \in 0..MaxCloneSize
<1> DEFINE r == CloneRate(n)
           q == n \div MaxCloneSize
<1>1. MaxCloneSize \in Nat \ {0}
  BY VioInitAssumption DEF VioInitAssumption
<1>2. q \in Nat /\ n < MaxCloneSize * (q + 1) /\ r = q + 1
  BY <1>1 DEF CloneRate
<1>3. r \in Nat \ {0} /\ n < MaxCloneSize * r
  BY <1>2
<1>4. n + r - 1 < (MaxCloneSize + 1) * r /\ n + r - 1 \in Nat
  <2>1. (MaxCloneSize + 1) * r = MaxCloneSize * r + r
    BY <1>1, <1>3
  <2> QED BY <1>1, <1>3, <2>1
<1> DEFINE m == n + r - 1
           d == m \div r
<1>5. d \in Nat /\ d * r <= m
  BY <1>3, <1>4
<1>6. d * r < (MaxCloneSize + 1) * r
  <2>1. m \in Int /\ d * r \in Int /\ (MaxCloneSize + 1) * r \in Int
    BY <1>1, <1>3, <1>4, <1>5
  <2> HIDE DEF d, m
  <2> QED BY <2>1, <1>4, <1>5 DEF m
<1>7. d < MaxCloneSize + 1
  <2>1. SUFFICES ASSUME d >= MaxCloneSize + 1 PROVE FALSE
    BY <1>1, <1>5
  <2>2. d * r >= (MaxCloneSize + 1) * r
    BY <2>1, <1>1, <1>3, <1>5
  <2> QED BY <2>2, <1>6, <1>1, <1>3, <1>5
<1> QED BY <1>1, <1>3, <1>5, <1>7

\* Taking every r-th frame keeps frames of the queue, in its order, and as many
\* as the loop of try_to_initialize takes.
LEMMA StrideKeeps ==
  ASSUME NEW s \in Seq(Times), NEW r \in Nat \ {0}
  PROVE  LET e == EveryNth(s, r)
         IN  /\ e \in Seq(Times)
             /\ Len(e) = (Len(s) + r - 1) \div r
             /\ \A k \in DOMAIN e : \E m \in DOMAIN s : e[k] = s[m]
             /\ Rising(s) => Rising(e)
<1> DEFINE e == EveryNth(s, r)
           n == Len(s)
           d == (n + r - 1) \div r
<1>1. n \in Nat /\ DOMAIN s = 1..n
  OBVIOUS
<1>2. d \in Nat /\ d * r <= n + r - 1
  BY <1>1
<1>3. ASSUME NEW k \in 1..d PROVE (k - 1) * r + 1 \in 1..n
  <2>1. (k - 1) * r >= 0
    OBVIOUS
  <2>2. k * r <= d * r
    BY <1>2
  <2>3. (k - 1) * r = k * r - r
    OBVIOUS
  <2>4. (k - 1) * r \in Int /\ k * r \in Int /\ d * r \in Int
    BY <1>2
  <2> QED BY <1>1, <1>2, <2>1, <2>2, <2>3, <2>4
<1>4. e = [k \in 1..d |-> s[(k - 1) * r + 1]]
  BY DEF EveryNth
<1> HIDE DEF d, n, e
<1>5. DOMAIN e = 1..d /\ \A k \in 1..d : e[k] = s[(k - 1) * r + 1]
  BY <1>4
<1>6. \A k \in 1..d : s[(k - 1) * r + 1] \in Times
  BY <1>1, <1>3
<1>7. e \in Seq(Times) /\ Len(e) = d
  <2>1. e \in [1..d -> Times]
    BY <1>4, <1>6
  <2> QED BY <1>2, <2>1
<1>8. \A k \in DOMAIN e : \E m \in DOMAIN s : e[k] = s[m]
  BY <1>1, <1>3, <1>5
<1>9. ASSUME Rising(s) PROVE Rising(e)
  <2> SUFFICES ASSUME NEW j \in 1..d, NEW k \in 1..d, j < k PROVE e[j] < e[k]
    BY <1>5 DEF Rising
  <2>1. (j - 1) * r + 1 < (k - 1) * r + 1
    <3>1. (k - 1) * r = (j - 1) * r + (k - j) * r
      OBVIOUS
    <3>2. (k - j) * r > 0
      OBVIOUS
    <3>3. (j - 1) * r \in Int /\ (k - j) * r \in Int
      OBVIOUS
    <3> QED BY <3>1, <3>2, <3>3
  <2> QED BY <1>1, <1>3, <1>5, <1>9, <2>1 DEF Rising
<1> QED BY <1>7, <1>8, <1>9 DEF d, n, e

\* The trim by InertialInitializer::initialize never brings a reading back.
LEMMA TrimTyped ==
  ASSUME Typed
  PROVE  TrimmedLo \in Nat /\ initLo <= TrimmedLo
BY VioInitAssumption DEF VioInitAssumption, Typed, TypeOK, TrimmedLo, Larger

\* Marginalising never adds a clone.
LEMMA OldestOnly == \A S : WithoutOldest(S) \subseteq S
BY DEF WithoutOldest

\* A camera offset is an integer number of ticks.
LEMMA OffsetInt ==
  ASSUME Typed
  PROVE  offset \in Int
BY VioInitAssumption DEF VioInitAssumption, Typed, TypeOK

\* The head and the tail of the frames the thread still moves to.
LEMMA HeadTail ==
  ASSUME Typed, moves # <<>>
  PROVE  /\ Head(moves) \in Times /\ Tail(moves) \in Seq(Times)
         /\ Head(moves) = moves[1] /\ 1 \in DOMAIN moves
         /\ Len(Tail(moves)) = Len(moves) - 1
         /\ \A k \in DOMAIN Tail(moves) : k + 1 \in DOMAIN moves /\ Tail(moves)[k] = moves[k + 1]
BY DEF Typed, TypeOK

\* A set of times that is not empty has a least element.
LEMMA LeastMember ==
  ASSUME NEW T \in SUBSET Nat, T # {}
  PROVE  Least(T) \in T /\ \A u \in T : Least(T) <= u
<1> DEFINE R == OpToRel(<, Nat)
<1>1. IsWellFoundedOn(R, Nat)
  BY NatLessThanWellFounded
<1>2. \A x, y \in Nat : y < x => <<y, x>> \in R
  BY DEF OpToRel
<1> HIDE DEF R
<1>3. PICK x \in T : \A y \in T : ~(<<y, x>> \in R)
  BY <1>1, WFMin
<1>4. ASSUME NEW y \in T PROVE x <= y
  <2>1. ~(y < x)
    BY <1>2, <1>3
  <2> QED BY <2>1
<1> QED BY <1>4 DEF Least

\* margtimestep is a clone when there is one.
LEMMA LeastClone ==
  ASSUME Typed, clones # {}
  PROVE  Least(clones) \in clones /\ Least(clones) \in Nat
<1>1. clones \in SUBSET Nat
  BY DEF Typed, TypeOK, Times
<1> QED BY <1>1, LeastMember

\* Every step of the three threads keeps the types.
LEMMA StepTyped ==
  ASSUME Typed, Next
  PROVE  Typed'
<1> USE VioInitAssumption DEF VioInitAssumption, Typed, TypeOK, Times, buffers, flags, filter, None
<1>1. CASE ReadOldest
  <2>1. OldestNeeded \in Int
    BY LeastClone DEF OldestNeeded
  <2>2. OldestWhileInit(now + 1) \in Int
    BY DEF OldestWhileInit, Abs
  <2>3. imu' \in [pc : {"idle", "feed"}, oldest : Int] /\ now' < MaxTime
    BY <1>1, <2>1, <2>2 DEF ReadOldest
  <2> QED BY <1>1, <2>3 DEF ReadOldest
<1>2. CASE FeedImu
  <2>1. imuLo' \in Nat /\ initLo' \in Nat
    BY <1>2 DEF FeedImu, Larger
  <2>2. now' \in 0..MaxTime /\ imu' \in [pc : {"idle", "feed"}, oldest : Int]
    BY <1>2 DEF FeedImu
  <2> QED BY <1>2, <2>1, <2>2 DEF FeedImu
<1>3. ASSUME NEW c \in Times, FeedCamera(c) PROVE Typed'
  BY <1>3 DEF FeedCamera
<1>4. CASE ZuptAccept
  <2>1. imuLo' \in Nat
    BY <1>4, OffsetInt DEF ZuptAccept, Larger
  <2> QED BY <1>4, <2>1 DEF ZuptAccept
<1>5. CASE StartThread
  BY <1>5 DEF StartThread
<1>6. CASE SeeRunning
  BY <1>6 DEF SeeRunning
<1>7. CASE PushFrame
  <2>1. queue' \in Seq(Times)
    BY <1>7 DEF PushFrame
  <2> QED BY <1>7, <2>1 DEF PushFrame
<1>8. CASE SeeSuccess
  BY <1>8 DEF SeeSuccess
<1>9. CASE Propagate
  <2>1. CASE timestamp >= frame
    BY <1>9, <2>1 DEF Propagate
  <2>2. CASE ~(timestamp >= frame)
    <3>1. frame \in Times /\ frame # 0
      BY <1>9 DEF Propagate
    <3>2. clones' = clones \cup {frame} /\ timestamp' = frame
      BY <1>9, <2>2 DEF Propagate, PropagateAndClone
    <3>3. covered' \in BOOLEAN
      BY <1>9, <2>2 DEF Propagate, PropagateAndClone
    <3> QED BY <1>9, <2>2, <3>1, <3>2, <3>3 DEF Propagate
  <2> QED BY <2>1, <2>2
<1>10. CASE MarginalizeOldClone
  BY <1>10, OldestOnly DEF MarginalizeOldClone
<1>11. CASE Solve
  <2>1. PICK r \in {None} \cup StaticTimes \cup DynamicTimes :
           init' = [pc |-> "solving", begun |-> now, result |-> r]
    BY <1>11 DEF Solve
  <2>2. Window \div 2 \in Nat /\ Window \div 2 <= Window
    OBVIOUS
  <2>3. r \in -1..MaxTime
    BY <2>1, <2>2, TrimTyped, SMTT(30) DEF StaticTimes, DynamicTimes
  <2>4. init' \in [pc : {"none", "start", "solving", "queue", "move", "ending", "exit"},
                   begun : Nat, result : -1..MaxTime]
    BY <2>1, <2>3
  <2>5. initLo' \in Nat
    BY <1>11, TrimTyped DEF Solve
  <2> QED BY <1>11, <2>4, <2>5 DEF Solve
<1>12. CASE Succeed
  BY <1>12 DEF Succeed
<1>13. CASE TakeQueue
  <2>1. PICK place \in LatePlaces :
           moves' = EveryNth(LateFrames(place), CloneRate(Len(LateFrames(place))))
    BY <1>13 DEF TakeQueue
  <2>2. LateFrames(place) \in Seq(Times)
    BY MissedFrames
  <2>3. CloneRate(Len(LateFrames(place))) \in Nat \ {0}
    BY <2>2, StrideFits
  <2>4. moves' \in Seq(Times)
    BY <2>1, <2>2, <2>3, StrideKeeps
  <2> QED BY <1>13, <2>4 DEF TakeQueue
<1>14. CASE Move
  <2>1. Head(moves) \in Times /\ Tail(moves) \in Seq(Times)
    BY <1>14, HeadTail DEF Move
  <2>2. CASE timestamp >= Head(moves)
    BY <1>14, <2>1, <2>2 DEF Move
  <2>3. CASE ~(timestamp >= Head(moves))
    <3>1. WithoutOldest(clones \cup {Head(moves)}) \subseteq Times
      BY <2>1, OldestOnly
    <3>2. clones' = WithoutOldest(clones \cup {Head(moves)}) /\ timestamp' = Head(moves)
      BY <1>14, <2>3 DEF Move
    <3>3. covered' \in BOOLEAN
      BY <1>14, <2>3 DEF Move
    <3>4. timestamp' \in -1..MaxTime
      BY <2>1, <3>2
    <3> QED BY <1>14, <2>1, <2>3, <3>1, <3>2, <3>3, <3>4 DEF Move
  <2> QED BY <2>2, <2>3
<1>15. CASE Finish
  BY <1>15 DEF Finish
<1>16. CASE Fail
  <2>1. success' = FALSE /\ queue' = <<>>
    BY <1>16 DEF Fail
  <2>2. {running', success', initialized', covered'} \subseteq BOOLEAN
    BY <1>16, <2>1 DEF Fail
  <2>3. queue' \in Seq(Times)
    BY <2>1
  <2> QED BY <1>16, <2>2, <2>3 DEF Fail
<1>17. CASE EndThread
  <2>1. running' \in BOOLEAN
    BY <1>17 DEF EndThread
  <2>2. init' \in [pc : {"none", "start", "solving", "queue", "move", "ending", "exit"},
                   begun : Nat, result : -1..MaxTime]
    BY <1>17 DEF EndThread
  <2> QED BY <1>17, <2>1, <2>2 DEF EndThread
<1> QED
  BY <1>1, <1>2, <1>3, <1>4, <1>5, <1>6, <1>7, <1>8, <1>9, <1>10, <1>11, <1>12, <1>13,
     <1>14, <1>15, <1>16, <1>17 DEF Next, WorkerSteps, InitSteps

\* thread_init_running keeps the thread and the worker apart: whatever a step
\* does to the flags, the worker updates the filter only without a thread.
LEMMA StepOneThread ==
  ASSUME Typed, OneThread, Next
  PROVE  OneThread'
<1> USE DEF Typed, OneThread, buffers, flags, filter
<1>1. CASE ReadOldest \/ FeedImu
  BY <1>1 DEF ReadOldest, FeedImu
<1>2. ASSUME NEW c \in Times, FeedCamera(c) PROVE OneThread'
  BY <1>2 DEF FeedCamera
<1>3. CASE WorkerSteps
  BY <1>3 DEF WorkerSteps, ZuptAccept, StartThread, SeeRunning, PushFrame,
     SeeSuccess, Propagate, MarginalizeOldClone
<1>4. CASE Solve
  BY <1>4 DEF Solve
<1>5. CASE Succeed \/ TakeQueue \/ Move \/ Finish \/ Fail
  BY <1>5 DEF Succeed, TakeQueue, Move, Finish, Fail
<1>6. CASE EndThread
  BY <1>6 DEF EndThread
<1> QED BY <1>1, <1>2, <1>3, <1>4, <1>5, <1>6 DEF Next, InitSteps

\* A frame is put aside behind those that are there, and what the thread takes
\* from the queue lies ahead of the state; each move leaves the rest ahead.
LEMMA StepInOrder ==
  ASSUME Typed, OneThread, InOrder, Next
  PROVE  InOrder'
<1> USE DEF buffers, flags, filter
<1>0. /\ frame \in Nat /\ queue \in Seq(Times) /\ moves \in Seq(Times)
      /\ timestamp \in Int /\ Times \subseteq Nat
  BY DEF Typed, TypeOK, Times
<1>n. /\ \A k \in DOMAIN queue : queue[k] \in Nat
      /\ \A k \in DOMAIN moves : moves[k] \in Nat
  <2>1. /\ \A k \in DOMAIN queue : queue[k] \in Times
        /\ \A k \in DOMAIN moves : moves[k] \in Times
    BY <1>0
  <2> QED BY <1>0, <2>1
<1>1. CASE ReadOldest \/ FeedImu
  BY <1>1 DEF InOrder, ReadOldest, FeedImu
<1>2. ASSUME NEW c \in Times, FeedCamera(c) PROVE InOrder'
  <2>1. /\ frame < c /\ frame' = c /\ c \in Nat
        /\ UNCHANGED <<queue, moves, timestamp, init>>
    BY <1>0, <1>2 DEF FeedCamera
  <2>2. \A k \in DOMAIN queue : queue[k] \in Nat /\ queue[k] < c
    BY <1>0, <1>n, <2>1 DEF InOrder
  <2>3. ASSUME init.pc = "move", NEW k \in DOMAIN moves
        PROVE  moves[k] <= c
    BY <1>0, <1>n, <2>1, <2>3 DEF InOrder
  <2> QED BY <2>1, <2>2, <2>3 DEF InOrder
<1>3. CASE ZuptAccept \/ Propagate
  <2>1. init.pc # "move"
    BY <1>3 DEF ZuptAccept, Propagate, OneThread
  <2>2. UNCHANGED <<queue, frame, init>> /\ worker' \notin {"try", "push"}
    BY <1>3 DEF ZuptAccept, Propagate
  <2> QED BY <2>1, <2>2 DEF InOrder
<1>4. CASE StartThread
  BY <1>4 DEF StartThread, InOrder, Typed
<1>5. CASE SeeRunning \/ SeeSuccess \/ MarginalizeOldClone
  BY <1>5 DEF SeeRunning, SeeSuccess, MarginalizeOldClone, InOrder
<1>6. CASE PushFrame
  <2>1. /\ queue' = Append(queue, frame) /\ worker' = "idle" /\ init.pc # "move"
        /\ UNCHANGED <<frame, init>> /\ \A k \in DOMAIN queue : queue[k] < frame
    BY <1>6 DEF PushFrame, InOrder
  <2>2. frame \in Times
    BY <1>6 DEF PushFrame, Typed, TypeOK, Times
  <2>3. /\ DOMAIN queue' = 1..(Len(queue) + 1) /\ DOMAIN queue = 1..Len(queue)
        /\ queue'[Len(queue) + 1] = frame
        /\ \A k \in DOMAIN queue : queue'[k] = queue[k]
    BY <1>0, <2>1, <2>2
  <2>4. Rising(queue')
    BY <1>0, <2>1, <2>3 DEF Rising, InOrder
  <2>5. \A k \in DOMAIN queue' : queue'[k] <= frame
    <3> TAKE k \in DOMAIN queue'
    <3>1. CASE k \in DOMAIN queue
      BY <1>0, <1>n, <2>1, <2>3, <3>1
    <3>2. CASE k = Len(queue) + 1
      BY <1>0, <2>3, <3>2
    <3> QED BY <1>0, <2>3, <3>1, <3>2
  <2> QED BY <2>1, <2>4, <2>5 DEF InOrder
<1>7. CASE Solve
  BY <1>7 DEF Solve, InOrder
<1>8. CASE Succeed \/ Fail \/ Finish \/ EndThread
  <2>1. init'.pc \notin {"move", "exit"} /\ UNCHANGED <<frame, worker>>
    BY <1>8 DEF Succeed, Fail, Finish, EndThread, Typed
  <2>2. queue' = queue \/ queue' = <<>>
    BY <1>8 DEF Succeed, Fail, Finish, EndThread
  <2>3. CASE queue' = queue
    BY <2>1, <2>3 DEF InOrder
  <2>4. CASE queue' = <<>>
    BY <2>1, <2>4 DEF InOrder, Rising
  <2> QED BY <2>2, <2>3, <2>4
<1>9. CASE TakeQueue
  <2>1. PICK place \in LatePlaces :
           moves' = EveryNth(LateFrames(place), CloneRate(Len(LateFrames(place))))
    BY <1>9 DEF TakeQueue
  <2> DEFINE late == LateFrames(place)
             r == CloneRate(Len(late))
  <2>2. /\ late \in Seq(Times) /\ Rising(late)
        /\ \A k \in DOMAIN late :
              timestamp < late[k] /\ \E m \in DOMAIN queue : late[k] = queue[m]
    BY MissedFrames DEF InOrder
  <2>3. r \in Nat \ {0}
    BY <2>2, StrideFits
  <2>4. /\ Rising(moves')
        /\ \A k \in DOMAIN moves' : \E m \in DOMAIN late : moves'[k] = late[m]
    BY <2>1, <2>2, <2>3, StrideKeeps
  <2>5. \A k \in DOMAIN moves' : timestamp < moves'[k] /\ moves'[k] <= frame
    BY <2>2, <2>4 DEF InOrder
  <2>6. UNCHANGED <<queue, frame, worker, timestamp>> /\ init'.pc # "exit"
    BY <1>9 DEF TakeQueue, Typed
  <2> QED BY <2>4, <2>5, <2>6 DEF InOrder
<1>10. CASE Move
  <2>1. moves # <<>> /\ moves' = Tail(moves) /\ init.pc = "move"
    BY <1>10 DEF Move
  <2>2. /\ Head(moves) = moves[1] /\ 1 \in DOMAIN moves
        /\ \A k \in DOMAIN moves' : k \in Nat \ {0} /\ k + 1 \in DOMAIN moves
                                    /\ moves'[k] = moves[k + 1]
    BY <1>0, <2>1, HeadTail
  <2>3. timestamp < Head(moves) /\ Head(moves) \in Nat
    BY <1>0, <1>n, <2>1, <2>2 DEF InOrder
  <2>4. timestamp' = Head(moves) /\ UNCHANGED <<queue, frame, worker, init>>
    BY <1>0, <1>10, <2>3 DEF Move
  <2>5. Rising(moves')
    BY <2>1, <2>2 DEF InOrder, Rising
  <2>6. \A k \in DOMAIN moves' : timestamp' < moves'[k] /\ moves'[k] <= frame
    BY <2>1, <2>2, <2>4 DEF InOrder, Rising
  <2> QED BY <2>4, <2>5, <2>6 DEF InOrder
<1> QED
  BY <1>1, <1>2, <1>3, <1>4, <1>5, <1>6, <1>7, <1>8, <1>9, <1>10
     DEF Next, WorkerSteps, InitSteps

\* A reading is ahead of the newest frame, and by MaxLag at the most.
LEMMA StepLag ==
  ASSUME Typed, Lag, Next
  PROVE  Lag'
<1> USE DEF Lag, Ahead, buffers, flags, filter
<1>0. /\ now \in Nat /\ frame \in Nat /\ offset \in Int /\ MaxLag \in Nat
      /\ imu \in [pc : {"idle", "feed"}, oldest : Int]
  BY OffsetInt, VioInitAssumption DEF VioInitAssumption, Typed, TypeOK
<1>1. CASE ReadOldest
  <2>1. imu'.pc = "feed" /\ now < frame + offset + MaxLag /\ UNCHANGED <<now, frame, offset>>
    BY <1>1 DEF ReadOldest
  <2> QED BY <1>0, <2>1
<1>2. CASE FeedImu
  <2>1. /\ imu.pc = "feed" /\ now' = now + 1 /\ imu'.pc = "idle" /\ UNCHANGED <<frame, offset>>
    BY <1>2 DEF FeedImu
  <2> QED BY <1>0, <2>1
<1>3. ASSUME NEW c \in Times, FeedCamera(c) PROVE Lag'
  BY <1>0, <1>3 DEF FeedCamera, Times
<1>4. CASE WorkerSteps
  BY <1>4 DEF WorkerSteps, ZuptAccept, StartThread, SeeRunning, PushFrame,
     SeeSuccess, Propagate, MarginalizeOldClone
<1>5. CASE InitSteps
  BY <1>5 DEF InitSteps, Solve, Succeed, TakeQueue, Move, Finish, Fail,
     EndThread
<1> QED BY <1>1, <1>2, <1>3, <1>4, <1>5 DEF Next

\* Both trims of the initialiser's buffer, the one by the callback and the one by
\* initialize, leave a window before the newest reading.
LEMMA StepWindowKept ==
  ASSUME Typed, OneThread, Lag, WindowKept, Next
  PROVE  WindowKept'
<1> USE DEF WindowKept, buffers, flags, filter
<1>0. /\ now \in Nat /\ frame \in Nat /\ offset \in Int /\ initLo \in Nat
      /\ Window \in Nat /\ Slack \in Nat /\ imu.oldest \in Int
      /\ imu \in [pc : {"idle", "feed"}, oldest : Int]
  BY OffsetInt, VioInitAssumption DEF VioInitAssumption, Typed, TypeOK
<1>1. CASE ReadOldest
  <2>1. /\ UNCHANGED <<now, initLo, initialized, offset>>
        /\ ~initialized => imu'.oldest = OldestWhileInit(now + 1)
    BY <1>1 DEF ReadOldest
  <2> QED BY <2>1 DEF OldestWhileInit
<1>2. CASE FeedImu
  <2>1. now' = now + 1 /\ imu'.pc = "idle" /\ imu.pc = "feed"
    BY <1>2 DEF FeedImu
  <2>2. CASE initialized
    BY <1>0, <1>2, <2>1, <2>2 DEF FeedImu
  <2>3. CASE ~initialized
    <3>1. imu.oldest <= now + 1 - Window - Slack
      BY <1>0, <2>1, <2>3 DEF OldestWhileInit, Abs
    <3>2. initLo' = Larger(initLo, imu.oldest)
      BY <1>2, <2>3 DEF FeedImu
    <3> QED BY <1>0, <2>1, <3>1, <3>2 DEF Larger
  <2> QED BY <2>2, <2>3
<1>3. ASSUME NEW c \in Times, FeedCamera(c) PROVE WindowKept'
  BY <1>3 DEF FeedCamera, OldestWhileInit
<1>4. CASE WorkerSteps
  BY <1>4 DEF WorkerSteps, ZuptAccept, StartThread, SeeRunning, PushFrame,
     SeeSuccess, Propagate, MarginalizeOldClone, OldestWhileInit
<1>5. CASE Solve
  <2>1. /\ UNCHANGED <<now, imu, initialized, offset>>
        /\ initLo' = Larger(initLo, frame - Window - Slack + offset)
    BY <1>5 DEF Solve, TrimmedLo
  <2>2. frame + offset < now
    BY <1>5 DEF Solve, Lag, Typed
  <2>3. initLo' = 0 \/ initLo' <= now - Window - Slack
    BY <1>0, <2>1, <2>2 DEF Larger
  <2> QED BY <2>1, <2>3 DEF OldestWhileInit
<1>6. CASE Succeed \/ TakeQueue \/ Move \/ Finish \/ Fail \/ EndThread
  BY <1>6 DEF Succeed, TakeQueue, Move, Finish, Fail, EndThread,
     OldestWhileInit
<1> QED BY <1>1, <1>2, <1>3, <1>4, <1>5, <1>6 DEF Next, InitSteps

\* The part of the invariant that holds whatever the scheduling.
StartInv == Typed /\ OneThread /\ InOrder /\ Lag /\ WindowKept

\* The part of the invariant that needs no condition on the scheduling holds in
\* every state.
LEMMA SpecStart == Spec => []StartInv
<1>1. Init => StartInv
  <2> SUFFICES ASSUME Init PROVE StartInv
    OBVIOUS
  <2>1. Typed
    BY InitTyped
  <2>2. OneThread /\ WindowKept
    BY DEF Init, OneThread, WindowKept
  <2>3. InOrder
    BY DEF Init, InOrder, Rising
  <2>4. Lag
    BY DEF Init, Lag, Ahead
  <2> QED BY <2>1, <2>2, <2>3, <2>4 DEF StartInv
<1>2. StartInv /\ [Next]_(vars) => StartInv'
  <2> SUFFICES ASSUME StartInv, [Next]_(vars) PROVE StartInv'
    OBVIOUS
  <2>1. CASE Next
    BY <2>1, StepTyped, StepOneThread, StepInOrder, StepLag, StepWindowKept DEF StartInv
  <2>2. CASE UNCHANGED vars
    <3> USE <2>2 DEF vars, buffers, flags, filter
    <3>1. Typed'
      BY DEF StartInv, Typed, TypeOK, Times
    <3>2. OneThread' /\ Lag' /\ WindowKept'
      BY DEF StartInv, OneThread, Lag, Ahead, WindowKept, OldestWhileInit
    <3>3. InOrder'
      BY DEF StartInv, InOrder, Rising
    <3> QED BY <3>1, <3>2, <3>3 DEF StartInv
  <2> QED BY <2>1, <2>2
<1> QED BY <1>1, <1>2, PTL DEF Spec

\* The worker changes the filter's state only while no initialisation thread
\* exists, and it starts one only then (VioManager::try_to_initialize).
THEOREM OneThreadWrites == Spec => []OneWriter
<1>1. StartInv => OneWriter
  BY DEF StartInv, OneThread, OneWriter
<1> QED BY <1>1, SpecStart, PTL

\* The catch-up never asks propagate_and_clone to stand still or to go back, where
\* it would exit the process, whatever was left in the queue by failed attempts.
THEOREM StartNeverExits == Spec => []NeverExits
<1>1. StartInv => NeverExits
  BY DEF StartInv, Typed, InOrder, NeverExits
<1> QED BY <1>1, SpecStart, PTL

\* For every window, slack and offset of either sign, the trims leave the static
\* initialiser all of its window as soon as that much was received.
THEOREM FullWindow == Spec => []WindowSuffices
<1>1. StartInv => WindowSuffices
  <2> SUFFICES ASSUME StartInv, init.pc = "start"
               PROVE  now - TrimmedLo >= Smaller(Window, now)
    BY DEF WindowSuffices
  <2>1. /\ now \in Nat /\ frame \in Nat /\ offset \in Int /\ initLo \in Nat
        /\ Window \in Nat /\ Slack \in Nat
    BY OffsetInt, VioInitAssumption DEF StartInv, VioInitAssumption, Typed, TypeOK
  <2>2. frame + offset < now
    BY DEF StartInv, Lag, Typed
  <2>3. initLo = 0 \/ initLo <= now - Window - Slack
    BY DEF StartInv, WindowKept
  <2> QED BY <2>1, <2>2, <2>3 DEF TrimmedLo, Larger, Smaller
<1> QED BY <1>1, SpecStart, PTL

------------------------------------------------------------------------------
\* Until an attempt has succeeded there are no clones but the ones it makes, and
\* those it still has to make fit beside them.
Fits ==
    /\ init.pc \in {"start", "solving", "queue", "move"} => ~success
    /\ ~success /\ init.pc # "move" => clones = {}
    /\ initialized => success
    /\ init.pc = "move" =>
          IsFiniteSet(clones) /\ Cardinality(clones) + Len(moves) <= MaxCloneSize

\* The stride leaves no more frames than a window has clones.
LEMMA Taken ==
  ASSUME Typed, TakeQueue
  PROVE  moves' \in Seq(Times) /\ Len(moves') <= MaxCloneSize
<1>1. PICK place \in LatePlaces :
         moves' = EveryNth(LateFrames(place), CloneRate(Len(LateFrames(place))))
  BY DEF TakeQueue
<1> DEFINE late == LateFrames(place)
           r == CloneRate(Len(late))
<1>2. late \in Seq(Times)
  BY MissedFrames
<1>3. Len(late) \in Nat
  BY <1>2
<1>4. r \in Nat \ {0} /\ (Len(late) + r - 1) \div r \in 0..MaxCloneSize
  BY <1>3, StrideFits
<1> HIDE DEF late, r
<1>5. /\ moves' = EveryNth(late, r)
      /\ EveryNth(late, r) \in Seq(Times)
      /\ Len(EveryNth(late, r)) = (Len(late) + r - 1) \div r
  BY <1>1, <1>2, <1>4, StrideKeeps DEF late, r
<1>6. MaxCloneSize \in Nat
  BY VioInitAssumption DEF VioInitAssumption
<1> QED BY <1>4, <1>5, <1>6

\* A frame that is moved to adds its clone to the others.
LEMMA MoveAdds ==
  ASSUME Typed, InOrder, Fits, Move
  PROVE  /\ UNCHANGED <<init, success, initialized>>
         /\ clones' = clones \cup {Head(moves)}
         /\ IsFiniteSet(clones')
         /\ Cardinality(clones') + Len(moves') <= MaxCloneSize
<1>1. /\ init.pc = "move" /\ moves # <<>> /\ moves' = Tail(moves)
      /\ UNCHANGED <<success, initialized>>
  BY DEF Move, flags
<1>2. Head(moves) = moves[1] /\ 1 \in DOMAIN moves /\ Len(moves') = Len(moves) - 1
  BY <1>1, HeadTail
<1>3. timestamp \in Int /\ Head(moves) \in Int /\ Len(moves) \in Nat /\ MaxCloneSize \in Nat
  BY <1>1, HeadTail, VioInitAssumption DEF Typed, TypeOK, Times, VioInitAssumption
<1>4. timestamp < Head(moves)
  BY <1>1, <1>2 DEF InOrder
<1>5. UNCHANGED init /\ clones' = WithoutOldest(clones \cup {Head(moves)})
  BY <1>1, <1>3, <1>4 DEF Move
<1> DEFINE S == clones \cup {Head(moves)}
<1>6. /\ IsFiniteSet(S) /\ Cardinality(S) \in Nat /\ Cardinality(clones) \in Nat
      /\ Cardinality(S) <= Cardinality(clones) + 1
  <2>1. IsFiniteSet(clones) /\ Cardinality(clones) \in Nat
    BY <1>1, FS_CardinalityType DEF Fits
  <2>2. IsFiniteSet(S)
    BY <2>1, FS_AddElement
  <2>3. Cardinality(S) = Cardinality(clones) \/ Cardinality(S) = Cardinality(clones) + 1
    BY <2>1, FS_AddElement
  <2> QED BY <2>1, <2>2, <2>3
<1>7. Cardinality(clones) + Len(moves) <= MaxCloneSize
  BY <1>1 DEF Fits
<1> HIDE DEF S
<1>8. Cardinality(S) + Len(moves') <= MaxCloneSize /\ Len(moves') >= 0
  BY <1>1, <1>2, <1>3, <1>6, <1>7, HeadTail
<1>9. ~(Cardinality(S) > MaxCloneSize)
  BY <1>2, <1>3, <1>6, <1>8
<1>10. clones' = S
  BY <1>5, <1>9 DEF WithoutOldest, S
<1> QED BY <1>1, <1>5, <1>6, <1>8, <1>10 DEF S

\* The clones there are and those still to be made stay within the window.
LEMMA StepFits ==
  ASSUME Typed, OneThread, InOrder, Fits, Next
  PROVE  Fits'
<1> USE DEF buffers, flags, filter
<1>1. CASE ReadOldest \/ FeedImu
  BY <1>1 DEF ReadOldest, FeedImu, Fits
<1>2. ASSUME NEW c \in Times, FeedCamera(c) PROVE Fits'
  BY <1>2 DEF FeedCamera, Fits
<1>3. CASE ZuptAccept \/ SeeRunning \/ PushFrame
  BY <1>3 DEF ZuptAccept, SeeRunning, PushFrame, Fits
<1>4. CASE StartThread
  BY <1>4 DEF StartThread, Fits, OneThread, Typed
<1>5. CASE SeeSuccess
  BY <1>5 DEF SeeSuccess, Fits, OneThread
<1>6. CASE Propagate \/ MarginalizeOldClone
  <2>1. initialized /\ init.pc = "none" /\ success
    BY <1>6 DEF Propagate, MarginalizeOldClone, OneThread, Fits
  <2>2. UNCHANGED <<initialized, success, init>>
    BY <1>6 DEF Propagate, MarginalizeOldClone
  <2> QED BY <2>1, <2>2 DEF Fits
<1>7. CASE Solve
  BY <1>7 DEF Solve, Fits
<1>8. CASE Succeed \/ Finish \/ Fail
  BY <1>8 DEF Succeed, Finish, Fail, Fits, Typed
<1>9. CASE TakeQueue
  <2>1. init.pc = "queue" /\ init'.pc = "move" /\ UNCHANGED <<success, initialized, clones>>
    BY <1>9 DEF TakeQueue, Typed
  <2>2. ~success /\ clones = {}
    BY <2>1 DEF Fits
  <2>3. IsFiniteSet(clones') /\ Cardinality(clones') = 0
    BY <2>1, <2>2, FS_EmptySet
  <2>4. Len(moves') \in Nat /\ Len(moves') <= MaxCloneSize
    BY <1>9, Taken
  <2> QED BY <2>1, <2>2, <2>3, <2>4 DEF Fits
<1>10. CASE Move
  <2>1. init.pc = "move"
    BY <1>10 DEF Move
  <2> QED BY <1>10, <2>1, MoveAdds DEF Fits
<1>11. CASE EndThread
  BY <1>11 DEF EndThread, Fits
<1> QED
  BY <1>1, <1>2, <1>3, <1>4, <1>5, <1>6, <1>7, <1>8, <1>9, <1>10, <1>11
     DEF Next, WorkerSteps, InitSteps

\* The invariant with the room for the clones holds in every state.
LEMMA SpecFits == Spec => [](StartInv /\ Fits)
<1>1. Init => Fits
  BY DEF Init, Fits
<1>2. StartInv /\ Fits /\ [Next]_(vars) => Fits'
  <2> SUFFICES ASSUME StartInv, Fits, [Next]_(vars) PROVE Fits'
    OBVIOUS
  <2>1. CASE Next
    BY <2>1, StepFits DEF StartInv
  <2>2. CASE UNCHANGED vars
    BY <2>2 DEF vars, buffers, flags, filter, Fits
  <2> QED BY <2>1, <2>2
<1> QED BY <1>1, <1>2, SpecStart, PTL DEF Spec

\* No clone the catch-up makes is marginalised before the first update, for every
\* length of the queue (the stride clone_rate of try_to_initialize).
THEOREM CatchUpKeepsClones == Spec => CatchUpFits
<1>1. StartInv /\ Fits /\ [Next]_(vars)
         => [init.pc = "move" => clones \subseteq clones']_(vars)
  <2> SUFFICES ASSUME StartInv, Fits, Next, init.pc = "move"
               PROVE  clones \subseteq clones'
    OBVIOUS
  <2> USE DEF buffers, flags, filter
  <2>1. CASE Move
    BY <2>1, MoveAdds DEF StartInv
  <2>2. ~Propagate /\ ~MarginalizeOldClone /\ ~ZuptAccept
    BY DEF StartInv, OneThread, Propagate, MarginalizeOldClone, ZuptAccept
  <2>3. CASE UNCHANGED clones
    BY <2>3
  <2>4. ASSUME NEW c \in Times, FeedCamera(c) PROVE UNCHANGED clones
    BY <2>4 DEF FeedCamera
  <2> QED
    BY <2>1, <2>2, <2>3, <2>4 DEF Next, WorkerSteps, InitSteps, ReadOldest, FeedImu,
       StartThread, SeeRunning, PushFrame, SeeSuccess, Solve, Succeed,
       TakeQueue, Finish, Fail, EndThread
<1> QED BY <1>1, SpecFits, PTL DEF Spec, CatchUpFits

------------------------------------------------------------------------------
\* What the scheduling has to give for every propagation to be covered.  An
\* attempt, and the frames handled until its result is seen, must not take longer
\* than the half window and the slack of both trims; no offset may reach beyond
\* what is kept after it.
Timely ==
    /\ InitTime >= 1
    /\ MaxLag \in 1..Window
    /\ InitTime + 2 * MaxLag - 2 <= Window - Window \div 2 + 2 * Slack
    /\ InitTime + 3 * MaxLag - 2 <= Window + 2 * Slack
    /\ \A o \in Offsets : o >= -Slack /\ o >= Window \div 2 - Window

Solved ==
    \/ init.pc = "solving" /\ init.result # None
    \/ init.pc \in {"queue", "move"}
    \/ success

\* The time t, found at b or later, is the middle of a full window or that of a
\* frame that was in hand.
Known(t, b) ==
    t + offset >= 0 /\ (t >= b - Window \div 2 \/ t + offset >= b - MaxLag)

\* How old the result can be when the worker sees it.
Seen == frame + offset + 1 - InitTime - (IF worker = "try" THEN MaxLag - 1 ELSE 0)

Attempt ==
    /\ init.pc \in {"solving", "queue", "move", "ending"} => Ahead <= init.begun + InitTime
    /\ Solved => frame # 0 /\ frame + offset >= 0
    /\ init.pc = "solving" /\ init.result # None => Known(init.result, init.begun)
    /\ init.pc \in {"queue", "move"} => Known(timestamp, init.begun)
    /\ init.pc = "ending" /\ success => Known(timestamp, init.begun)
    /\ success /\ ~initialized /\ init.pc = "none" => Known(timestamp, Seen)
    /\ running => init.pc # "none"

\* A reading as old as t is not needed any more.
Retained(t) == t <= timestamp + offset /\ t <= frame + offset

Retention ==
    /\ ~initialized => imuLo = 0 \/ imuLo <= now - Window - Abs(offset) - 2 * Slack
    /\ initialized => Retained(imuLo)
    /\ initialized /\ imu.pc = "feed" => Retained(imu.oldest - Slack)
    /\ \A t \in clones : t <= frame
    /\ covered

\* The numbers, and what Timely says of the offset in force.
LEMMA Numbers ==
  ASSUME Timely, Typed
  PROVE  /\ Window \in Nat /\ Slack \in Nat /\ InitTime \in Nat /\ MaxLag \in Nat
         /\ Window \div 2 \in Nat /\ Window \div 2 <= Window
         /\ InitTime >= 1 /\ MaxLag >= 1 /\ MaxLag <= Window
         /\ InitTime + 2 * MaxLag - 2 <= Window - Window \div 2 + 2 * Slack
         /\ InitTime + 3 * MaxLag - 2 <= Window + 2 * Slack
         /\ offset \in Int /\ offset >= -Slack /\ offset >= Window \div 2 - Window
         /\ now \in Nat /\ frame \in Nat /\ timestamp \in Int /\ timestamp >= -1
         /\ imuLo \in Nat /\ initLo \in Nat /\ imu.oldest \in Int
         /\ init.begun \in Nat /\ init.result \in Int
         /\ Abs(offset) \in Nat /\ Abs(offset) >= offset /\ Abs(offset) >= -offset
         /\ Ahead \in Nat /\ now <= Ahead /\ Ahead <= now + 1
<1>1. /\ Window \in Nat /\ Slack \in Nat /\ InitTime \in Nat /\ MaxLag \in Nat
      /\ now \in Nat /\ frame \in Nat /\ timestamp \in Int /\ timestamp >= -1
      /\ imuLo \in Nat /\ initLo \in Nat
  BY VioInitAssumption DEF VioInitAssumption, Typed, TypeOK
<1>2. imu.oldest \in Int /\ init.begun \in Nat /\ init.result \in Int
  BY DEF Typed
<1>3. offset \in Int /\ offset \in Offsets
  BY OffsetInt DEF Typed, TypeOK
<1>4. Window \div 2 \in Nat /\ Window \div 2 <= Window
  BY <1>1
<1>5. Abs(offset) \in Nat /\ Abs(offset) >= offset /\ Abs(offset) >= -offset
  BY <1>3 DEF Abs
<1>6. Ahead \in Nat /\ now <= Ahead /\ Ahead <= now + 1
  BY <1>1 DEF Ahead
<1>7. offset >= -Slack /\ offset >= Window \div 2 - Window
  BY <1>3 DEF Timely
<1> QED BY <1>1, <1>2, <1>3, <1>4, <1>5, <1>6, <1>7 DEF Timely

\* A time that was known for one beginning is known for an earlier one.
LEMMA KnownLater ==
  ASSUME Timely, Typed, NEW t \in Int, NEW u \in Int, t <= u,
         NEW a \in Int, NEW b \in Int, a <= b, Known(t, b)
  PROVE  Known(u, a)
<1> HIDE DEF Timely
<1>1. Window \div 2 \in Nat /\ offset \in Int /\ MaxLag \in Nat
  BY Numbers
<1> QED BY <1>1 DEF Known

\* How old the result of an attempt can have become at each point of the thread and
\* of the worker, until is_initialized_vio is set.
LEMMA StepAttempt ==
  ASSUME Timely, Typed, OneThread, InOrder, Lag, Fits, Attempt, Next
  PROVE  Attempt'
<1> USE DEF buffers, flags, filter
<1>0. /\ Window \in Nat /\ Slack \in Nat /\ InitTime \in Nat /\ MaxLag \in Nat
      /\ Window \div 2 \in Nat /\ Window \div 2 <= Window
      /\ InitTime >= 1 /\ MaxLag >= 1 /\ MaxLag <= Window
      /\ offset \in Int /\ offset >= Window \div 2 - Window
      /\ now \in Nat /\ frame \in Nat /\ timestamp \in Int
      /\ init.begun \in Nat /\ init.result \in Int
      /\ Ahead \in Nat /\ now <= Ahead /\ Ahead <= now + 1
  BY Numbers
<1>n. UNCHANGED offset
  BY DEF Next, WorkerSteps, InitSteps, ReadOldest, FeedImu, FeedCamera,
     ZuptAccept, StartThread, SeeRunning, PushFrame, SeeSuccess, Propagate,
     MarginalizeOldClone, Solve, Succeed, TakeQueue, Move, Finish, Fail,
     EndThread
<1>1. CASE ReadOldest
  <2>1. /\ imu'.pc = "feed" /\ imu.pc = "idle"
        /\ init.pc \in {"solving", "queue", "move", "ending"} => now < init.begun + InitTime
        /\ UNCHANGED <<now, init, worker, frame, timestamp, running, success, initialized>>
    BY <1>1 DEF ReadOldest
  <2>2. init.pc \in {"solving", "queue", "move", "ending"} => Ahead' <= init.begun + InitTime
    BY <1>0, <2>1 DEF Ahead
  <2> QED BY <1>n, <2>1, <2>2 DEF Attempt, Solved, Known, Seen
<1>2. CASE FeedImu
  <2>1. /\ imu'.pc = "idle" /\ imu.pc = "feed" /\ now' = now + 1
        /\ UNCHANGED <<init, worker, frame, timestamp, running, success, initialized>>
    BY <1>2 DEF FeedImu
  <2>2. Ahead' = Ahead
    BY <2>1 DEF Ahead
  <2> QED BY <1>n, <2>1, <2>2 DEF Attempt, Solved, Known, Seen
<1>3. ASSUME NEW c \in Times, FeedCamera(c) PROVE Attempt'
  <2>1. /\ worker = "idle" /\ frame < c /\ c + offset < now /\ frame' = c /\ c \in Nat
        /\ ~initialized => worker' = "try"
        /\ UNCHANGED <<now, imu, init, timestamp, running, success, initialized>>
    BY <1>3 DEF FeedCamera, Times
  <2>2. Solved' => frame' # 0 /\ frame' + offset >= 0
    BY <1>0, <2>1 DEF Attempt, Solved
  <2>3. ASSUME success, ~initialized, init.pc = "none"
        PROVE  Known(timestamp, Seen')
    <3>1. frame # 0 /\ frame + offset >= 0
      BY <2>3 DEF Attempt, Solved
    <3>2. Ahead <= frame + offset + MaxLag
      BY <1>0, <3>1 DEF Lag
    <3>3. Seen' <= Seen /\ Seen' \in Int /\ Seen \in Int
      BY <1>0, <1>n, <2>1, <2>3, <3>2 DEF Seen
    <3>4. Known(timestamp, Seen)
      BY <2>3 DEF Attempt
    <3> QED BY <1>0, <3>3, <3>4, KnownLater
  <2> QED BY <1>n, <2>1, <2>2, <2>3 DEF Attempt, Known, Ahead
<1>4. CASE ZuptAccept \/ Propagate \/ MarginalizeOldClone
  <2>1. initialized /\ init.pc = "none" /\ success
    BY <1>4 DEF ZuptAccept, Propagate, MarginalizeOldClone, OneThread, Fits
  <2>2. UNCHANGED <<frame, init, running, success, initialized>>
    BY <1>4 DEF ZuptAccept, Propagate, MarginalizeOldClone
  <2> QED BY <1>n, <2>1, <2>2 DEF Attempt, Solved
<1>5. CASE StartThread
  <2>1. ~success /\ init'.pc = "start" /\ UNCHANGED <<frame, success, initialized>>
    BY <1>5 DEF StartThread, Typed
  <2> QED BY <1>n, <2>1 DEF Attempt, Solved
<1>6. CASE SeeRunning
  <2>1. running /\ init.pc # "none"
    BY <1>6 DEF SeeRunning, Attempt
  <2>2. UNCHANGED <<now, imu, frame, init, timestamp, running, success, initialized>>
    BY <1>6 DEF SeeRunning
  <2> QED BY <1>n, <2>1, <2>2 DEF Attempt, Solved, Known, Ahead
<1>7. CASE PushFrame
  <2>1. /\ worker = "push" /\ worker' = "idle"
        /\ UNCHANGED <<now, imu, frame, init, timestamp, running, success, initialized>>
    BY <1>7 DEF PushFrame
  <2>2. Seen' = Seen
    BY <1>n, <2>1 DEF Seen
  <2> QED BY <1>n, <2>1, <2>2 DEF Attempt, Solved, Known, Ahead
<1>8. CASE SeeSuccess
  <2>1. /\ initialized' /\ ~running
        /\ UNCHANGED <<now, imu, frame, init, timestamp, running, success>>
    BY <1>8 DEF SeeSuccess
  <2> QED BY <1>n, <2>1 DEF Attempt, Solved, Known, Ahead
<1>9. CASE Solve
  <2>1. PICK r \in {None} \cup StaticTimes \cup DynamicTimes :
           init' = [pc |-> "solving", begun |-> now, result |-> r]
    BY <1>9 DEF Solve
  <2>2. init.pc = "start" /\ UNCHANGED <<now, imu, frame, timestamp, running, success>>
    BY <1>9 DEF Solve
  <2>3. ~success /\ frame # 0 /\ frame + offset < now
    BY <2>2 DEF Fits, Typed, Lag
  <2>4. TrimmedLo \in Nat
    BY TrimTyped
  <2>5. Ahead' <= now + InitTime
    BY <1>0, <2>2 DEF Ahead
  <2>6. r = None \/ (frame + offset >= 0 /\ Known(r, now))
    <3>1. CASE r \in StaticTimes
      <4>1. now - TrimmedLo >= Window /\ r = now - Window \div 2
        BY <1>0, <2>4, <3>1 DEF StaticTimes
      <4>2. now >= Window
        BY <1>0, <2>4, <4>1
      <4>3. now <= frame + offset + MaxLag
        BY <1>0, <4>2 DEF Lag
      <4>4. frame + offset >= 0
        BY <1>0, <4>2, <4>3
      <4>5. Known(r, now)
        BY <1>0, <4>1, <4>2 DEF Known
      <4> QED BY <4>4, <4>5
    <3>2. CASE r \in DynamicTimes
      <4>1. TrimmedLo < frame - Window + offset /\ r = frame
        BY <3>2 DEF DynamicTimes
      <4>2. frame + offset >= 0
        BY <1>0, <2>4, <4>1
      <4>3. now <= frame + offset + MaxLag
        BY <1>0, <2>3, <4>2 DEF Lag
      <4>4. Known(r, now)
        BY <1>0, <4>1, <4>2, <4>3 DEF Known
      <4> QED BY <4>2, <4>4
    <3> QED BY <2>1, <3>1, <3>2
  <2>7. init'.pc = "solving" /\ init'.begun = now /\ init'.result = r
    BY <2>1
  <2> QED BY <1>n, <2>2, <2>3, <2>5, <2>6, <2>7 DEF Attempt, Solved, Known
<1>10. CASE Succeed
  <2>1. /\ init.pc = "solving" /\ init.result # None /\ timestamp' = init.result
        /\ init'.pc = "queue" /\ init'.begun = init.begun
        /\ UNCHANGED <<now, imu, frame, running, success>>
    BY <1>10 DEF Succeed, Typed
  <2>2. ~success
    BY <2>1 DEF Fits
  <2> QED BY <1>n, <2>1, <2>2 DEF Attempt, Solved, Known, Ahead
<1>11. CASE TakeQueue
  <2>1. /\ init.pc = "queue" /\ init'.pc = "move" /\ init'.begun = init.begun
        /\ UNCHANGED <<now, imu, frame, running, success, timestamp>>
    BY <1>11 DEF TakeQueue, Typed
  <2>2. ~success
    BY <2>1 DEF Fits
  <2> QED BY <1>n, <2>1, <2>2 DEF Attempt, Solved, Known, Ahead
<1>12. CASE Move
  <2>1. init.pc = "move" /\ moves # <<>> /\ UNCHANGED <<now, imu, frame, running>>
    BY <1>12 DEF Move
  <2>2. ~success /\ UNCHANGED <<init, success>>
    BY <1>12, <2>1, MoveAdds DEF Fits
  <2>3. Head(moves) \in Int /\ timestamp < Head(moves)
    BY <2>1, HeadTail DEF InOrder, Times
  <2>4. timestamp' = Head(moves)
    BY <1>0, <1>12, <2>3 DEF Move
  <2>5. Known(timestamp', init.begun)
    BY <1>0, <2>1, <2>3, <2>4, KnownLater DEF Attempt
  <2> QED BY <1>n, <2>1, <2>2, <2>5 DEF Attempt, Solved, Known, Ahead
<1>13. CASE Finish
  <2>1. /\ init.pc = "move" /\ init'.pc = "ending" /\ init'.begun = init.begun
        /\ UNCHANGED <<now, imu, frame, running, timestamp>>
    BY <1>13 DEF Finish, Typed
  <2> QED BY <1>n, <2>1 DEF Attempt, Solved, Known, Ahead
<1>14. CASE Fail
  <2>1. /\ init.pc = "solving" /\ init'.pc = "ending" /\ init'.begun = init.begun
        /\ ~success' /\ UNCHANGED <<now, imu, frame, running>>
    BY <1>14 DEF Fail, Typed
  <2> QED BY <1>n, <2>1 DEF Attempt, Solved, Ahead
<1>15. CASE EndThread
  <2>1. /\ init.pc = "ending" /\ init'.pc = "none" /\ ~running'
        /\ UNCHANGED <<now, imu, frame, worker, timestamp, success, initialized>>
    BY <1>15 DEF EndThread
  <2>2. ASSUME success PROVE Known(timestamp, Seen)
    <3>1. /\ Known(timestamp, init.begun) /\ Ahead <= init.begun + InitTime
          /\ frame # 0
      BY <2>1, <2>2 DEF Attempt, Solved
    <3>2. frame + offset < now
      BY <3>1 DEF Lag
    <3>3. Seen <= init.begun /\ Seen \in Int
      BY <1>0, <3>1, <3>2 DEF Seen
    <3> QED BY <1>0, <3>1, <3>3, KnownLater
  <2>3. Seen' = Seen
    BY <1>n, <2>1 DEF Seen
  <2> QED BY <1>n, <2>1, <2>2, <2>3 DEF Attempt, Solved, Known
<1> QED
  BY <1>1, <1>2, <1>3, <1>4, <1>5, <1>6, <1>7, <1>8, <1>9, <1>10, <1>11, <1>12, <1>13,
     <1>14, <1>15 DEF Next, WorkerSteps, InitSteps
\* The readings a propagation needs are there: for the worker by Retained, for
\* the thread because its attempt has not taken longer than what is kept.
LEMMA WorkerReaches ==
  ASSUME Timely, Typed, OneThread, Lag, Retention, Propagate
  PROVE  Reaches(frame)
<1>1. frame # 0 /\ initialized
  BY DEF Propagate, Typed, OneThread
<1>2. now \in Nat /\ frame \in Nat /\ offset \in Int
  BY Numbers
<1> QED BY <1>1, <1>2 DEF Lag, Retention, Retained, Reaches

\* A frame the thread moves to is within what the callback retained meanwhile.
LEMMA MoveReaches ==
  ASSUME Timely, Typed, OneThread, InOrder, Lag, Attempt, Retention,
         init.pc = "move", moves # <<>>
  PROVE  Reaches(Head(moves))
<1>0. /\ Window \in Nat /\ Slack \in Nat /\ InitTime \in Nat /\ MaxLag \in Nat
      /\ Window \div 2 \in Nat /\ MaxLag >= 1
      /\ InitTime + 2 * MaxLag - 2 <= Window - Window \div 2 + 2 * Slack
      /\ InitTime + 3 * MaxLag - 2 <= Window + 2 * Slack
      /\ offset \in Int /\ now \in Nat /\ frame \in Nat /\ timestamp \in Int
      /\ imuLo \in Nat /\ init.begun \in Nat
      /\ Abs(offset) \in Nat /\ Abs(offset) >= -offset
      /\ Ahead \in Nat /\ now <= Ahead
  BY Numbers
<1>1. Head(moves) \in Int /\ Head(moves) <= frame
  BY HeadTail DEF InOrder, Times
<1>2. Head(moves) + offset <= now
  BY <1>0, <1>1 DEF Lag, Typed
<1>3. Known(timestamp, init.begun) /\ Ahead <= init.begun + InitTime
  BY DEF Attempt
<1>4. imuLo = 0 \/ imuLo <= now - Window - Abs(offset) - 2 * Slack
  BY DEF Retention, OneThread
<1>5. imuLo <= timestamp + offset
  <2>1. timestamp + offset >= 0
    BY <1>3 DEF Known
  <2>2. timestamp >= init.begun - Window \div 2 \/ timestamp + offset >= init.begun - MaxLag
    BY <1>3 DEF Known
  <2> HIDE DEF Abs
  <2>3. now <= init.begun + InitTime
    BY <1>0, <1>3
  <2>4. CASE timestamp >= init.begun - Window \div 2
    <3> DEFINE half == Window \div 2
    <3>1. half \in Nat /\ timestamp >= init.begun - half
          /\ InitTime <= Window - half + 2 * Slack
      BY <1>0, <2>4
    <3> HIDE DEF half
    <3> QED BY <1>0, <1>4, <2>1, <2>3, <3>1
  <2>5. CASE timestamp + offset >= init.begun - MaxLag
    BY <1>0, <1>4, <2>1, <2>3, <2>5
  <2> QED BY <2>2, <2>4, <2>5
<1> QED BY <1>2, <1>5 DEF Reaches

\* What the worker finds when it sees the success.
LEMMA HandOver ==
  ASSUME Timely, Typed, OneThread, Lag, WindowKept, Attempt, Retention,
         SeeSuccess
  PROVE  Retained(imuLo) /\ (imu.pc = "feed" => Retained(imu.oldest - Slack))
<1>0. /\ Window \in Nat /\ Slack \in Nat /\ InitTime \in Nat /\ MaxLag \in Nat
      /\ Window \div 2 \in Nat /\ MaxLag >= 1 /\ MaxLag <= Window /\ InitTime >= 1
      /\ InitTime + 2 * MaxLag - 2 <= Window - Window \div 2 + 2 * Slack
      /\ InitTime + 3 * MaxLag - 2 <= Window + 2 * Slack
      /\ offset \in Int /\ now \in Nat /\ frame \in Nat /\ timestamp \in Int
      /\ imuLo \in Nat /\ imu.oldest \in Int
      /\ Abs(offset) \in Nat /\ Abs(offset) >= -offset
      /\ Ahead \in Nat /\ now <= Ahead
  BY Numbers
<1>1. ~initialized /\ success /\ worker = "try" /\ ~running /\ init.pc = "none"
  BY DEF SeeSuccess, OneThread
<1>2. /\ frame # 0 /\ frame + offset >= 0
      /\ Known(timestamp, frame + offset + 2 - InitTime - MaxLag)
  <2>1. Seen = frame + offset + 2 - InitTime - MaxLag
    BY <1>0, <1>1 DEF Seen
  <2> QED BY <1>1, <2>1 DEF Attempt, Solved
<1>3. Ahead <= frame + offset + MaxLag
  BY <1>0, <1>2 DEF Lag
<1>4. ASSUME NEW t \in Int, t = 0 \/ t <= Ahead - Window - Abs(offset) - 2 * Slack
      PROVE  Retained(t)
  <2>1. timestamp + offset >= 0
    BY <1>2 DEF Known
  <2>2. \/ timestamp >= frame + offset + 2 - InitTime - MaxLag - Window \div 2
        \/ timestamp + offset >= frame + offset + 2 - InitTime - MaxLag - MaxLag
    BY <1>0, <1>2 DEF Known
  <2>3. t <= timestamp + offset
    BY <1>0, <1>3, <1>4, <2>1, <2>2
  <2>4. t <= frame + offset
    BY <1>0, <1>2, <1>3, <1>4
  <2> QED BY <2>3, <2>4 DEF Retained
<1>5. Retained(imuLo)
  <2>1. imuLo = 0 \/ imuLo <= Ahead - Window - Abs(offset) - 2 * Slack
    BY <1>0, <1>1 DEF Retention
  <2> QED BY <1>0, <1>4, <2>1
<1>6. ASSUME imu.pc = "feed" PROVE Retained(imu.oldest - Slack)
  <2>1. imu.oldest - Slack = Ahead - Window - Abs(offset) - 2 * Slack
    BY <1>0, <1>1, <1>6 DEF WindowKept, OldestWhileInit, Ahead
  <2> QED BY <1>0, <1>4, <2>1
<1> QED BY <1>5, <1>6

\* The readings from the state's time on stay in the propagator's buffer: while the
\* filter is not initialised through the window it keeps, afterwards because the
\* oldest clone, or the time of a zero-velocity update, bounds the trim.
LEMMA StepRetention ==
  ASSUME Timely, Typed, OneThread, InOrder, Lag, WindowKept, Fits,
         Attempt, Retention, Next
  PROVE  Retention'
<1> USE DEF buffers, flags, filter
<1>0. /\ Window \in Nat /\ Slack \in Nat /\ offset \in Int /\ offset >= -Slack
      /\ now \in Nat /\ frame \in Nat /\ timestamp \in Int /\ timestamp >= -1
      /\ imuLo \in Nat /\ imu.oldest \in Int /\ Abs(offset) \in Nat
  BY Numbers
<1>n. UNCHANGED offset
  BY DEF Next, WorkerSteps, InitSteps, ReadOldest, FeedImu, FeedCamera,
     ZuptAccept, StartThread, SeeRunning, PushFrame, SeeSuccess, Propagate,
     MarginalizeOldClone, Solve, Succeed, TakeQueue, Move, Finish, Fail,
     EndThread
<1>m. clones \subseteq Times /\ \A t \in clones : t \in Nat /\ t <= frame
  BY DEF Retention, Typed, TypeOK, Times
<1>1. CASE ReadOldest
  <2>1. /\ UNCHANGED <<now, imuLo, frame, timestamp, initialized, clones, covered>>
        /\ initialized => imu'.oldest = OldestNeeded
    BY <1>1 DEF ReadOldest
  <2>2. Retained(OldestNeeded - Slack)
    <3>1. CASE OldestNeeded = -1
      BY <1>0, <3>1 DEF Retained
    <3>2. CASE OldestNeeded # -1
      <4>1. /\ clones # {} /\ OldestNeeded = Least(clones)
            /\ ~(Least(clones) > timestamp)
        BY <3>2 DEF OldestNeeded, None
      <4>2. Least(clones) \in Nat /\ Least(clones) <= frame
        BY <1>m, <4>1, LeastClone
      <4> QED BY <1>0, <4>1, <4>2 DEF Retained
    <3> QED BY <3>1, <3>2
  <2> QED BY <1>n, <2>1, <2>2 DEF Retention, Retained, Abs
<1>2. CASE FeedImu
  <2>1. /\ imu.pc = "feed" /\ imu'.pc = "idle" /\ now' = now + 1
        /\ imuLo' = Larger(imuLo, imu.oldest - Slack)
        /\ UNCHANGED <<frame, timestamp, initialized, clones, covered>>
    BY <1>2 DEF FeedImu
  <2>2. imuLo' = imuLo \/ imuLo' = imu.oldest - Slack
    BY <2>1 DEF Larger
  <2>3. ASSUME initialized PROVE Retained(imuLo')
    BY <2>1, <2>2, <2>3 DEF Retention
  <2>4. ASSUME ~initialized
        PROVE  imuLo' = 0 \/ imuLo' <= now' - Window - Abs(offset) - 2 * Slack
    <3>1. imu.oldest - Slack = now + 1 - Window - Abs(offset) - 2 * Slack
      BY <1>0, <2>1, <2>4 DEF WindowKept, OldestWhileInit
    <3>2. imuLo = 0 \/ imuLo <= now - Window - Abs(offset) - 2 * Slack
      BY <2>4 DEF Retention
    <3> QED BY <1>0, <2>1, <2>2, <3>1, <3>2
  <2> QED BY <1>n, <2>1, <2>3, <2>4 DEF Retention, Retained, Abs
<1>3. ASSUME NEW c \in Times, FeedCamera(c) PROVE Retention'
  <2>1. /\ frame < c /\ frame' = c /\ c \in Nat
        /\ UNCHANGED <<now, imuLo, imu, timestamp, initialized, clones, covered>>
    BY <1>3 DEF FeedCamera, Times
  <2>2. \A t \in clones : t <= c
    BY <1>0, <1>m, <2>1
  <2>3. ASSUME NEW t \in Int, Retained(t) PROVE t <= timestamp + offset /\ t <= c + offset
    BY <1>0, <2>1, <2>3 DEF Retained
  <2>4. imuLo \in Int /\ imu.oldest - Slack \in Int
    BY <1>0
  <2> QED BY <1>n, <2>1, <2>2, <2>3, <2>4 DEF Retention, Retained, Abs
<1>4. CASE ZuptAccept
  <2>1. initialized
    BY <1>4 DEF ZuptAccept, OneThread
  <2>2. /\ timestamp' = frame /\ imuLo' = Larger(imuLo, frame + offset - Slack)
        /\ UNCHANGED <<imu, frame, initialized, clones, covered>>
    BY <1>4 DEF ZuptAccept
  <2>3. imuLo' <= frame + offset
    BY <1>0, <2>1, <2>2 DEF Retention, Retained, Larger
  <2>4. imu.pc = "feed" => imu.oldest - Slack <= frame + offset
    BY <2>1 DEF Retention, Retained
  <2> QED BY <1>n, <2>1, <2>2, <2>3, <2>4 DEF Retention, Retained
<1>5. CASE StartThread \/ SeeRunning \/ PushFrame
  <2>1. UNCHANGED <<now, imuLo, imu, frame, timestamp, initialized, clones, covered>>
    BY <1>5 DEF StartThread, SeeRunning, PushFrame
  <2> QED BY <1>n, <2>1 DEF Retention, Retained, Abs
<1>6. CASE SeeSuccess
  <2>1. initialized' /\ UNCHANGED <<imuLo, imu, frame, timestamp, clones, covered>>
    BY <1>6 DEF SeeSuccess
  <2> QED BY <1>6, <1>n, <2>1, HandOver DEF Retention, Retained
<1>7. CASE Propagate
  <2>1. initialized /\ UNCHANGED <<imuLo, imu, frame, initialized>>
    BY <1>7 DEF Propagate, OneThread
  <2>2. CASE timestamp >= frame
    <3>1. UNCHANGED <<timestamp, clones, covered>>
      BY <1>7, <2>2 DEF Propagate
    <3> QED BY <1>n, <2>1, <3>1 DEF Retention, Retained
  <2>3. CASE ~(timestamp >= frame)
    <3>1. timestamp' = frame /\ clones' = clones \cup {frame}
      BY <1>7, <2>3 DEF Propagate, PropagateAndClone
    <3>2. covered'
      <4>1. covered' = (covered /\ Reaches(frame))
        BY <1>7, <2>3 DEF Propagate, PropagateAndClone
      <4>2. Reaches(frame)
        BY <1>7, WorkerReaches
      <4> QED BY <4>1, <4>2 DEF Retention
    <3>3. \A t \in clones' : t <= frame
      BY <1>0, <1>m, <3>1
    <3> QED BY <1>n, <2>1, <3>1, <3>2, <3>3 DEF Retention, Retained
  <2> QED BY <2>2, <2>3
<1>8. CASE MarginalizeOldClone
  <2>1. /\ clones' \subseteq clones
        /\ UNCHANGED <<now, imuLo, imu, frame, timestamp, initialized, covered>>
    BY <1>8, OldestOnly DEF MarginalizeOldClone
  <2> QED BY <1>n, <2>1 DEF Retention, Retained, Abs
<1>9. CASE Solve
  BY <1>9, <1>n DEF Solve, Retention, Retained, Abs
<1>10. CASE Succeed
  <2>1. ~initialized /\ UNCHANGED <<now, imuLo, imu, frame, initialized, clones, covered>>
    BY <1>10 DEF Succeed, OneThread
  <2> QED BY <1>n, <2>1 DEF Retention, Abs
<1>11. CASE TakeQueue
  BY <1>11, <1>n DEF TakeQueue, Retention, Retained, Abs
<1>12. CASE Move
  <2>1. /\ init.pc = "move" /\ moves # <<>> /\ ~initialized
        /\ UNCHANGED <<now, imuLo, imu, frame, initialized>>
    BY <1>12 DEF Move, OneThread
  <2>2. Head(moves) \in Nat /\ timestamp < Head(moves) /\ Head(moves) <= frame
    BY <2>1, HeadTail DEF InOrder, Times
  <2>3. clones' = clones \cup {Head(moves)}
    BY <1>12, MoveAdds
  <2>4. covered'
    <3>1. covered' = (covered /\ Reaches(Head(moves)))
      BY <1>0, <1>12, <2>2 DEF Move
    <3>2. Reaches(Head(moves))
      BY <2>1, MoveReaches
    <3> QED BY <3>1, <3>2 DEF Retention
  <2>5. \A t \in clones' : t <= frame
    BY <1>m, <2>2, <2>3
  <2> QED BY <1>n, <2>1, <2>4, <2>5 DEF Retention, Abs
<1>13. CASE Finish \/ Fail \/ EndThread
  <2>1. UNCHANGED <<now, imuLo, imu, frame, timestamp, initialized, clones, covered>>
    BY <1>13 DEF Finish, Fail, EndThread
  <2> QED BY <1>n, <2>1 DEF Retention, Retained, Abs
<1> QED
  BY <1>1, <1>2, <1>3, <1>4, <1>5, <1>6, <1>7, <1>8, <1>9, <1>10, <1>11, <1>12, <1>13
     DEF Next, WorkerSteps, InitSteps

\* Every propagation of the catch-up and of the running filter has readings at both
\* ends, when an attempt and the handling of a frame end soon enough.
THEOREM MovesCovered ==
  ASSUME Timely
  PROVE  Spec => []PropagationCovered
<1>1. Init => Attempt /\ Retention
  <2> SUFFICES ASSUME Init PROVE Attempt /\ Retention
    OBVIOUS
  <2>1. Attempt
    BY DEF Init, Attempt, Solved
  <2>2. Retention
    BY DEF Init, Retention
  <2> QED BY <2>1, <2>2
<1>2. StartInv /\ Fits /\ Attempt /\ Retention /\ [Next]_(vars)
        => (Attempt /\ Retention)'
  <2> SUFFICES ASSUME StartInv, Fits, Attempt, Retention, [Next]_(vars)
               PROVE  Attempt' /\ Retention'
    OBVIOUS
  <2>1. CASE Next
    BY <2>1, StepAttempt, StepRetention DEF StartInv
  <2>2. CASE UNCHANGED vars
    <3> USE <2>2 DEF vars, buffers, flags, filter
    <3>1. Attempt'
      BY DEF Attempt, Solved, Known, Seen, Ahead
    <3>2. Retention'
      BY DEF Retention, Retained, Abs
    <3> QED BY <3>1, <3>2
  <2> QED BY <2>1, <2>2
<1>3. Retention => PropagationCovered
  BY DEF Retention, PropagationCovered
<1> QED BY <1>1, <1>2, <1>3, SpecFits, PTL DEF Spec

------------------------------------------------------------------------------
(* The selection of readings: ImuSelect *)

\* Times that do not fall, and that rise up to the m-th.
Falls(s)     == \E j \in 1..(Len(s) - 1) : s[j].t > s[j + 1].t
RisesTo(s, m) == \A j \in 1..(Len(s) - 1) : j < m => s[j].t < s[j + 1].t

Started == prop_data # <<>> /\ prop_data[1].t = time0 /\ ~Falls(prop_data)
                            /\ LastTime <= time1

LoopInv == pc = "loop" /\ Begins =>
    /\ i <= Len(imu_data)
    /\ prop_data = <<>> => imu_data[i] <= time0
    /\ prop_data # <<>> => Started /\ time0 <= imu_data[i] /\ LastTime <= imu_data[i]

SelectedInv == pc = "selected" /\ Begins /\ prop_data # <<>> => Started

ZeroDtInv == pc = "zerodt" /\ Begins =>
    Started /\ LastTime = time1 /\ i <= Len(prop_data) /\ RisesTo(prop_data, i)

DoneInv == pc = "done" /\ Begins /\ prop_data # <<>> =>
    Started /\ LastTime = time1 /\ RisesTo(prop_data, Len(prop_data))

\* Nothing is selected from a single reading.
TwoInv == prop_data # <<>> => Len(imu_data) >= 2

SelectInv == SelectTypeOK /\ Ascending(imu_data) /\ TwoInv /\ (pc = "zerodt" => prop_data # <<>>)
               /\ LoopInv /\ SelectedInv /\ ZeroDtInv /\ DoneInv

------------------------------------------------------------------------------
\* A selected reading carries a time.
LEMMA SelectionTime == \A p \in Selection : p.t \in Int
<1>1. \A p \in Selection : p.t \in Stamps
  BY DEF Selection
<1>2. QED
  BY <1>1, SelectAssumption DEF Stamps, SelectAssumption

\* Appending a reading that is not before the last keeps the times in order.
LEMMA AppendInOrder ==
  ASSUME NEW s \in Seq(Selection), NEW p \in Selection,
         ~Falls(s), s # <<>> => s[Len(s)].t <= p.t
  PROVE  /\ Append(s, p) \in Seq(Selection) /\ Append(s, p) # <<>>
         /\ Len(Append(s, p)) = Len(s) + 1
         /\ ~Falls(Append(s, p))
         /\ Append(s, p)[1] = IF s = <<>> THEN p ELSE s[1]
         /\ Append(s, p)[Len(Append(s, p))] = p
<1> DEFINE r == Append(s, p)
<1>1. /\ r \in Seq(Selection) /\ Len(r) = Len(s) + 1 /\ Len(s) \in Nat
      /\ r[Len(s) + 1] = p /\ \A j \in 1..Len(s) : r[j] = s[j]
  OBVIOUS
<1>2. \A j \in 1..Len(r) : r[j].t \in Int
  <2>1. \A j \in 1..Len(r) : r[j] \in Selection
    BY <1>1
  <2>2. QED
    BY <2>1, SelectionTime
<1>3. ASSUME NEW j \in 1..(Len(r) - 1) PROVE r[j].t <= r[j + 1].t
  <2>1. CASE j < Len(s)
    <3>1. ~(s[j].t > s[j + 1].t) /\ r[j] = s[j] /\ r[j + 1] = s[j + 1]
      BY <1>1, <2>1 DEF Falls
    <3>2. r[j].t \in Int /\ r[j + 1].t \in Int
      BY <1>1, <1>2
    <3>3. QED
      BY <3>1, <3>2
  <2>2. CASE j = Len(s)
    BY <1>1, <2>2
  <2>3. QED
    BY <1>1, <2>1, <2>2
<1>4. ~Falls(r)
  <2>1. \A j \in 1..(Len(r) - 1) : r[j].t \in Int /\ r[j + 1].t \in Int
    BY <1>1, <1>2
  <2>2. QED
    BY <1>3, <2>1 DEF Falls
<1>5. r # <<>> /\ r[Len(r)] = p
  BY <1>1
<1>6. r[1] = IF s = <<>> THEN p ELSE s[1]
  BY <1>1
<1>7. QED
  BY <1>1, <1>4, <1>5, <1>6

\* A reading of the buffer, and a cut between two, are selections.
LEMMA SelectionTypes ==
  ASSUME SelectTypeOK, NEW j \in 1..Len(imu_data)
  PROVE  /\ Reading(j) \in Selection
         /\ j < Len(imu_data) => \A t \in Stamps : Interpolated(j, j + 1, t) \in Selection
         /\ j > 1 => \A t \in Stamps : Interpolated(j - 1, j, t) \in Selection
  BY SelectAssumption DEF SelectTypeOK, Reading, Interpolated, Selection, SelectAssumption

------------------------------------------------------------------------------
\* The initial states satisfy the invariant.
LEMMA InitSelectInv ==
  ASSUME SelectInit
  PROVE  SelectInv
<1>1. PICK n \in 0..MaxReadings : imu_data \in [1..n -> Stamps]
  BY DEF SelectInit
<1>2. imu_data \in Seq(Stamps) /\ Len(imu_data) = n
  BY <1>1, SelectAssumption DEF SelectAssumption
<1>3. SelectTypeOK
  BY <1>2, SelectAssumption DEF SelectInit, SelectTypeOK, SelectAssumption
<1>4. LoopInv
  BY <1>2 DEF SelectInit, LoopInv, Begins
<1>5. QED
  BY <1>3, <1>4 DEF SelectInit, SelectInv, TwoInv, SelectedInv, ZeroDtInv, DoneInv

\* No step breaks the invariant.
LEMMA NextSelectInv ==
  ASSUME SelectInv, [SelectNext]_selectVars
  PROVE  SelectInv'
<1> USE SelectAssumption DEF SelectInv, SelectAssumption
<1>0. /\ imu_data \in Seq(Stamps) /\ Stamps \subseteq Nat
      /\ \A j \in 1..Len(imu_data) : imu_data[j] \in Nat
      /\ \A j \in 1..(Len(imu_data) - 1) : imu_data[j] <= imu_data[j + 1]
      /\ time0 \in Nat /\ time1 \in Nat
  BY DEF SelectTypeOK, Stamps, Ascending
<1>1. ASSUME Start PROVE SelectInv'
  <2>1. i \in 1..Len(imu_data) /\ i < Len(imu_data) /\ imu_data[i] < time0
        /\ imu_data[i + 1] > time0
    BY <1>0, <1>1 DEF Start, InLoop, StartsPeriod, SelectTypeOK
  <2> DEFINE p == Interpolated(i, i + 1, time0)
  <2>2. p \in Selection /\ p.t = time0
    BY <2>1, SelectionTypes DEF SelectTypeOK, Interpolated
  <2>3. Append(prop_data, p) \in Seq(Selection)
    BY <2>2 DEF SelectTypeOK
  <2>4. SelectTypeOK'
    BY <1>1, <2>3 DEF Start, SelectTypeOK, args
  <2>5. ASSUME Begins PROVE /\ prop_data' = <<p>> /\ i' = i + 1
    <3>1. prop_data = <<>>
      BY <1>0, <1>1, <2>1, <2>5 DEF Start, InLoop, LoopInv
    <3>2. QED
      BY <1>1, <3>1 DEF Start
  <2>6. LoopInv'
    <3>1. ASSUME Begins' PROVE Begins
      BY <1>1, <3>1 DEF Start, Begins, args
    <3>2. ASSUME Begins
          PROVE  prop_data' # <<>> /\ Started' /\ LastTime' = time0
      BY <1>0, <1>1, <2>2, <2>5, <3>2 DEF Start, Started, LastTime, Falls, Begins, args
    <3>3. QED
      BY <1>0, <1>1, <2>1, <3>1, <3>2 DEF Start, LoopInv, args
  <2>7. QED
    BY <1>1, <2>1, <2>4, <2>6 DEF Start, InLoop, SelectedInv, ZeroDtInv, DoneInv, TwoInv, Ascending, args
<1>2. ASSUME Middle PROVE SelectInv'
  <2>1. i \in 1..Len(imu_data) /\ i < Len(imu_data) /\ imu_data[i] >= time0
        /\ imu_data[i + 1] <= time1 /\ imu_data[i] <= imu_data[i + 1]
    BY <1>0, <1>2 DEF Middle, InLoop, InPeriod, SelectTypeOK
  <2> DEFINE p == Reading(i)
  <2>2. p \in Selection /\ p.t = imu_data[i]
    BY <2>1, SelectionTypes DEF SelectTypeOK, Reading
  <2>3. prop_data \in Seq(Selection) /\ Append(prop_data, p) \in Seq(Selection)
    BY <2>2 DEF SelectTypeOK
  <2>4. SelectTypeOK'
    BY <1>2, <2>3 DEF Middle, SelectTypeOK, args
  <2>5. ASSUME Begins
        PROVE  /\ ~Falls(prop_data)
               /\ prop_data # <<>> => prop_data[Len(prop_data)].t <= p.t
               /\ prop_data # <<>> => prop_data[1].t = time0
               /\ prop_data = <<>> => p.t = time0
    BY <1>0, <1>2, <2>1, <2>2, <2>5
       DEF Middle, InLoop, LoopInv, Started, LastTime, Falls
  <2>6. LoopInv'
    <3>1. ASSUME Begins' PROVE Begins
      BY <1>2, <3>1 DEF Middle, Begins, args
    <3>2. ASSUME Begins
          PROVE  prop_data' # <<>> /\ Started' /\ LastTime' = imu_data[i]
      <4>1. prop_data' = Append(prop_data, p)
        BY <1>2 DEF Middle
      <4>2. /\ prop_data' # <<>> /\ ~Falls(prop_data')
            /\ prop_data'[1] = IF prop_data = <<>> THEN p ELSE prop_data[1]
            /\ prop_data'[Len(prop_data')] = p
        BY <2>2, <2>3, <2>5, <3>2, <4>1, AppendInOrder
      <4>3. QED
        BY <1>0, <1>2, <2>1, <2>2, <2>5, <3>2, <4>2 DEF Middle, Started, LastTime, args
    <3>3. QED
      BY <1>0, <1>2, <2>1, <3>1, <3>2 DEF Middle, LoopInv, args
  <2>7. QED
    BY <1>2, <2>1, <2>4, <2>6 DEF Middle, InLoop, SelectedInv, ZeroDtInv, DoneInv, TwoInv, Ascending, args
<1>3. ASSUME End PROVE SelectInv'
  <2>1. i \in 1..Len(imu_data) /\ i < Len(imu_data) /\ imu_data[i + 1] > time1
        /\ pc = "loop"
    BY <1>0, <1>3 DEF End, InLoop, EndsPeriod, SelectTypeOK
  <2>2. Closing(i) \in Seq(Selection)
    <3>1. time1 \in Stamps
      BY DEF SelectTypeOK
    <3>2. Reading(i) \in Selection /\ Interpolated(i, i + 1, time1) \in Selection
      BY <2>1, <3>1, SelectionTypes
    <3>3. i # 1 => Interpolated(i - 1, i, time1) \in Selection
      BY <2>1, <3>1, SelectionTypes
    <3>4. QED
      BY <3>2, <3>3 DEF Closing
  <2>3. prop_data' = prop_data \o Closing(i) /\ prop_data' \in Seq(Selection)
    BY <1>3, <2>2 DEF End, SelectTypeOK
  <2>4. SelectTypeOK'
    BY <1>3, <2>3 DEF End, SelectTypeOK, args
  <2>5. ASSUME Begins PROVE Started'
    <3>1. imu_data[i] >= time0
      BY <1>0, <1>3, <2>1, <2>5 DEF End, StartsPeriod, Begins
    <3>2. prop_data \in Seq(Selection)
      BY DEF SelectTypeOK
    <3>3. /\ prop_data = <<>> => imu_data[i] = time0
          /\ prop_data # <<>> => Started /\ LastTime <= imu_data[i] /\ LastTime <= time1
      BY <1>0, <2>1, <2>5, <3>1 DEF LoopInv, Started
    <3>4. CASE imu_data[i] > time1
      <4>1. prop_data # <<>> /\ i # 1
        BY <1>0, <2>1, <2>5, <3>3, <3>4 DEF Begins
      <4> DEFINE p == Interpolated(i - 1, i, time1)
      <4>2. p \in Selection /\ p.t = time1
        BY <2>1, <4>1, SelectionTypes DEF Interpolated, SelectTypeOK
      <4>3. prop_data' = Append(prop_data, p)
        BY <2>1, <2>3, <3>2, <3>4, <4>1, <4>2 DEF Closing
      <4>4. QED
        BY <1>0, <1>3, <3>2, <3>3, <4>1, <4>2, <4>3, AppendInOrder
           DEF End, Started, LastTime, args
    <3>5. CASE imu_data[i] = time1
      <4>1. prop_data # <<>>
        BY <1>0, <2>5, <3>3, <3>5 DEF Begins
      <4> DEFINE p == Reading(i)
      <4>2. p \in Selection /\ p.t = time1
        BY <2>1, <3>5, SelectionTypes DEF Reading, SelectTypeOK
      <4>3. prop_data' = Append(prop_data, p)
        BY <1>0, <2>1, <2>3, <3>2, <3>5, <4>2 DEF Closing
      <4>4. QED
        BY <1>0, <1>3, <3>2, <3>3, <4>1, <4>2, <4>3, AppendInOrder
           DEF End, Started, LastTime, args
    <3>6. CASE imu_data[i] < time1
      <4> DEFINE p == Reading(i)
                 q == Interpolated(i, i + 1, time1)
                 s == Append(prop_data, p)
      <4>1. p \in Selection /\ p.t = imu_data[i] /\ q \in Selection /\ q.t = time1
        BY <2>1, SelectionTypes DEF Reading, Interpolated, SelectTypeOK
      <4>2. prop_data' = Append(s, q)
        BY <1>0, <2>1, <2>3, <3>2, <3>6, <4>1 DEF Closing
      <4>3. ~Falls(prop_data)
        BY <3>3 DEF Started, Falls
      <4>4. /\ s \in Seq(Selection) /\ s # <<>> /\ ~Falls(s) /\ s[Len(s)] = p
            /\ s[1].t = time0
        BY <3>2, <3>3, <4>1, <4>3, AppendInOrder DEF Started, LastTime
      <4>5. /\ prop_data' # <<>> /\ ~Falls(prop_data') /\ prop_data'[1] = s[1]
            /\ prop_data'[Len(prop_data')] = q
        <5>1. s[Len(s)].t <= q.t
          <6>1. p.t <= q.t
            BY <1>0, <2>1, <3>6, <4>1
          <6>2. s[Len(s)] = p
            BY <4>4
          <6>3. QED
            BY <6>1, <6>2
        <5>2. QED
          BY <4>1, <4>2, <4>4, <5>1, AppendInOrder
      <4>6. QED
        BY <1>0, <1>3, <4>1, <4>4, <4>5 DEF End, Started, LastTime, args
    <3>7. QED
      BY <1>0, <2>1, <3>4, <3>5, <3>6
  <2>6. SelectedInv'
    BY <1>3, <2>5 DEF End, SelectedInv, Begins, args
  <2>7. QED
    BY <1>3, <2>1, <2>4, <2>6 DEF End, LoopInv, ZeroDtInv, DoneInv, TwoInv, Ascending, args
<1>4. ASSUME Pass PROVE SelectInv'
  <2>1. i \in 1..Len(imu_data) /\ i < Len(imu_data) /\ imu_data[i + 1] <= time1
        /\ imu_data[i] < time0 /\ imu_data[i + 1] <= time0
    BY <1>0, <1>4 DEF Pass, InLoop, StartsPeriod, InPeriod, EndsPeriod, SelectTypeOK
  <2>2. SelectTypeOK'
    BY <1>4 DEF Pass, SelectTypeOK, args
  <2>3. ASSUME Begins PROVE prop_data = <<>>
    BY <1>0, <1>4, <2>1, <2>3 DEF Pass, InLoop, LoopInv
  <2>4. LoopInv'
    <3>1. ASSUME Begins' PROVE Begins
      BY <1>4, <3>1 DEF Pass, Begins, args
    <3>2. i + 1 <= Len(imu_data)
      BY <2>1, <1>0
    <3>3. QED
      BY <1>4, <2>1, <2>3, <3>1, <3>2 DEF Pass, LoopInv, args
  <2>5. QED
    BY <1>4, <2>2, <2>4
       DEF Pass, InLoop, SelectedInv, ZeroDtInv, DoneInv, TwoInv, Ascending, args
<1>5. ASSUME LoopEnds PROVE SelectInv'
  <2>1. SelectTypeOK'
    BY <1>5 DEF LoopEnds, SelectTypeOK, args
  <2>2. SelectedInv'
    BY <1>5 DEF LoopEnds, LoopInv, SelectedInv, Started, LastTime, Begins, args
  <2>3. QED
    BY <1>5, <2>1, <2>2 DEF LoopEnds, LoopInv, ZeroDtInv, DoneInv, TwoInv, Ascending, args
<1>6. ASSUME ReturnNothing PROVE SelectInv'
  BY <1>6 DEF ReturnNothing, SelectTypeOK, LoopInv, SelectedInv, ZeroDtInv, DoneInv,
              TwoInv, Ascending, args
<1>7. ASSUME Stretch PROVE SelectInv'
  <2>1. prop_data \in Seq(Selection) /\ prop_data # <<>> /\ time1 \in Stamps
    BY <1>7 DEF Stretch, SelectTypeOK
  <2> DEFINE n == Len(imu_data)
             p == Interpolated(n - 1, n, time1)
  <2>2. p \in Selection /\ p.t = time1
    <3>1. n \in Nat /\ n <= MaxReadings /\ n >= 2
      BY <2>1 DEF SelectTypeOK, TwoInv
    <3>2. QED
      BY <2>1, <3>1 DEF Interpolated, Selection
  <2>3. prop_data' = IF LastTime # time1 THEN Append(prop_data, p) ELSE prop_data
    BY <1>7 DEF Stretch, Stretched
  <2>4. prop_data' \in Seq(Selection) /\ prop_data' # <<>>
    BY <2>1, <2>2, <2>3
  <2>5. SelectTypeOK'
    BY <1>7, <2>4 DEF Stretch, SelectTypeOK, args
  <2>6. ASSUME Begins PROVE Started' /\ LastTime' = time1
    <3>1. Started /\ ~Falls(prop_data) /\ prop_data[Len(prop_data)].t <= time1
      BY <1>7, <2>1, <2>6 DEF Stretch, SelectedInv, Started, LastTime
    <3>2. CASE LastTime = time1
      BY <1>0, <1>7, <2>3, <3>1, <3>2 DEF Stretch, Started, LastTime, args
    <3>3. CASE LastTime # time1
      <4>1. prop_data' = Append(prop_data, p)
        BY <2>3, <3>3
      <4>2. /\ prop_data' # <<>> /\ ~Falls(prop_data') /\ prop_data'[1] = prop_data[1]
            /\ prop_data'[Len(prop_data')] = p
        BY <2>1, <2>2, <3>1, <4>1, AppendInOrder
      <4>3. QED
        BY <1>0, <1>7, <2>2, <3>1, <4>2 DEF Stretch, Started, LastTime, args
    <3>4. QED
      BY <3>2, <3>3
  <2>7. ZeroDtInv'
    <3>1. i' = 1 /\ Len(prop_data') \in Nat \ {0}
      BY <1>7, <2>4 DEF Stretch
    <3>2. ASSUME Begins' PROVE Begins
      BY <1>7, <3>2 DEF Stretch, Begins, args
    <3>3. RisesTo(prop_data', 1)
      BY DEF RisesTo
    <3>4. QED
      BY <1>7, <2>6, <3>1, <3>2, <3>3 DEF Stretch, ZeroDtInv, args
  <2>8. QED
    BY <1>7, <2>1, <2>4, <2>5, <2>7
       DEF Stretch, LoopInv, SelectedInv, DoneInv, TwoInv, Ascending, args
<1>8. ASSUME DropZeroDt PROVE SelectInv'
  <2> DEFINE s == prop_data
             r == Without(prop_data, i)
  <2>1. /\ s \in Seq(Selection) /\ i \in 1..(Len(s) - 1) /\ s[i + 1].t = s[i].t
        /\ prop_data' = r /\ i' = i /\ pc = "zerodt" /\ pc' = "zerodt"
    BY <1>8 DEF DropZeroDt, Dropped, SelectTypeOK
  <2>2. /\ r \in Seq(Selection) /\ Len(r) = Len(s) - 1
        /\ \A k \in 1..Len(r) : r[k] = IF k < i THEN s[k] ELSE s[k + 1]
    <3>1. \A k \in 1..(Len(s) - 1) : s[k] \in Selection /\ s[k + 1] \in Selection
      BY <2>1
    <3>2. Len(s) - 1 \in Nat
      BY <2>1
    <3>3. r \in [1..(Len(s) - 1) -> Selection]
      BY <3>1 DEF Without
    <3>4. QED
      BY <3>2, <3>3 DEF Without
  <2>3. SelectTypeOK' /\ prop_data' # <<>>
    BY <1>8, <2>1, <2>2 DEF DropZeroDt, SelectTypeOK, args
  <2>4. ASSUME Begins PROVE Started' /\ LastTime' = time1 /\ RisesTo(r, i)
    <3>1. /\ s[1].t = time0 /\ s[Len(s)].t = time1 /\ RisesTo(s, i)
          /\ \A j \in 1..(Len(s) - 1) : ~(s[j].t > s[j + 1].t)
      BY <2>1, <2>4 DEF ZeroDtInv, Started, LastTime, Falls
    <3>2. r[1].t = time0
      BY <2>1, <2>2, <3>1
    <3>3. r[Len(r)].t = time1
      <4>1. CASE Len(r) < i
        BY <2>1, <2>2, <4>1
      <4>2. CASE Len(r) >= i
        BY <2>1, <2>2, <3>1, <4>2
      <4>3. QED
        BY <2>1, <2>2, <4>1, <4>2
    <3>4. ASSUME NEW j \in 1..(Len(r) - 1)
          PROVE  /\ ~(r[j].t > r[j + 1].t)
                 /\ j < i => r[j].t < r[j + 1].t
      <4>1. j \in 1..(Len(s) - 1) /\ j + 1 \in 1..(Len(s) - 1)
            /\ j \in 1..Len(r) /\ j + 1 \in 1..Len(r)
        BY <2>1, <2>2
      <4>2. CASE j + 1 < i
        BY <2>1, <2>2, <3>1, <4>1, <4>2 DEF RisesTo
      <4>3. CASE j + 1 = i
        <5>1. r[j] = s[j] /\ r[j + 1] = s[i + 1] /\ s[j + 1] = s[i]
          BY <2>1, <2>2, <4>1, <4>3
        <5>2. ~(s[j].t > s[j + 1].t) /\ s[j].t < s[j + 1].t
          BY <2>1, <3>1, <4>1, <4>3 DEF RisesTo
        <5>3. QED
          BY <2>1, <5>1, <5>2
      <4>4. CASE j >= i
        <5>1. r[j] = s[j + 1] /\ r[j + 1] = s[j + 2] /\ j + 2 = (j + 1) + 1
          BY <2>1, <2>2, <4>1, <4>4
        <5>2. ~(s[j + 1].t > s[j + 2].t)
          BY <3>1, <4>1, <5>1
        <5>3. QED
          BY <2>1, <4>1, <4>4, <5>1, <5>2
      <4>5. QED
        BY <2>1, <4>1, <4>2, <4>3, <4>4
    <3>5. QED
      BY <1>0, <1>8, <2>1, <2>3, <3>2, <3>3, <3>4
         DEF DropZeroDt, Started, LastTime, Falls, RisesTo, args
  <2>5. ZeroDtInv'
    <3>1. ASSUME Begins' PROVE Begins
      BY <1>8, <3>1 DEF DropZeroDt, Begins, args
    <3>2. i <= Len(r)
      BY <2>1, <2>2
    <3>3. QED
      BY <1>8, <2>1, <2>4, <3>1, <3>2 DEF DropZeroDt, ZeroDtInv, args
  <2>6. QED
    BY <1>8, <2>1, <2>3, <2>5
       DEF DropZeroDt, LoopInv, SelectedInv, DoneInv, TwoInv, Ascending, args
<1>9. ASSUME KeepDt PROVE SelectInv'
  <2>1. SelectTypeOK'
    BY <1>9 DEF KeepDt, SelectTypeOK, args
  <2>2. ZeroDtInv'
    <3>1. ASSUME Begins' PROVE Begins
      BY <1>9, <3>1 DEF KeepDt, Begins, args
    <3>2. /\ prop_data \in Seq(Selection) /\ i \in 1..(Len(prop_data) - 1)
          /\ i' = i + 1 /\ prop_data' = prop_data
          /\ prop_data[i + 1].t # prop_data[i].t
      BY <1>9 DEF KeepDt, SelectTypeOK
    <3>3. ASSUME Begins PROVE RisesTo(prop_data, i + 1)
      <4>1. RisesTo(prop_data, i) /\ ~Falls(prop_data)
        BY <1>9, <3>3 DEF KeepDt, ZeroDtInv, Started
      <4>2. prop_data[i].t \in Int /\ prop_data[i + 1].t \in Int
        <5>1. prop_data[i] \in Selection /\ prop_data[i + 1] \in Selection
          BY <3>2
        <5>2. QED
          BY <5>1, SelectionTime
      <4>3. prop_data[i].t < prop_data[i + 1].t
        BY <3>2, <4>1, <4>2 DEF Falls
      <4>4. QED
        BY <3>2, <4>1, <4>3 DEF RisesTo
    <3>4. QED
      BY <1>9, <3>1, <3>2, <3>3 DEF KeepDt, ZeroDtInv, Started, LastTime, args
  <2>3. QED
    BY <1>9, <2>1, <2>2
       DEF KeepDt, LoopInv, SelectedInv, DoneInv, TwoInv, Ascending, args
<1>10. ASSUME Return PROVE SelectInv'
  <2>1. SelectTypeOK'
    BY <1>10 DEF Return, SelectTypeOK, args
  <2>2. DoneInv'
    <3>1. ASSUME Begins' PROVE Begins
      BY <1>10, <3>1 DEF Return, Begins, args
    <3>2. ASSUME Begins PROVE i = Len(prop_data)
      BY <1>10, <3>2 DEF Return, ZeroDtInv, SelectTypeOK
    <3>3. QED
      BY <1>10, <3>1, <3>2 DEF Return, ZeroDtInv, DoneInv, Started, LastTime, args
  <2>3. QED
    BY <1>10, <2>1, <2>2
       DEF Return, LoopInv, SelectedInv, ZeroDtInv, TwoInv, Ascending, args
<1>11. CASE UNCHANGED selectVars
  BY <1>11 DEF selectVars, args, SelectTypeOK, LoopInv, SelectedInv, ZeroDtInv, DoneInv, TwoInv,
               Started, LastTime, Begins, Ascending
<1>12. QED
  BY <1>1, <1>2, <1>3, <1>4, <1>5, <1>6, <1>7, <1>8, <1>9, <1>10, <1>11 DEF SelectNext

\* The invariant holds throughout.
LEMMA SpecSelectInv == SelectSpec => []SelectInv
<1>1. SelectInit => SelectInv
  BY InitSelectInv
<1>2. SelectInv /\ [SelectNext]_selectVars => SelectInv'
  BY NextSelectInv
<1>3. QED
  BY <1>1, <1>2, PTL DEF SelectSpec

------------------------------------------------------------------------------
\* Type correctness, for buffers of every length (select_imu_readings).
THEOREM SelectTypes == SelectSpec => []SelectTypeOK
<1>1. SelectInv => SelectTypeOK
  BY DEF SelectInv
<1>2. QED
  BY SpecSelectInv, <1>1, PTL

\* The steps of what select_imu_readings returns add up to the whole period and
\* none of them is empty, for every buffer that reaches back to the start.
THEOREM CoversPeriod == SelectSpec => []WholePeriod
<1>1. SelectInv => WholePeriod
  BY DEF SelectInv, DoneInv, WholePeriod, Started, RisesTo, SelectTypeOK
<1>2. QED
  BY SpecSelectInv, <1>1, PTL
------------------------------------------------------------------------------
\* The times a selection carries, and those of the first n readings.
TimesOf(s) == {s[j].t : j \in 1..Len(s)}
Passed(d, n) == {d[j] : j \in 1..n}

\* What Exact says of the times, and of the selected readings of a buffer d.
Expected == {time0, time1} \cup {t \in ReadingTimes : time0 <= t /\ t <= time1}

Stands(d, p) ==
    IF p.from = p.to THEN p.t = d[p.from]
    ELSE p.to = p.from + 1 /\ d[p.from] < d[p.to] /\ d[p.from] <= p.t /\ p.t <= d[p.to]

IsSound(d, p) ==
    /\ {p.from, p.to} \subseteq 1..Len(d)
    /\ p.from # p.to /\ d[p.from] = d[p.to] => p.to = Len(d)

AllStand(d, s) == \A j \in 1..Len(s) : Stands(d, s[j])
AllSound(d, s) == \A j \in 1..Len(s) : IsSound(d, s[j])

BufferReaches == Begins /\ time1 <= imu_data[Len(imu_data)]

\* In the loop what is selected is the start and every reading passed since; a
\* reading behind the end is only met right after one that differs from it.
LoopExact == pc = "loop" =>
    /\ i > 1 => i <= Len(imu_data) /\ (imu_data[i] <= time1 \/ imu_data[i - 1] < imu_data[i])
    /\ Begins => AllStand(imu_data, prop_data)
    /\ Begins /\ prop_data # <<>> =>
          /\ i > 1
          /\ TimesOf(prop_data) = {time0} \cup {t \in Passed(imu_data, i - 1) : time0 <= t}
          /\ imu_data[i - 1] <= time1
          /\ LastTime = imu_data[i - 1] \/ imu_data[i - 1] < imu_data[i]

\* Behind it only the end of the period may be missing.
SelectedExact == pc = "selected" /\ BufferReaches =>
    /\ prop_data # <<>> /\ AllStand(imu_data, prop_data)
    /\ TimesOf(prop_data) \cup {time1} = Expected
    /\ LastTime # time1 => /\ imu_data[Len(imu_data) - 1] < imu_data[Len(imu_data)]
                           /\ imu_data[Len(imu_data) - 1] <= time1

DoneExact == pc \in {"zerodt", "done"} /\ BufferReaches =>
    AllStand(imu_data, prop_data) /\ TimesOf(prop_data) = Expected

\* Appending a reading adds its time.
LEMMA AppendTimes ==
  ASSUME NEW s \in Seq(Selection), NEW p \in Selection
  PROVE  /\ TimesOf(Append(s, p)) = TimesOf(s) \cup {p.t}
         /\ \A j \in 1..Len(Append(s, p)) :
               Append(s, p)[j] = p \/ \E k \in 1..Len(s) : Append(s, p)[j] = s[k]
<1> DEFINE r == Append(s, p)
<1>1. /\ Len(s) \in Nat /\ Len(r) = Len(s) + 1 /\ r[Len(s) + 1] = p
      /\ \A j \in 1..Len(s) : r[j] = s[j]
  OBVIOUS
<1> HIDE DEF r
<1>2. \A j \in 1..Len(r) : j \in 1..Len(s) \/ j = Len(s) + 1
  BY <1>1
<1>3. \A j \in 1..Len(r) : r[j] = p \/ \E k \in 1..Len(s) : r[j] = s[k]
  BY <1>1, <1>2
<1>4. TimesOf(r) \subseteq TimesOf(s) \cup {p.t}
  BY <1>3 DEF TimesOf
<1>5. \A j \in 1..Len(s) : j \in 1..Len(r)
  BY <1>1
<1>6. TimesOf(s) \subseteq TimesOf(r)
  BY <1>1, <1>5 DEF TimesOf
<1>7. p.t \in TimesOf(r)
  <2>1. Len(s) + 1 \in 1..Len(r)
    BY <1>1
  <2> QED BY <1>1, <2>1 DEF TimesOf
<1>8. TimesOf(r) = TimesOf(s) \cup {p.t}
  BY <1>4, <1>6, <1>7
<1> QED BY <1>3, <1>8 DEF r

\* Dropping the first of two readings at one time drops no time.
LEMMA WithoutTimes ==
  ASSUME NEW s \in Seq(Selection), NEW n \in 1..(Len(s) - 1), s[n + 1].t = s[n].t
  PROVE  /\ TimesOf(Without(s, n)) = TimesOf(s)
         /\ \A j \in 1..Len(Without(s, n)) : \E k \in 1..Len(s) : Without(s, n)[j] = s[k]
<1> DEFINE r == Without(s, n)
<1>1. /\ Len(s) \in Nat /\ Len(s) - 1 \in Nat /\ Len(r) = Len(s) - 1
      /\ \A k \in 1..Len(r) : r[k] = IF k < n THEN s[k] ELSE s[k + 1]
  BY DEF Without
<1> HIDE DEF r
<1>2. \A j \in 1..Len(r) : \E k \in 1..Len(s) : r[j] = s[k]
  <2> TAKE j \in 1..Len(r)
  <2>1. j \in 1..Len(s) /\ j + 1 \in 1..Len(s) /\ (r[j] = s[j] \/ r[j] = s[j + 1])
    BY <1>1
  <2> QED BY <2>1
<1>3. \A k \in 1..Len(s) : \E j \in 1..Len(r) : r[j].t = s[k].t
  <2> TAKE k \in 1..Len(s)
  <2>1. CASE k < n
    <3>1. k \in 1..Len(r) /\ r[k] = s[k]
      BY <1>1, <2>1
    <3> QED BY <3>1
  <2>2. CASE k = n
    <3>1. n \in 1..Len(r) /\ r[n] = s[n + 1]
      BY <1>1
    <3> QED BY <2>2, <3>1
  <2>3. CASE k > n
    <3>1. k - 1 \in 1..Len(r) /\ r[k - 1] = s[(k - 1) + 1] /\ (k - 1) + 1 = k
      BY <1>1, <2>3
    <3> QED BY <3>1
  <2> QED BY <2>1, <2>2, <2>3
<1>4. TimesOf(r) \subseteq TimesOf(s)
  BY <1>2 DEF TimesOf
<1>5. TimesOf(s) \subseteq TimesOf(r)
  BY <1>3 DEF TimesOf
<1>6. TimesOf(r) = TimesOf(s)
  BY <1>4, <1>5
<1> QED BY <1>2, <1>6 DEF r

\* No reading is later than one behind it in the buffer.
LEMMA InTimeOrder ==
  ASSUME imu_data \in Seq(Stamps), Ascending(imu_data)
  PROVE  \A j, m \in 1..Len(imu_data) : j <= m => imu_data[j] <= imu_data[m]
<1>1. /\ Len(imu_data) \in Nat /\ \A j \in 1..Len(imu_data) : imu_data[j] \in Nat
      /\ \A j \in 1..(Len(imu_data) - 1) : imu_data[j] <= imu_data[j + 1]
  BY SelectAssumption DEF SelectAssumption, Stamps, Ascending
<1> SUFFICES ASSUME NEW j \in 1..Len(imu_data), NEW m \in 1..Len(imu_data), j <= m,
                    imu_data[j] > imu_data[m]
             PROVE  FALSE
  BY <1>1
<1> DEFINE T == {k \in 1..Len(imu_data) : j <= k /\ imu_data[k] < imu_data[j]}
<1>2. T \in SUBSET Nat /\ m \in T
  BY <1>1
<1> DEFINE k == Least(T)
<1>3. k \in T /\ \A l \in T : k <= l
  BY <1>2, LeastMember
<1> HIDE DEF k
<1>4. k - 1 \in 1..(Len(imu_data) - 1) /\ j <= k - 1 /\ (k - 1) + 1 = k /\ k - 1 < k
  BY <1>1, <1>3
<1>5. imu_data[k - 1] <= imu_data[k]
  BY <1>1, <1>4
<1>6. k - 1 \in T
  BY <1>1, <1>3, <1>4, <1>5
<1>7. k <= k - 1
  BY <1>3, <1>6
<1> QED BY <1>3, <1>4, <1>7

\* The first n readings and the next are the first n + 1.
LEMMA PassOn ==
  ASSUME NEW d, NEW n \in Nat
  PROVE  Passed(d, n + 1) = Passed(d, n) \cup {d[n + 1]}
<1>1. 1..(n + 1) = 1..n \cup {n + 1}
  OBVIOUS
<1> QED BY <1>1 DEF Passed

\* A reading added to a selection.
LEMMA AppendExact ==
  ASSUME NEW d, NEW s \in Seq(Selection), NEW p \in Selection
  PROVE  /\ AllSound(d, s) /\ IsSound(d, p) => AllSound(d, Append(s, p))
         /\ AllStand(d, s) /\ Stands(d, p) => AllStand(d, Append(s, p))
<1>1. ASSUME AllSound(d, s), IsSound(d, p) PROVE AllSound(d, Append(s, p))
  <2> SUFFICES ASSUME NEW j \in 1..Len(Append(s, p)) PROVE IsSound(d, Append(s, p)[j])
    BY DEF AllSound
  <2> QED BY <1>1, AppendTimes DEF AllSound
<1>2. ASSUME AllStand(d, s), Stands(d, p) PROVE AllStand(d, Append(s, p))
  <2> SUFFICES ASSUME NEW j \in 1..Len(Append(s, p)) PROVE Stands(d, Append(s, p)[j])
    BY DEF AllStand
  <2> QED BY <1>2, AppendTimes DEF AllStand
<1> QED BY <1>1, <1>2

\* What is read of the buffer and of the selection.
LEMMA ExactNumbers ==
  ASSUME SelectInv
  PROVE  /\ imu_data \in Seq(Stamps) /\ prop_data \in Seq(Selection) /\ Stamps \subseteq Nat
         /\ Len(imu_data) \in Nat /\ Len(imu_data) <= MaxReadings /\ i \in Nat \ {0}
         /\ \A j \in 1..Len(imu_data) : imu_data[j] \in Nat
         /\ \A j, m \in 1..Len(imu_data) : j <= m => imu_data[j] <= imu_data[m]
         /\ time0 \in Nat /\ time1 \in Nat /\ time0 \in Stamps /\ time1 \in Stamps
         /\ Defined <=> AllSound(imu_data, prop_data)
<1>1. SelectTypeOK /\ Stamps \subseteq Nat
  BY SelectAssumption DEF SelectInv, SelectAssumption, Stamps
<1>2. Defined <=> AllSound(imu_data, prop_data)
  BY DEF Defined, AllSound, IsSound
<1>3. \A j, m \in 1..Len(imu_data) : j <= m => imu_data[j] <= imu_data[m]
  BY <1>1, InTimeOrder DEF SelectInv, SelectTypeOK
<1>4. /\ imu_data \in Seq(Stamps) /\ prop_data \in Seq(Selection)
      /\ Len(imu_data) <= MaxReadings /\ i \in Nat \ {0} /\ time0 \in Stamps /\ time1 \in Stamps
  BY <1>1 DEF SelectTypeOK
<1>5. /\ Len(imu_data) \in Nat /\ \A j \in 1..Len(imu_data) : imu_data[j] \in Nat
      /\ time0 \in Nat /\ time1 \in Nat
  <2>1. Len(imu_data) \in Nat /\ \A j \in 1..Len(imu_data) : imu_data[j] \in Stamps
    BY <1>4
  <2> QED BY <1>1, <1>4, <2>1
<1> QED BY <1>1, <1>2, <1>3, <1>4, <1>5

\* No reading up to the n-th is later than it.
LEMMA UpTo ==
  ASSUME SelectInv, NEW n \in 1..Len(imu_data)
  PROVE  \A j \in 1..n : imu_data[j] \in Nat /\ imu_data[j] <= imu_data[n]
<1> TAKE j \in 1..n
<1>1. j \in 1..Len(imu_data) /\ j <= n
  BY ExactNumbers
<1> QED BY <1>1, ExactNumbers

\* All that is selected stands for itself, at every stage.
ExactInv == Defined /\ LoopExact /\ SelectedExact /\ DoneExact

\* The cut at the start of the period.
LEMMA StartExact ==
  ASSUME SelectInv, ExactInv, Start
  PROVE  ExactInv'
<1>0. /\ imu_data' = imu_data /\ time0' = time0 /\ time1' = time1 /\ pc = "loop" /\ pc' = "loop"
      /\ i' = i + 1 /\ i \in 1..Len(imu_data) /\ i + 1 \in 1..Len(imu_data)
      /\ prop_data' = Append(prop_data, Interpolated(i, i + 1, time0))
      /\ imu_data[i + 1] > time0 /\ imu_data[i] < time0
  BY ExactNumbers DEF Start, InLoop, StartsPeriod, args
<1> DEFINE p == Interpolated(i, i + 1, time0)
<1>1. p \in Selection /\ p.t = time0 /\ p.from = i /\ p.to = i + 1
  BY <1>0, ExactNumbers, SelectionTypes DEF Interpolated, SelectInv
<1> HIDE DEF p
<1>2. imu_data[i] \in Nat /\ imu_data[i + 1] \in Nat /\ time0 \in Nat /\ time1 \in Nat
  BY <1>0, ExactNumbers
<1>3. IsSound(imu_data, p) /\ Stands(imu_data, p)
  BY <1>0, <1>1, <1>2 DEF IsSound, Stands
<1>4. Defined'
  <2>1. AllSound(imu_data, prop_data')
    BY <1>0, <1>1, <1>3, ExactNumbers, AppendExact DEF ExactInv, p
  <2> QED BY <1>0, <2>1 DEF Defined, AllSound, IsSound
<1>5. ASSUME Begins
      PROVE  /\ prop_data' = <<p>> /\ AllStand(imu_data, prop_data')
             /\ TimesOf(prop_data') = {time0} \cup {t \in Passed(imu_data, i) : time0 <= t}
             /\ imu_data[i] <= time1
  <2>1. prop_data = <<>>
    BY <1>0, <1>2, <1>5 DEF SelectInv, LoopInv
  <2>2. prop_data' = <<p>>
    BY <1>0, <2>1 DEF p
  <2>3. \A j \in 1..i : imu_data[j] \in Nat /\ imu_data[j] <= imu_data[i]
    BY UpTo, <1>0
  <2>4. \A t \in Passed(imu_data, i) : ~(time0 <= t)
    BY <1>0, <1>2, <2>3 DEF Passed
  <2>5. TimesOf(prop_data') = {time0}
    BY <1>1, <2>2 DEF TimesOf
  <2>6. TimesOf(prop_data') = {time0} \cup {t \in Passed(imu_data, i) : time0 <= t}
    BY <2>4, <2>5
  <2>7. imu_data[i] <= time1
    BY <1>0, <1>2, <1>5 DEF Begins
  <2> QED BY <1>3, <2>2, <2>6, <2>7 DEF AllStand
<1>6. LoopExact'
  <2>1. i' > 1 /\ i' <= Len(imu_data) /\ i' - 1 = i /\ imu_data[i' - 1] < imu_data[i']
    BY <1>0, <1>2
  <2>2. Begins' <=> Begins
    BY <1>0 DEF Begins
  <2> QED BY <1>0, <1>5, <2>1, <2>2 DEF LoopExact
<1> QED BY <1>0, <1>4, <1>6 DEF ExactInv, SelectedExact, DoneExact

\* A reading within the period joins what was selected before.
LEMMA OneMore ==
  ASSUME SelectInv, ExactInv, Begins, pc = "loop", i <= Len(imu_data), imu_data[i] >= time0
  PROVE  TimesOf(prop_data) \cup {imu_data[i]} = {time0} \cup {t \in Passed(imu_data, i) : time0 <= t}
<1>1. i \in 1..Len(imu_data) /\ imu_data[i] \in Nat /\ time0 \in Nat
  BY ExactNumbers
<1>2. CASE prop_data = <<>>
  <2>1. imu_data[i] = time0 /\ TimesOf(prop_data) = {}
    BY <1>1, <1>2 DEF SelectInv, LoopInv, TimesOf
  <2>2. \A j \in 1..i : imu_data[j] \in Nat /\ imu_data[j] <= imu_data[i]
    BY <1>1, UpTo
  <2>3. \A t \in Passed(imu_data, i) : t \in Nat /\ t <= time0
    BY <2>1, <2>2 DEF Passed
  <2>4. \A t \in Passed(imu_data, i) : time0 <= t => t = time0
    BY <1>1, <2>3
  <2> QED BY <2>1, <2>4
<1>3. CASE prop_data # <<>>
  <2>1. i - 1 \in Nat /\ (i - 1) + 1 = i
    BY <1>1
  <2>2. Passed(imu_data, i) = Passed(imu_data, i - 1) \cup {imu_data[i]}
    BY <2>1, PassOn
  <2>3. TimesOf(prop_data) = {time0} \cup {t \in Passed(imu_data, i - 1) : time0 <= t}
    BY <1>3 DEF ExactInv, LoopExact
  <2> QED BY <2>2, <2>3
<1> QED BY <1>2, <1>3

\* A reading within the period.
LEMMA MiddleExact ==
  ASSUME SelectInv, ExactInv, Middle
  PROVE  ExactInv'
<1>0. /\ imu_data' = imu_data /\ time0' = time0 /\ time1' = time1 /\ pc = "loop" /\ pc' = "loop"
      /\ i' = i + 1 /\ i \in 1..Len(imu_data) /\ i + 1 \in 1..Len(imu_data)
      /\ prop_data' = Append(prop_data, Reading(i))
      /\ imu_data[i] >= time0 /\ imu_data[i + 1] <= time1
  BY ExactNumbers DEF Middle, InLoop, InPeriod, args
<1> DEFINE p == Reading(i)
<1>1. p \in Selection /\ p.t = imu_data[i] /\ p.from = i /\ p.to = i
  BY <1>0, SelectionTypes DEF Reading, SelectInv
<1> HIDE DEF p
<1>2. /\ imu_data[i] \in Nat /\ imu_data[i + 1] \in Nat /\ time0 \in Nat /\ time1 \in Nat
      /\ imu_data[i] <= imu_data[i + 1]
  BY <1>0, ExactNumbers
<1>3. IsSound(imu_data, p) /\ Stands(imu_data, p)
  BY <1>0, <1>1, <1>2 DEF IsSound, Stands
<1>4. Defined'
  <2>1. AllSound(imu_data, prop_data')
    BY <1>0, <1>1, <1>3, ExactNumbers, AppendExact DEF ExactInv, p
  <2> QED BY <1>0, <2>1 DEF Defined, AllSound, IsSound
<1>5. ASSUME Begins
      PROVE  /\ AllStand(imu_data, prop_data')
             /\ TimesOf(prop_data') = {time0} \cup {t \in Passed(imu_data, i) : time0 <= t}
             /\ prop_data'[Len(prop_data')].t = imu_data[i]
  <2>1. AllStand(imu_data, prop_data')
    BY <1>0, <1>1, <1>3, <1>5, ExactNumbers, AppendExact DEF ExactInv, LoopExact, p
  <2>2. TimesOf(prop_data') = TimesOf(prop_data) \cup {imu_data[i]}
    BY <1>0, <1>1, ExactNumbers, AppendTimes DEF p
  <2>3. TimesOf(prop_data') = {time0} \cup {t \in Passed(imu_data, i) : time0 <= t}
    BY <1>0, <1>5, <2>2, OneMore
  <2>4. prop_data'[Len(prop_data')].t = imu_data[i]
    BY <1>0, <1>1, ExactNumbers DEF p
  <2> QED BY <2>1, <2>3, <2>4
<1>6. LoopExact'
  <2>1. /\ i' > 1 /\ i' <= Len(imu_data) /\ i' - 1 = i /\ imu_data[i'] <= time1
        /\ imu_data[i' - 1] <= time1
    BY <1>0, <1>2
  <2>2. Begins' <=> Begins
    BY <1>0 DEF Begins
  <2> QED BY <1>0, <1>5, <2>1, <2>2 DEF LoopExact, LastTime
<1> QED BY <1>0, <1>4, <1>6 DEF ExactInv, SelectedExact, DoneExact

\* A reading before the period.
LEMMA PassExact ==
  ASSUME SelectInv, ExactInv, Pass
  PROVE  ExactInv'
<1>0. /\ imu_data' = imu_data /\ time0' = time0 /\ time1' = time1 /\ pc = "loop" /\ pc' = "loop"
      /\ i' = i + 1 /\ i \in 1..Len(imu_data) /\ i + 1 \in 1..Len(imu_data)
      /\ prop_data' = prop_data
      /\ imu_data[i + 1] <= time1 /\ imu_data[i] < time0
  <2>1. i \in 1..Len(imu_data) /\ i + 1 \in 1..Len(imu_data) /\ ~(imu_data[i + 1] > time1)
    BY ExactNumbers DEF Pass, InLoop, EndsPeriod
  <2>2. imu_data[i + 1] \in Nat /\ imu_data[i] \in Nat /\ time1 \in Nat /\ time0 \in Nat
    BY <2>1, ExactNumbers
  <2>3. imu_data[i + 1] <= time1 /\ imu_data[i] < time0
    BY <2>1, <2>2 DEF Pass, InPeriod
  <2> QED BY <2>1, <2>3 DEF Pass, InLoop, args
<1>1. imu_data[i] \in Nat /\ time0 \in Nat
  BY <1>0, ExactNumbers
<1>2. ASSUME Begins PROVE prop_data = <<>>
  BY <1>0, <1>1, <1>2 DEF SelectInv, LoopInv
<1>3. LoopExact'
  <2>1. i' > 1 /\ i' <= Len(imu_data) /\ imu_data[i'] <= time1
    BY <1>0
  <2>2. Begins' <=> Begins
    BY <1>0 DEF Begins
  <2>3. Begins => AllStand(imu_data, prop_data)
    BY <1>0 DEF ExactInv, LoopExact
  <2> QED BY <1>0, <1>2, <2>1, <2>2, <2>3 DEF LoopExact
<1>4. Defined'
  BY <1>0 DEF ExactInv, Defined
<1> QED BY <1>0, <1>3, <1>4 DEF ExactInv, SelectedExact, DoneExact

\* The times of the period, when the readings from the n-th on are behind it or
\* at its end.
LEMMA Within ==
  ASSUME SelectInv, NEW n \in 1..Len(imu_data), time1 <= imu_data[n],
         n > 1 => imu_data[n - 1] <= time1
  PROVE  Expected = {time0, time1} \cup {t \in Passed(imu_data, n - 1) : time0 <= t}
<1>1. /\ Len(imu_data) \in Nat /\ time1 \in Nat /\ imu_data[n] \in Nat
      /\ \A j \in 1..(n - 1) : j \in 1..Len(imu_data)
      /\ \A j \in 1..Len(imu_data) : imu_data[j] \in Nat
  BY ExactNumbers
<1>2. ASSUME NEW j \in 1..Len(imu_data), imu_data[j] <= time1, ~(j \in 1..(n - 1))
      PROVE  imu_data[j] = time1
  <2>1. n <= j
    BY <1>1, <1>2
  <2>2. imu_data[n] <= imu_data[j]
    BY <2>1, ExactNumbers
  <2> QED BY <1>1, <1>2, <2>2
<1>3. ASSUME NEW j \in 1..(n - 1) PROVE imu_data[j] <= time1
  <2>1. n > 1 /\ n - 1 \in 1..Len(imu_data) /\ j <= n - 1 /\ j \in 1..Len(imu_data)
    BY <1>1
  <2>2. imu_data[j] <= imu_data[n - 1]
    BY <2>1, ExactNumbers
  <2> QED BY <1>1, <2>1, <2>2
<1>4. Expected \subseteq {time0, time1} \cup {t \in Passed(imu_data, n - 1) : time0 <= t}
  BY <1>2 DEF Expected, ReadingTimes, Passed
<1>5. {t \in Passed(imu_data, n - 1) : time0 <= t} \subseteq Expected
  BY <1>1, <1>3 DEF Expected, ReadingTimes, Passed
<1> QED BY <1>4, <1>5 DEF Expected

\* The four ways in which the period ends.
LEMMA EndCases ==
  ASSUME SelectInv, End
  PROVE  /\ imu_data' = imu_data /\ time0' = time0 /\ time1' = time1 /\ i' = i
         /\ pc = "loop" /\ pc' = "selected" /\ i \in 1..Len(imu_data) /\ i + 1 \in 1..Len(imu_data)
         /\ imu_data[i + 1] > time1 /\ (Begins => imu_data[i] >= time0)
         /\ \/ imu_data[i] > time1 /\ i = 1 /\ prop_data' = prop_data
            \/ imu_data[i] > time1 /\ i > 1
                  /\ prop_data' = Append(prop_data, Interpolated(i - 1, i, time1))
            \/ imu_data[i] = time1 /\ prop_data' = Append(prop_data, Reading(i))
            \/ imu_data[i] < time1
                  /\ prop_data' = Append(Append(prop_data, Reading(i)), Interpolated(i, i + 1, time1))
<1>1. /\ i \in 1..Len(imu_data) /\ i + 1 \in 1..Len(imu_data) /\ imu_data[i + 1] > time1
      /\ pc = "loop" /\ pc' = "selected" /\ i' = i
      /\ imu_data' = imu_data /\ time0' = time0 /\ time1' = time1
      /\ prop_data' = prop_data \o Closing(i)
  BY ExactNumbers DEF End, InLoop, EndsPeriod, args
<1>2. imu_data[i] \in Nat /\ imu_data[i + 1] \in Nat /\ time0 \in Nat /\ time1 \in Nat
  BY <1>1, ExactNumbers
<1>3. Begins => imu_data[i] >= time0
  BY <1>1, <1>2 DEF End, StartsPeriod, Begins
<1>4. prop_data \in Seq(Selection) /\ Reading(i) \in Selection /\ Interpolated(i, i + 1, time1) \in Selection
      /\ (i > 1 => Interpolated(i - 1, i, time1) \in Selection)
  BY <1>1, ExactNumbers, SelectionTypes DEF SelectInv
<1>5. CASE imu_data[i] > time1 /\ i = 1
  BY <1>1, <1>3, <1>4, <1>5 DEF Closing
<1>6. CASE imu_data[i] > time1 /\ i > 1
  BY <1>1, <1>3, <1>4, <1>6 DEF Closing
<1>7. CASE imu_data[i] = time1
  BY <1>1, <1>2, <1>3, <1>4, <1>7 DEF Closing
<1>8. CASE imu_data[i] < time1
  <2>1. Closing(i) = <<Reading(i), Interpolated(i, i + 1, time1)>>
    BY <1>1, <1>2, <1>8 DEF Closing
  <2>2. prop_data \o <<Reading(i), Interpolated(i, i + 1, time1)>>
          = Append(Append(prop_data, Reading(i)), Interpolated(i, i + 1, time1))
    BY <1>4
  <2> QED BY <1>1, <1>3, <1>8, <2>1, <2>2
<1> QED BY <1>1, <1>2, <1>5, <1>6, <1>7, <1>8

\* The period ends.
LEMMA EndExact ==
  ASSUME SelectInv, ExactInv, End
  PROVE  ExactInv'
<1>0. /\ imu_data' = imu_data /\ time0' = time0 /\ time1' = time1 /\ i' = i
      /\ pc = "loop" /\ pc' = "selected" /\ i \in 1..Len(imu_data) /\ i + 1 \in 1..Len(imu_data)
      /\ imu_data[i + 1] > time1 /\ (Begins => imu_data[i] >= time0)
  BY EndCases
<1>1. /\ imu_data[i] \in Nat /\ imu_data[i + 1] \in Nat /\ time0 \in Nat /\ time1 \in Nat
      /\ prop_data \in Seq(Selection) /\ AllSound(imu_data, prop_data)
  BY <1>0, ExactNumbers DEF ExactInv
<1> DEFINE Goal == /\ AllSound(imu_data, prop_data')
                   /\ Begins => /\ prop_data' # <<>> /\ AllStand(imu_data, prop_data')
                                /\ TimesOf(prop_data') = Expected
                                /\ prop_data'[Len(prop_data')].t = time1
<1>2. ASSUME Begins
      PROVE  /\ AllStand(imu_data, prop_data)
             /\ prop_data = <<>> => imu_data[i] = time0
             /\ prop_data # <<>> => i > 1 /\ imu_data[i - 1] <= time1
  <2>1. prop_data = <<>> => imu_data[i] = time0
    BY <1>0, <1>1, <1>2 DEF SelectInv, LoopInv
  <2> QED BY <1>0, <1>2, <2>1 DEF ExactInv, LoopExact
<1>3. ASSUME imu_data[i] > time1, i = 1, prop_data' = prop_data
      PROVE  Goal
  BY <1>0, <1>1, <1>2, <1>3 DEF Begins
<1>4. ASSUME imu_data[i] > time1, i > 1,
             prop_data' = Append(prop_data, Interpolated(i - 1, i, time1))
      PROVE  Goal
  <2> DEFINE p == Interpolated(i - 1, i, time1)
  <2>1. p \in Selection /\ p.t = time1 /\ p.from = i - 1 /\ p.to = i
    BY <1>0, <1>4, ExactNumbers, SelectionTypes DEF Interpolated, SelectInv
  <2> HIDE DEF p
  <2>2. imu_data[i - 1] \in Nat /\ imu_data[i - 1] < imu_data[i] /\ i - 1 \in 1..Len(imu_data)
    <3>1. i - 1 \in 1..Len(imu_data)
      BY <1>0, <1>4
    <3>2. imu_data[i] <= time1 \/ imu_data[i - 1] < imu_data[i]
      BY <1>0, <1>4 DEF ExactInv, LoopExact
    <3> QED BY <1>1, <1>4, <3>1, <3>2, ExactNumbers
  <2>3. IsSound(imu_data, p)
    BY <1>0, <1>1, <2>1, <2>2 DEF IsSound
  <2>4. AllSound(imu_data, prop_data')
    BY <1>1, <1>4, <2>1, <2>3, AppendExact DEF p
  <2>5. prop_data' # <<>> /\ prop_data'[Len(prop_data')].t = time1
        /\ TimesOf(prop_data') = TimesOf(prop_data) \cup {time1}
    BY <1>1, <1>4, <2>1, AppendTimes DEF p
  <2>6. ASSUME Begins PROVE AllStand(imu_data, prop_data') /\ TimesOf(prop_data') = Expected
    <3>1. prop_data # <<>> /\ imu_data[i - 1] <= time1
      BY <1>1, <1>2, <1>4, <2>6 DEF Begins
    <3>2. Stands(imu_data, p)
      BY <1>0, <1>1, <1>4, <2>1, <2>2, <3>1 DEF Stands
    <3>3. AllStand(imu_data, prop_data')
      BY <1>1, <1>2, <1>4, <2>1, <2>6, <3>2, AppendExact DEF p
    <3>4. Expected = {time0, time1} \cup {t \in Passed(imu_data, i - 1) : time0 <= t}
      BY <1>0, <1>1, <1>4, <3>1, Within
    <3>5. TimesOf(prop_data) = {time0} \cup {t \in Passed(imu_data, i - 1) : time0 <= t}
      BY <1>0, <2>6, <3>1 DEF ExactInv, LoopExact
    <3> QED BY <2>5, <3>3, <3>4, <3>5
  <2> QED BY <2>4, <2>5, <2>6
<1>5. ASSUME imu_data[i] = time1, prop_data' = Append(prop_data, Reading(i))
      PROVE  Goal
  <2> DEFINE p == Reading(i)
  <2>1. p \in Selection /\ p.t = imu_data[i] /\ p.from = i /\ p.to = i
    BY <1>0, SelectionTypes DEF Reading, SelectInv
  <2> HIDE DEF p
  <2>2. IsSound(imu_data, p) /\ Stands(imu_data, p)
    BY <1>0, <1>1, <2>1 DEF IsSound, Stands
  <2>3. /\ AllSound(imu_data, prop_data')
        /\ AllStand(imu_data, prop_data) => AllStand(imu_data, prop_data')
    BY <1>1, <1>5, <2>1, <2>2, AppendExact DEF p
  <2>4. prop_data' # <<>> /\ prop_data'[Len(prop_data')].t = time1
        /\ TimesOf(prop_data') = TimesOf(prop_data) \cup {time1}
    BY <1>1, <1>5, <2>1, AppendTimes DEF p
  <2>5. ASSUME Begins PROVE TimesOf(prop_data') = Expected
    <3>1. prop_data # <<>> /\ i > 1 /\ imu_data[i - 1] <= time1
      BY <1>1, <1>2, <1>5, <2>5 DEF Begins
    <3>4. Expected = {time0, time1} \cup {t \in Passed(imu_data, i - 1) : time0 <= t}
      BY <1>0, <1>1, <1>5, <3>1, Within
    <3>5. TimesOf(prop_data) = {time0} \cup {t \in Passed(imu_data, i - 1) : time0 <= t}
      BY <1>0, <2>5, <3>1 DEF ExactInv, LoopExact
    <3> QED BY <2>4, <3>4, <3>5
  <2> QED BY <1>2, <2>3, <2>4, <2>5
<1>6. ASSUME imu_data[i] < time1,
             prop_data' = Append(Append(prop_data, Reading(i)), Interpolated(i, i + 1, time1))
      PROVE  Goal
  <2> DEFINE p == Reading(i)
             q == Interpolated(i, i + 1, time1)
             s == Append(prop_data, p)
  <2>1. /\ p \in Selection /\ p.t = imu_data[i] /\ p.from = i /\ p.to = i
        /\ q \in Selection /\ q.t = time1 /\ q.from = i /\ q.to = i + 1
    BY <1>0, ExactNumbers, SelectionTypes DEF Reading, Interpolated, SelectInv
  <2> HIDE DEF p, q
  <2>2. IsSound(imu_data, p) /\ Stands(imu_data, p) /\ IsSound(imu_data, q) /\ Stands(imu_data, q)
    BY <1>0, <1>1, <1>6, <2>1 DEF IsSound, Stands
  <2>3. s \in Seq(Selection)
    BY <1>1, <2>1
  <2>4. /\ AllSound(imu_data, s) /\ (AllStand(imu_data, prop_data) => AllStand(imu_data, s))
        /\ TimesOf(s) = TimesOf(prop_data) \cup {imu_data[i]}
    BY <1>1, <2>1, <2>2, AppendExact, AppendTimes
  <2> HIDE DEF s
  <2>5. prop_data' = Append(s, q)
    BY <1>6 DEF s, p, q
  <2>6. /\ AllSound(imu_data, prop_data')
        /\ AllStand(imu_data, s) => AllStand(imu_data, prop_data')
        /\ TimesOf(prop_data') = TimesOf(s) \cup {time1}
        /\ prop_data' # <<>> /\ prop_data'[Len(prop_data')].t = time1
    BY <2>1, <2>2, <2>3, <2>4, <2>5, AppendExact, AppendTimes
  <2>7. ASSUME Begins PROVE TimesOf(prop_data') = Expected
    <3>1. TimesOf(s) = {time0} \cup {t \in Passed(imu_data, i) : time0 <= t}
      BY <1>0, <1>1, <2>4, <2>7, OneMore
    <3>2. /\ time1 <= imu_data[i + 1] /\ (i + 1) - 1 = i /\ imu_data[i] <= time1
      BY <1>0, <1>1, <1>6
    <3>3. Expected = {time0, time1} \cup {t \in Passed(imu_data, i) : time0 <= t}
      BY <1>0, <3>2, Within
    <3> QED BY <2>6, <3>1, <3>3
  <2> QED BY <1>2, <2>4, <2>6, <2>7
<1>7. Goal
  BY <1>3, <1>4, <1>5, <1>6, EndCases
<1>8. Begins' <=> Begins
  BY <1>0 DEF Begins
<1>9. Expected' = Expected
  BY <1>0 DEF Expected, ReadingTimes
<1>10. SelectedExact'
  <2>1. Begins => /\ prop_data' # <<>> /\ AllStand(imu_data', prop_data')
                  /\ TimesOf(prop_data') \cup {time1'} = Expected'
                  /\ LastTime' = time1'
    BY <1>0, <1>7, <1>9 DEF LastTime, Expected
  <2> QED BY <1>8, <2>1 DEF SelectedExact, BufferReaches
<1>11. Defined'
  BY <1>0, <1>7 DEF Defined, AllSound, IsSound
<1> QED BY <1>0, <1>10, <1>11 DEF ExactInv, LoopExact, DoneExact

\* The buffer ends before a reading behind the period was met.
LEMMA LoopEndsExact ==
  ASSUME SelectInv, ExactInv, LoopEnds
  PROVE  ExactInv'
<1>0. /\ imu_data' = imu_data /\ time0' = time0 /\ time1' = time1 /\ prop_data' = prop_data
      /\ pc = "loop" /\ pc' = "selected" /\ i >= Len(imu_data)
  BY DEF LoopEnds, args
<1>1. ASSUME BufferReaches
      PROVE  /\ prop_data # <<>> /\ AllStand(imu_data, prop_data)
             /\ TimesOf(prop_data) \cup {time1} = Expected
             /\ LastTime # time1 => /\ imu_data[Len(imu_data) - 1] < imu_data[Len(imu_data)]
                                    /\ imu_data[Len(imu_data) - 1] <= time1
  <2>1. /\ i = Len(imu_data) /\ i \in 1..Len(imu_data) /\ imu_data[i] \in Nat
        /\ time0 \in Nat /\ time1 \in Nat /\ time1 <= imu_data[i] /\ time0 < time1
    BY <1>0, <1>1, ExactNumbers DEF SelectInv, LoopInv, BufferReaches, Begins
  <2>2. prop_data # <<>>
    BY <1>0, <1>1, <2>1 DEF SelectInv, LoopInv, BufferReaches
  <2>3. /\ AllStand(imu_data, prop_data) /\ i > 1 /\ imu_data[i - 1] <= time1
        /\ TimesOf(prop_data) = {time0} \cup {t \in Passed(imu_data, i - 1) : time0 <= t}
        /\ LastTime = imu_data[i - 1] \/ imu_data[i - 1] < imu_data[i]
    BY <1>0, <1>1, <2>2 DEF ExactInv, LoopExact, BufferReaches
  <2>4. imu_data[i - 1] \in Nat
    BY <2>1, <2>3, ExactNumbers
  <2>5. LastTime # time1 => imu_data[i - 1] < imu_data[i]
    BY <2>1, <2>3, <2>4
  <2>6. Expected = {time0, time1} \cup {t \in Passed(imu_data, i - 1) : time0 <= t}
    BY <2>1, <2>3, Within
  <2> QED BY <2>1, <2>2, <2>3, <2>5, <2>6
<1>2. (BufferReaches' <=> BufferReaches) /\ Expected' = Expected /\ LastTime' = LastTime
  BY <1>0 DEF BufferReaches, Begins, Expected, ReadingTimes, LastTime
<1>3. SelectedExact'
  BY <1>0, <1>1, <1>2 DEF SelectedExact
<1>4. Defined'
  BY <1>0 DEF ExactInv, Defined
<1> QED BY <1>0, <1>3, <1>4 DEF ExactInv, LoopExact, DoneExact

\* The end of the period is added when it is missing.
LEMMA StretchExact ==
  ASSUME SelectInv, ExactInv, Stretch
  PROVE  ExactInv'
<1> DEFINE n == Len(imu_data)
           p == Interpolated(n - 1, n, time1)
<1>0. /\ imu_data' = imu_data /\ time0' = time0 /\ time1' = time1
      /\ pc = "selected" /\ pc' = "zerodt" /\ prop_data # <<>>
      /\ prop_data' = IF LastTime # time1 THEN Append(prop_data, p) ELSE prop_data
  BY DEF Stretch, Stretched, args
<1>1. n \in Nat /\ n <= MaxReadings /\ n >= 2 /\ time1 \in Stamps
  BY <1>0, ExactNumbers DEF SelectInv, TwoInv
<1>2. p \in Selection /\ p.t = time1 /\ p.from = n - 1 /\ p.to = n
  BY <1>1, SelectAssumption DEF Interpolated, Selection, SelectAssumption
<1> HIDE DEF p
<1>3. IsSound(imu_data, p)
  BY <1>1, <1>2 DEF IsSound
<1>4. prop_data \in Seq(Selection) /\ AllSound(imu_data, prop_data)
  BY ExactNumbers DEF ExactInv
<1>5. AllSound(imu_data, prop_data')
  BY <1>0, <1>2, <1>3, <1>4, AppendExact
<1>6. ASSUME BufferReaches PROVE AllStand(imu_data, prop_data') /\ TimesOf(prop_data') = Expected
  <2>1. /\ AllStand(imu_data, prop_data) /\ TimesOf(prop_data) \cup {time1} = Expected
        /\ LastTime # time1 => imu_data[n - 1] < imu_data[n] /\ imu_data[n - 1] <= time1
    BY <1>0, <1>6 DEF ExactInv, SelectedExact
  <2>2. CASE LastTime = time1
    <3>1. time1 \in TimesOf(prop_data)
      <4>1. Len(prop_data) \in 1..Len(prop_data)
        BY <1>0, <1>4
      <4> QED BY <2>2, <4>1 DEF LastTime, TimesOf
    <3> QED BY <1>0, <2>1, <2>2, <3>1
  <2>3. CASE LastTime # time1
    <3>1. prop_data' = Append(prop_data, p)
      BY <1>0, <2>3
    <3>2. Stands(imu_data, p)
      BY <1>1, <1>2, <1>6, <2>1, <2>3 DEF Stands, BufferReaches
    <3> QED BY <1>2, <1>4, <2>1, <3>1, <3>2, AppendExact, AppendTimes
  <2> QED BY <2>2, <2>3
<1>7. (BufferReaches' <=> BufferReaches) /\ Expected' = Expected
  BY <1>0 DEF BufferReaches, Begins, Expected, ReadingTimes
<1>8. DoneExact'
  BY <1>0, <1>6, <1>7 DEF DoneExact
<1>9. Defined'
  BY <1>0, <1>5 DEF Defined, AllSound, IsSound
<1> QED BY <1>0, <1>8, <1>9 DEF ExactInv, LoopExact, SelectedExact

\* Dropping one of two readings at one time leaves no time out.
LEMMA DropExact ==
  ASSUME SelectInv, ExactInv, DropZeroDt
  PROVE  ExactInv'
<1>0. /\ imu_data' = imu_data /\ time0' = time0 /\ time1' = time1 /\ pc = "zerodt" /\ pc' = "zerodt"
      /\ i < Len(prop_data) /\ prop_data[i + 1].t = prop_data[i].t
      /\ prop_data' = Without(prop_data, i)
  BY DEF DropZeroDt, Dropped, args
<1>1. prop_data \in Seq(Selection) /\ i \in 1..(Len(prop_data) - 1)
  BY <1>0, ExactNumbers
<1>2. /\ TimesOf(prop_data') = TimesOf(prop_data)
      /\ \A j \in 1..Len(prop_data') : \E k \in 1..Len(prop_data) : prop_data'[j] = prop_data[k]
  BY <1>0, <1>1, WithoutTimes
<1>3. AllSound(imu_data, prop_data')
  <2>1. AllSound(imu_data, prop_data)
    BY ExactNumbers DEF ExactInv
  <2> QED BY <1>2, <2>1 DEF AllSound
<1>4. AllStand(imu_data, prop_data) => AllStand(imu_data, prop_data')
  BY <1>2 DEF AllStand
<1>5. (BufferReaches' <=> BufferReaches) /\ Expected' = Expected
  BY <1>0 DEF BufferReaches, Begins, Expected, ReadingTimes
<1>6. DoneExact'
  BY <1>0, <1>2, <1>4, <1>5 DEF DoneExact, ExactInv
<1>7. Defined'
  BY <1>0, <1>3 DEF Defined, AllSound, IsSound
<1> QED BY <1>0, <1>6, <1>7 DEF ExactInv, LoopExact, SelectedExact

\* The steps that leave the selection as it is.
LEMMA OtherExact ==
  ASSUME SelectInv, ExactInv, ReturnNothing \/ KeepDt \/ Return \/ UNCHANGED selectVars
  PROVE  ExactInv'
<1>0. /\ imu_data' = imu_data /\ time0' = time0 /\ time1' = time1 /\ prop_data' = prop_data
      /\ \/ pc = "selected" /\ prop_data = <<>> /\ pc' = "done"
         \/ pc = "zerodt" /\ pc' \in {"zerodt", "done"}
         \/ pc' = pc /\ i' = i
  BY DEF ReturnNothing, KeepDt, Return, selectVars, args
<1>1. (BufferReaches' <=> BufferReaches) /\ Expected' = Expected /\ LastTime' = LastTime /\ (Begins' <=> Begins)
  BY <1>0 DEF BufferReaches, Begins, Expected, ReadingTimes, LastTime
<1>2. Defined'
  BY <1>0 DEF ExactInv, Defined
<1>3. LoopExact'
  BY <1>0, <1>1 DEF ExactInv, LoopExact
<1>4. SelectedExact'
  BY <1>0, <1>1 DEF ExactInv, SelectedExact
<1>5. DoneExact'
  BY <1>0, <1>1 DEF ExactInv, SelectedExact, DoneExact
<1> QED BY <1>2, <1>3, <1>4, <1>5 DEF ExactInv

\* No reading within the period is left out of what select_imu_readings returns,
\* each stands for itself and the cuts lie between neighbouring readings that
\* differ in time; for every buffer that reaches over the period.
THEOREM LeavesNothingOut == SelectSpec => []Exact
<1>1. SelectInit => ExactInv
  BY DEF SelectInit, ExactInv, Defined, LoopExact, SelectedExact, DoneExact, AllStand
<1>2. SelectInv /\ ExactInv /\ [SelectNext]_selectVars => ExactInv'
  BY StartExact, MiddleExact, PassExact, EndExact, LoopEndsExact, StretchExact, DropExact,
     OtherExact DEF SelectNext
<1>3. SelectInv /\ ExactInv => Exact
  <2> SUFFICES ASSUME SelectInv, ExactInv PROVE Exact
    OBVIOUS
  <2>1. time1 \in 0..imu_data[Len(imu_data)] /\ Begins => BufferReaches
    <3>1. Begins => Len(imu_data) \in 1..Len(imu_data)
      BY ExactNumbers DEF Begins
    <3> QED BY <3>1, ExactNumbers DEF BufferReaches
  <2>2. SelectedTimes = TimesOf(prop_data)
    BY DEF SelectedTimes, TimesOf
  <2>3. pc = "done" /\ BufferReaches =>
            /\ SelectedTimes = {time0, time1} \cup {t \in ReadingTimes : time0 <= t /\ t <= time1}
            /\ \A j \in 1..Len(prop_data) : Stands(imu_data, prop_data[j])
    BY <2>2 DEF ExactInv, DoneExact, Expected, AllStand
  <2> QED BY <2>1, <2>3 DEF Exact, ExactInv, Stands
<1> QED BY <1>1, <1>2, <1>3, SpecSelectInv, PTL DEF SelectSpec
==============================================================================
