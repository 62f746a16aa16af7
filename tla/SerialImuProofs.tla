--------------------------- MODULE SerialImuProofs ---------------------------
(***************************************************************************)
(* Proofs about SerialImu for every value of its constants: the order of   *)
(* the stamps, then what follows from how long ago the last record was.    *)
(***************************************************************************)
EXTENDS SerialImu, TLAPS

\* The types that the stamps are computed from: the counters are words, and a
\* clock that has counted a sample knows its time.
ClockTyped ==
    /\ now \in Int /\ pace \in Paces
    /\ mcu \in [micros : Int, sequence : Int, on : BOOLEAN, boot : {0, 1}]
    /\ clock.stamp \in Int /\ clock.elapsed \in Int /\ clock.count \in Nat
    /\ clock.anchor \in Int \cup {None} /\ clock.minimum \in Int \cup {None}
    /\ clock.last_us \in Int \cup {None}
    /\ clock.count > 0 => clock.last_us # None

\* The device's pace.
LEMMA PaceIs ==
    ASSUME pace \in Paces
    PROVE  /\ pace \in Nat \ {0} /\ Unit \in Nat \ {0} /\ Limit \in Nat
           /\ Abs(pace - Unit) \in 0..Limit
           /\ pace - Unit \in {Abs(pace - Unit), -Abs(pace - Unit)}
  BY PacesAssumption, SerialImuAssumption DEF Abs

\* Ticks in units of the host.
LEMMA PaceTimes ==
    ASSUME pace \in Paces, NEW x \in Nat
    PROVE  x * pace \in Nat /\ \A y \in Nat : (x + y) * pace = x * pace + y * pace
  <1>1. pace \in Nat
    BY PaceIs
  <1>. QED
    BY <1>1

\* A difference of counters is a word.
LEMMA MinusIsWord ==
    ASSUME NEW a \in Int, NEW b \in Int
    PROVE  Minus(a, b) \in 0..(Word - 1)
  BY SerialImuAssumption DEF Minus

\* The clamp: a correction takes back less time than has passed.
LEMMA CorrectionBound ==
    ASSUME NEW minimum \in Int, NEW delta \in Nat
    PROVE  /\ Correction(minimum, delta) \in Int
           /\ Correction(minimum, delta) >= -(Limit * delta)
  <1>1. Gain \in Nat \ {0} /\ Limit \in Nat
    BY SerialImuAssumption
  <1>2. Limit * delta \in Nat
    BY <1>1
  <1>3. Abs(minimum) \in Nat
    BY DEF Abs
  <1>4. Abs(minimum) \div Gain \in Nat
    BY <1>1, <1>3
  <1>. DEFINE share == Smaller(Abs(minimum) \div Gain, Limit * delta)
  <1>5. share \in Nat /\ share <= Limit * delta
    BY <1>2, <1>4 DEF Smaller
  <1>6. Correction(minimum, delta) \in {share, -share}
    BY DEF Correction
  <1>. HIDE DEF share
  <1>. QED
    BY <1>2, <1>5, <1>6

\* What a positive time between two samples is worth exceeds the correction.
LEMMA UnitExceedsLimit ==
    ASSUME NEW delta \in Nat \ {0}
    PROVE  Limit * delta < Unit * delta
  BY SerialImuAssumption, Z3

\* Taking a sample leaves the clock typed, and the stamps of two samples after
\* the warm-up in order.
LEMMA UpdatedStamp ==
    ASSUME ClockTyped, NEW s, s.micros \in Int, NEW observed \in Int, Elapsing(s)
    PROVE  LET c == Updated(s, observed) IN
           /\ c.stamp \in Int /\ c.elapsed \in Int /\ c.count \in Nat
           /\ c.anchor \in Int \cup {None} /\ c.minimum \in Int \cup {None}
           /\ c.last_us \in Int /\ c.last_us # None
           /\ clock.count >= Block => c.stamp > clock.stamp
  <1>. DEFINE delta == IF clock.last_us = None THEN 0 ELSE Minus(s.micros, clock.last_us)
              elapsed == clock.elapsed + delta * Unit
              anchor == IF clock.anchor = None THEN observed - elapsed
                        ELSE Smaller(clock.anchor, observed - elapsed)
              predicted == clock.stamp + delta * Unit
              minimum == Lowest(observed - predicted)
              count == clock.count + 1
              c == Updated(s, observed)
  <1>1. Unit \in Nat /\ Block \in Nat \ {0} /\ Limit \in Nat
    BY SerialImuAssumption
  <1>2. delta \in Nat
    <2>1. CASE clock.last_us = None
      BY <2>1
    <2>2. CASE clock.last_us # None
      <3>1. clock.last_us \in Int
        BY <2>2 DEF ClockTyped
      <3>2. Minus(s.micros, clock.last_us) \in 0..(Word - 1)
        BY <3>1, MinusIsWord
      <3>. QED
        BY <2>2, <3>2, SerialImuAssumption
    <2>. QED
      BY <2>1, <2>2
  <1>3. clock.count > 0 => delta > 0
    BY DEF ClockTyped, Elapsing
  <1>. HIDE DEF delta
  <1>4. delta * Unit \in Nat
    BY <1>1, <1>2
  <1>5. elapsed \in Int /\ predicted \in Int
    BY <1>4 DEF ClockTyped
  <1>6. anchor \in Int
    BY <1>5 DEF ClockTyped, Smaller
  <1>7. minimum \in Int
    BY <1>5 DEF ClockTyped, Lowest, Smaller
  <1>8. /\ c.last_us = s.micros /\ c.elapsed = elapsed /\ c.count = count
        /\ c.anchor = IF count <= Block THEN anchor ELSE clock.anchor
        /\ c.stamp = IF count <= Block THEN anchor + elapsed
                     ELSE predicted + Correction(minimum, delta)
        /\ c.minimum = IF count <= Block \/ count % Block = 0 THEN None ELSE minimum
    BY DEF Updated, Kept, delta
  <1>9. Correction(minimum, delta) \in Int /\ Correction(minimum, delta) >= -(Limit * delta)
    BY <1>2, <1>7, CorrectionBound
  <1>. HIDE DEF anchor, minimum, c, elapsed
  <1>10. c.stamp \in Int
    BY <1>5, <1>6, <1>8, <1>9
  <1>11. ASSUME clock.count >= Block PROVE c.stamp > clock.stamp
    <2>1. clock.count > 0 /\ ~(count <= Block)
      BY <1>1, <1>11 DEF ClockTyped
    <2>2. Limit * delta < Unit * delta
      BY <1>2, <1>3, <2>1, UnitExceedsLimit
    <2>3. c.stamp = clock.stamp + delta * Unit + Correction(minimum, delta)
      BY <1>8, <2>1
    <2>. QED
      BY <1>1, <1>2, <1>4, <1>9, <2>2, <2>3 DEF ClockTyped
  <1>. QED
    BY <1>5, <1>6, <1>7, <1>8, <1>10, <1>11, SerialImuAssumption DEF ClockTyped, c

\* The types hold at first.
LEMMA ClockTypedInit == Init => ClockTyped
  <1>. SUFFICES ASSUME Init PROVE ClockTyped
    OBVIOUS
  <1>1. PICK b \in Boots :
          mcu = [micros |-> b.micros, sequence |-> b.sequence, on |-> TRUE, boot |-> 0]
    BY DEF Init
  <1>2. b.micros \in Int /\ b.sequence \in Int
    BY <1>1, SerialImuAssumption
  <1>. QED
    BY <1>1, <1>2 DEF Init, ClockTyped

\* What taking a sample does to the firmware keeps its type.
LEMMA AcquireTyped ==
    ASSUME ClockTyped, NEW ticks \in Nat, Acquire(ticks)
    PROVE  /\ now' \in Int /\ pace' = pace
           /\ mcu' \in [micros : Int, sequence : Int, on : BOOLEAN, boot : {0, 1}]
           /\ Sample(ticks).micros \in Int
  <1>1. Word \in Nat \ {0}
    BY SerialImuAssumption
  <1>2. (mcu.micros + ticks) % Word \in Int /\ (mcu.sequence + 1) % Word \in Int
    BY <1>1 DEF ClockTyped
  <1>3. mcu' = [micros |-> (mcu.micros + ticks) % Word,
               sequence |-> (mcu.sequence + 1) % Word, on |-> mcu.on, boot |-> mcu.boot]
    BY DEF ClockTyped, Acquire
  <1>4. mcu.on \in BOOLEAN /\ mcu.boot \in {0, 1} /\ now \in Int
    BY DEF ClockTyped
  <1>5. mcu' \in [micros : Int, sequence : Int, on : BOOLEAN, boot : {0, 1}]
    BY <1>2, <1>3, <1>4, Zenon
  <1>6. now' \in Int /\ pace' = pace
    BY <1>4 DEF Acquire
  <1>. QED
    BY <1>2, <1>5, <1>6 DEF Sample

\* A record leaves the clock as it is, or the clock takes it.
LEMMA DeliverTyped ==
    ASSUME ClockTyped, NEW ticks \in Nat, NEW d \in Nat, NEW h \in Nat,
           NEW b \in BOOLEAN, Deliver(ticks, d, h, b)
    PROVE  /\ ClockTyped'
           /\ clock' # clock /\ clock.count >= Block => clock'.stamp > clock.stamp
  <1>. DEFINE observed == now' * pace + d
  <1>1. /\ now' \in Int /\ pace' = pace
        /\ mcu' \in [micros : Int, sequence : Int, on : BOOLEAN, boot : {0, 1}]
        /\ Sample(ticks).micros \in Int
    BY AcquireTyped DEF Deliver
  <1>2. observed \in Int
    BY <1>1, PaceIs DEF ClockTyped
  <1>3. \/ clock' = clock
        \/ Elapsing(Sample(ticks)) /\ clock' = Updated(Sample(ticks), observed)
    BY DEF Deliver, Receive
  <1>4. CASE clock' = clock
    BY <1>1, <1>4 DEF ClockTyped
  <1>5. CASE Elapsing(Sample(ticks)) /\ clock' = Updated(Sample(ticks), observed)
    <2>. HIDE DEF observed
    <2>. QED
      BY <1>1, <1>2, <1>5, UpdatedStamp DEF ClockTyped
  <1>. QED
    BY <1>3, <1>4, <1>5

\* Every step keeps the types and the order of the stamps.
LEMMA StepInOrder ==
    ClockTyped /\ [Next]_vars =>
        ClockTyped' /\ (clock' # clock /\ clock.count >= Block => clock'.stamp > clock.stamp)
  <1>. SUFFICES ASSUME ClockTyped, [Next]_vars
       PROVE  /\ ClockTyped'
              /\ clock' # clock /\ clock.count >= Block => clock'.stamp > clock.stamp
    OBVIOUS
  <1>1. Period \in Nat /\ Stalls \subseteq Nat /\ Delays \subseteq Nat
        /\ Holds \cup {0} \subseteq Nat
    BY SerialImuAssumption
  <1>2. ASSUME NEW ticks \in {Period} \cup Stalls, NEW d \in Delays,
               NEW h \in Holds \cup {0}, NEW b \in BOOLEAN, Deliver(ticks, d, h, b)
        PROVE  /\ ClockTyped'
               /\ clock' # clock /\ clock.count >= Block => clock'.stamp > clock.stamp
    BY <1>1, <1>2, DeliverTyped
  <1>3. ASSUME NEW ticks \in {Period} \cup Stalls, Lose(ticks)
        PROVE  ClockTyped' /\ clock' = clock
    BY <1>1, <1>3, AcquireTyped DEF Lose, ClockTyped
  <1>4. CASE Reboot
    BY <1>1, <1>4 DEF Reboot, ClockTyped
  <1>5. CASE Halt
    BY <1>5 DEF Halt, ClockTyped
  <1>6. CASE Notice
    BY <1>6 DEF Notice, ClockTyped
  <1>7. CASE StartupTimeout
    BY <1>7 DEF StartupTimeout, ClockTyped
  <1>8. CASE UNCHANGED vars
    BY <1>8 DEF vars, ClockTyped
  <1>. QED
    BY <1>2, <1>3, <1>4, <1>5, <1>6, <1>7, <1>8 DEF Next

\* The stamps that follow the warm-up increase, for every jitter of the line,
\* every loss and every wrap: the clamp is below the time between two samples.
THEOREM StampsInOrder == Spec => StampsIncrease
  <1>1. Init => ClockTyped
    BY ClockTypedInit
  <1>2. ClockTyped /\ [Next]_vars => ClockTyped'
    BY StepInOrder
  <1>3. ClockTyped /\ [Next]_vars =>
            [clock' # clock /\ clock.count >= Block => clock'.stamp > clock.stamp]_vars
    BY StepInOrder
  <1>. QED
    BY <1>1, <1>2, <1>3, PTL DEF Spec, StampsIncrease
------------------------------------------------------------------------------
(***************************************************************************)
(* Time and numbers.  The rest of the proofs follow the sensor: how far    *)
(* its counters are ahead of the last sample the clock took (Follows), how *)
(* device and host time lie in a rate window (InWindow), how far the clock *)
(* is from the sensor's time (InStep), and what a regular source and line  *)
(* leave of the windows (Steady).                                          *)
(***************************************************************************)
Words == 0..(Word - 1)

Longest == CHOOSE t \in Stalls \cup {Period} :
              (\A u \in Stalls : u <= t) /\ Period + MaxFaults * t < Word
Least == CHOOSE d \in Delays : \A e \in Delays : d <= e
Most == CHOOSE d \in Delays : \A e \in Delays : e <= d

Ranges ==
    /\ now \in Nat /\ pace \in Paces
    /\ samples \in 0..MaxSamples /\ faults \in 0..MaxFaults
    /\ mcu \in [micros : Words, sequence : Words, on : BOOLEAN, boot : {0, 1}]
    /\ node \in {"running", "gap", "rate", "reset", "firmware", "silence", "startup"}
    /\ published \in BOOLEAN /\ regular \in BOOLEAN /\ receipt \in Int
    /\ rate.count \in Nat /\ rate.ready \in BOOLEAN /\ rate.slow \in 0..2

\* Before the first record there is nothing to compare with.
Fresh == clock.count = 0 =>
    /\ last = None /\ first = None /\ clock.last_us = None /\ clock.dropped = 0
    /\ previous = None /\ rate.start = None /\ mcu.boot = 0

\* What was taken is of the first boot, and counted.
Taken == clock.count > 0 =>
    /\ last \in [boot : {0}, index : Nat, at : Nat] /\ first \in Nat \ {0}
    /\ clock.last_us \in Words /\ clock.sequence \in Words
    /\ rate.start \in Int /\ rate.device \in Words
    /\ last.index <= samples
    /\ clock.dropped \in 0..faults
    /\ clock.dropped = last.index - first + 1 - clock.count

\* The sensor since the last sample that was taken: not a turn of a counter ahead.
Follows == clock.count > 0 /\ node = "running" =>
    /\ previous = clock.last_us
    /\ last.at <= now /\ now - last.at <= faults * Longest
    /\ mcu.boot = 0 => /\ Minus(mcu.micros, clock.last_us) = now - last.at
                       /\ Minus(mcu.sequence, clock.sequence) = samples - last.index + 1
                       /\ clock.dropped + samples - last.index <= faults
    /\ mcu.boot = 1 => mcu.sequence < faults /\ clock.sequence \in MaxFaults..(Word \div 2)

\* How long the source has been in the rate window, and when it began.
InSource == Minus(clock.last_us, rate.device)
Began == last.at - InSource

Slack == ResetGap * pace - Window * Unit

OnTime ==
    /\ receipt >= last.at * pace /\ receipt <= last.at * pace + Slack
    /\ rate.start <= receipt /\ receipt - rate.start < Window * Unit
    /\ rate.start >= Began * pace /\ rate.start <= Began * pace + Slack
    /\ rate.count > 0 /\ (rate.count - 1) * Period <= InSource

InWindow == /\ clock.count = 0 => receipt = 0
            /\ clock.count > 0 /\ node = "running" => OnTime

\* How far the clock is from the sensor's time.
Error == clock.stamp - last.at * pace

\* How far the device's clock may run away from the node's between two samples.
Skew == Abs(pace - Unit) * MaxGap

\* By how much a minimum steers the clock back in one sample, at most.
Share(n) == IF n < 0 THEN (-n) \div Gain ELSE 0

WarmedUp ==
    /\ clock.anchor \in Int /\ clock.minimum = None
    /\ clock.stamp = clock.anchor + clock.elapsed
    /\ Error >= Least - (clock.count - 1) * Skew /\ Error <= Most

\* The minimum of the block bounds how far the clock is behind: by what the samples
\* after the minimum steered it back, and what the device ran away meanwhile.
Steered ==
    /\ clock.minimum >= Least - Most - (Gain + 1) * Skew
    /\ Error >= Least - clock.minimum
                  - (clock.count % Block) * (Share(clock.minimum) + Skew) + Skew

InStep ==
    /\ clock.count = 0 => clock.anchor = None /\ clock.minimum = None
    /\ clock.count > 0 =>
        /\ Error \in (2 * Least - Most - (Gain + Block) * Skew)..(Most + Gain * Skew)
        /\ clock.count <= Block => WarmedUp
        /\ clock.minimum # None => Steered

\* How late a record was read, and the first one of the window.
Late == receipt - now * pace - Least
LateFirst == rate.start - Began * pace - Least

\* What the limits of the rate leave for the jitter of a window at this pace.
Room == Window * (5 * Unit - 4 * pace)

Steady == regular =>
    /\ node = "running" /\ mcu.on /\ mcu.boot = 0
    /\ clock.count = 0 => rate.slow = 0
    /\ clock.count > 0 =>
        /\ last.at = now /\ last.index = samples
        /\ InSource = (rate.count - 1) * Period
        /\ Late >= 0 /\ 5 * Late <= 3 * Room
        /\ LateFirst >= 0 /\ 5 * LateFirst >= rate.slow * Room
        /\ ~rate.ready => Late <= Most - Least /\ LateFirst <= Most - Least
------------------------------------------------------------------------------
\* Numbers beside the range of a counter.
LEMMA SmallMod ==
    ASSUME NEW w \in Nat \ {0}, NEW x \in Int
    PROVE  /\ x \in 0..(w - 1) => x % w = x
           /\ x \in w..(2 * w - 1) => x % w = x - w
           /\ x \in (-w)..(-1) => x % w = x + w
  OBVIOUS

\* What the difference of two counters is.
LEMMA MinusIs ==
    ASSUME NEW a \in Words, NEW b \in Words
    PROVE  /\ Minus(a, b) = IF a >= b THEN a - b ELSE a - b + Word
           /\ Minus(a, b) \in Words
  <1>1. Word \in Nat \ {0} /\ a \in 0..(Word - 1) /\ b \in 0..(Word - 1)
    BY SerialImuAssumption DEF Words
  <1>. DEFINE x == a - b
  <1>2. x \in Int /\ Minus(a, b) = x % Word
    BY <1>1 DEF Minus
  <1>3. CASE a >= b
    <2>1. x \in 0..(Word - 1)
      BY <1>1, <1>3
    <2>. HIDE DEF x
    <2>2. x % Word = x
      BY <1>1, <1>2, <2>1, SmallMod
    <2>. QED
      BY <1>2, <1>3, <2>1, <2>2 DEF x, Words
  <1>4. CASE ~(a >= b)
    <2>1. x \in (-Word)..(-1) /\ x + Word \in 0..(Word - 1)
      BY <1>1, <1>4
    <2>. HIDE DEF x
    <2>2. x % Word = x + Word
      BY <1>1, <1>2, <2>1, SmallMod
    <2>. QED
      BY <1>2, <1>4, <2>1, <2>2 DEF x, Words
  <1>. QED
    BY <1>3, <1>4

\* A counter that moves on by less than a turn.
LEMMA Ahead ==
    ASSUME NEW a \in Words, NEW b \in Words, NEW t \in Nat, Minus(a, b) + t < Word
    PROVE  Minus((a + t) % Word, b) = Minus(a, b) + t /\ (a + t) % Word \in Words
  <1>1. Word \in Nat \ {0}
    BY SerialImuAssumption
  <1>2. a \in Int /\ b \in Int /\ 0 <= a /\ a < Word /\ 0 <= b /\ b < Word
    BY <1>1 DEF Words
  <1>3. Minus(a, b) = IF a >= b THEN a - b ELSE a - b + Word
    BY MinusIs
  <1>. DEFINE x == a + t
  <1>4. x \in 0..(2 * Word - 1)
    BY <1>1, <1>2, <1>3
  <1>5. x % Word = IF x < Word THEN x ELSE x - Word
    <2>. HIDE DEF x
    <2>. QED
      BY <1>1, <1>4, SmallMod
  <1>6. x % Word \in Words
    BY <1>1, <1>4, <1>5 DEF Words
  <1>7. Minus(x % Word, b) = IF x % Word >= b THEN (x % Word) - b ELSE (x % Word) - b + Word
    BY <1>6, MinusIs
  <1>. QED
    BY <1>1, <1>2, <1>3, <1>5, <1>6, <1>7

\* The differences of three counters add up.
LEMMA Between ==
    ASSUME NEW a \in Words, NEW b \in Words, NEW c \in Words,
           Minus(a, b) + Minus(b, c) < Word
    PROVE  Minus(a, c) = Minus(a, b) + Minus(b, c)
  <1>1. Word \in Nat \ {0}
    BY SerialImuAssumption
  <1>2. /\ a \in Int /\ 0 <= a /\ a < Word /\ b \in Int /\ 0 <= b /\ b < Word
        /\ c \in Int /\ 0 <= c /\ c < Word
    BY <1>1 DEF Words
  <1>3. /\ Minus(a, b) = IF a >= b THEN a - b ELSE a - b + Word
        /\ Minus(b, c) = IF b >= c THEN b - c ELSE b - c + Word
        /\ Minus(a, c) = IF a >= c THEN a - c ELSE a - c + Word
    BY MinusIs
  <1>. QED
    BY <1>1, <1>2, <1>3

\* A counter has not moved, or by one.
LEMMA JustTaken ==
    ASSUME NEW a \in Words
    PROVE  Minus(a, a) = 0 /\ Minus((a + 1) % Word, a) = 1 /\ (a + 1) % Word \in Words
  <1>1. Word \in Nat \ {0, 1} /\ a \in Int
    BY SerialImuAssumption DEF Words
  <1>2. Minus(a, a) = 0
    BY <1>1, SmallMod DEF Minus
  <1>. QED
    BY <1>1, <1>2, Ahead

\* The longest time between two samples, and what the faults of a run may hide.
LEMMA LongestTime ==
    /\ Longest \in Nat /\ Period <= Longest /\ \A u \in Stalls : u <= Longest
    /\ Period + MaxFaults * Longest < Word
  <1>1. /\ Longest \in Stalls \cup {Period} /\ \A u \in Stalls : u <= Longest
        /\ Period + MaxFaults * Longest < Word
    BY FaultsAssumption DEF Longest
  <1>. QED
    BY <1>1, SerialImuAssumption, LimitsAssumption

\* Some of the faults.
LEMMA FaultTime ==
    ASSUME NEW n \in 0..MaxFaults
    PROVE  /\ n * Longest \in Nat /\ n * Longest + Period < Word
           /\ (n + 1) * Longest = n * Longest + Longest
           /\ n < MaxFaults => n * Longest + Longest + Period < Word
           /\ n <= n * Longest /\ n + 1 < Word
  <1>1. MaxFaults \in Nat /\ n \in Nat /\ Period \in Nat \ {0} /\ Longest \in Nat \ {0}
        /\ Period + MaxFaults * Longest < Word /\ Word \in Nat
    BY SerialImuAssumption, LongestTime
  <1>2. n * Longest \in Nat /\ (n + 1) * Longest = n * Longest + Longest
    BY <1>1
  <1>3. MaxFaults * Longest \in Nat /\ n * Longest <= MaxFaults * Longest
    BY <1>1, Z3
  <1>4. n < MaxFaults => (n + 1) * Longest <= MaxFaults * Longest
    BY <1>1, Z3
  <1>5. n <= n * Longest
    BY <1>1, Z3
  <1>. QED
    BY <1>1, <1>2, <1>3, <1>4, <1>5

\* The least and the greatest delay of a record.
LEMMA DelayBounds ==
    ASSUME NEW e \in Delays
    PROVE  /\ Least \in Delays /\ Most \in Delays /\ Least \in Nat /\ Most \in Nat
           /\ \A d \in Delays : Least <= d /\ d <= Most
  BY DelaysAssumption, SerialImuAssumption DEF Least, Most
\* The clock takes a record ...
Take(s, observed, saturated) ==
    /\ ~GapSeen(s) /\ ~RateFault(s, receipt') /\ InOrder(s) /\ Elapsing(s)
    /\ node' = "running" /\ previous' = s.micros
    /\ rate' = Rated(s, receipt') /\ clock' = Updated(s, observed)
    /\ published' = (published \/ (clock'.count > Block /\ ~saturated))
    /\ last' = [boot |-> mcu.boot, index |-> samples', at |-> now']
    /\ first' = IF first = None THEN samples' ELSE first

\* ... or the node ends.
Refuse(s) ==
    /\ GapSeen(s) \/ RateFault(s, receipt') \/ ~InOrder(s) \/ ~Elapsing(s)
    /\ node' \in {"gap", "rate", "reset"}
    /\ rate' = rate \/ (~RateFault(s, receipt') /\ rate' = Rated(s, receipt'))
    /\ UNCHANGED <<clock, published, first, last>>

LEMMA Received ==
    ASSUME NEW s, NEW o, NEW b, Receive(s, o, b), node = "running"
    PROVE  Take(s, o, b) \/ Refuse(s)
  <1>1. CASE GapSeen(s)
    BY <1>1 DEF Receive, Refuse
  <1>2. CASE ~GapSeen(s) /\ RateFault(s, receipt')
    BY <1>2 DEF Receive, Refuse
  <1>3. CASE ~GapSeen(s) /\ ~RateFault(s, receipt') /\ (~InOrder(s) \/ ~Elapsing(s))
    BY <1>3 DEF Receive, Refuse
  <1>4. CASE ~GapSeen(s) /\ ~RateFault(s, receipt') /\ InOrder(s) /\ Elapsing(s)
    BY <1>4 DEF Receive, Take
  <1>. QED
    BY <1>1, <1>2, <1>3, <1>4

\* The steps of a record, one by one (loop, receive).
Arrival(ticks, d, h, b) ==
    /\ node = "running" /\ mcu.on
    /\ ticks \in Nat /\ ticks >= Period /\ ticks > 0 /\ d \in Nat /\ h \in Nat
    /\ now' = now + ticks /\ pace' = pace /\ samples' = samples + 1 /\ samples < MaxSamples
    /\ mcu' = [micros |-> (mcu.micros + ticks) % Word,
               sequence |-> (mcu.sequence + 1) % Word,
               on |-> mcu.on, boot |-> mcu.boot]
    /\ receipt' = Larger(receipt, now' * pace + d + h)
    /\ faults' \in {faults, faults + 1} /\ faults' <= MaxFaults
    /\ ticks # Period => faults' = faults + 1
    /\ regular' = (regular /\ ticks = Period /\ (h = 0 \/ rate.ready))
    /\ Sample(ticks).micros = (mcu.micros + ticks) % Word
    /\ Sample(ticks).sequence = mcu.sequence
    /\ Take(Sample(ticks), now' * pace + d, b) \/ Refuse(Sample(ticks))

\* Delivery in those steps.
LEMMA Delivered ==
    ASSUME Ranges, NEW ticks \in {Period} \cup Stalls, NEW d \in Delays,
           NEW h \in Holds \cup {0}, NEW b \in BOOLEAN, Deliver(ticks, d, h, b)
    PROVE  Arrival(ticks, d, h, b)
  <1>1. /\ ticks \in Nat /\ ticks >= Period /\ ticks > 0 /\ d \in Nat /\ h \in Nat
    BY SerialImuAssumption, LimitsAssumption
  <1>2. /\ node = "running" /\ mcu.on /\ now' = now + ticks /\ samples' = samples + 1
        /\ samples < MaxSamples /\ pace' = pace
        /\ receipt' = Larger(receipt, now' * pace + d + h)
        /\ regular' = (regular /\ ticks = Period /\ (h = 0 \/ rate.ready))
    BY DEF Deliver, Acquire
  <1>3. mcu' = [micros |-> (mcu.micros + ticks) % Word,
                sequence |-> (mcu.sequence + 1) % Word, on |-> mcu.on, boot |-> mcu.boot]
    BY DEF Deliver, Acquire, Ranges
  <1>4. /\ faults' \in {faults, faults + 1} /\ faults' <= MaxFaults
        /\ ticks # Period => faults' = faults + 1
    BY DEF Deliver, Faulty
  <1>5. Take(Sample(ticks), now' * pace + d, b) \/ Refuse(Sample(ticks))
    BY <1>2, Received DEF Deliver
  <1>6. Sample(ticks).micros = (mcu.micros + ticks) % Word
        /\ Sample(ticks).sequence = mcu.sequence
    BY DEF Sample
  <1>. QED
    BY <1>1, <1>2, <1>3, <1>4, <1>5, <1>6 DEF Arrival

\* The clock after a record it has taken.
LEMMA UpdatedFields ==
    ASSUME NEW s, NEW observed
    PROVE  /\ Updated(s, observed).last_us = s.micros
           /\ Updated(s, observed).sequence = s.sequence
           /\ Updated(s, observed).count = clock.count + 1
           /\ Updated(s, observed).dropped = IF clock.last_us = None THEN 0 ELSE Dropped(s)
  BY DEF Updated

\* The firmware's counters stay words.
LEMMA AcquireWords ==
    ASSUME Ranges, NEW ticks \in Nat
    PROVE  /\ (mcu.micros + ticks) % Word \in Words
           /\ (mcu.sequence + 1) % Word \in Words
           /\ mcu.micros \in Words /\ mcu.sequence \in Words
           /\ mcu.on \in BOOLEAN /\ mcu.boot \in {0, 1}
  BY SerialImuAssumption DEF Ranges, Words

------------------------------------------------------------------------------
\* The slow windows in a row are never three.
LEMMA RatedTyped ==
    ASSUME Ranges, NEW s, ~RateFault(s, receipt')
    PROVE  LET r == Rated(s, receipt') IN
           r.count \in Nat \ {0} /\ r.ready \in BOOLEAN /\ r.slow \in 0..2
  <1>1. rate.count \in Nat /\ rate.ready \in BOOLEAN /\ rate.slow \in 0..2
    BY DEF Ranges
  <1>2. CASE rate.start = None
    BY <1>1, <1>2 DEF Rated, Ranges
  <1>3. CASE rate.start # None /\ WindowEnds(receipt')
    <2>1. SlowWindows(receipt') \in 0..2
      <3>1. SlowWindows(receipt') \in {0, rate.slow + 1}
        BY DEF SlowWindows
      <3>2. ~(SlowWindows(receipt') >= 3)
        BY <1>3 DEF RateFault
      <3>. QED
        BY <1>1, <3>1, <3>2
    <2>. QED
      BY <1>3, <2>1 DEF Rated
  <1>4. CASE rate.start # None /\ ~WindowEnds(receipt')
    <2>1. Rated(s, receipt') = [rate EXCEPT !.count = @ + 1]
      BY <1>4 DEF Rated
    <2>. QED
      BY <1>1, <2>1
  <1>. QED
    BY <1>2, <1>3, <1>4

\* A record that is delivered keeps the ranges.
LEMMA DeliverRanges ==
    ASSUME Ranges, NEW ticks \in {Period} \cup Stalls, NEW d \in Delays,
           NEW h \in Holds \cup {0}, NEW b \in BOOLEAN, Deliver(ticks, d, h, b)
    PROVE  Ranges'
  <1>0. Arrival(ticks, d, h, b)
    BY Delivered
  <1>. DEFINE s == Sample(ticks)
  <1>1. /\ ticks \in Nat /\ d \in Nat /\ h \in Nat
        /\ now' = now + ticks /\ pace' = pace
        /\ samples' = samples + 1 /\ samples < MaxSamples
        /\ mcu' = [micros |-> (mcu.micros + ticks) % Word,
                   sequence |-> (mcu.sequence + 1) % Word,
                   on |-> mcu.on, boot |-> mcu.boot]
        /\ receipt' = Larger(receipt, now' * pace + d + h)
        /\ faults' \in {faults, faults + 1} /\ faults' <= MaxFaults
        /\ regular' = (regular /\ ticks = Period /\ (h = 0 \/ rate.ready))
        /\ Take(s, now' * pace + d, b) \/ Refuse(s)
    BY <1>0 DEF Arrival
  <1>2. now' \in Nat /\ samples' \in 0..MaxSamples /\ faults' \in 0..MaxFaults
    BY <1>1, SerialImuAssumption DEF Ranges
  <1>3. mcu' \in [micros : Words, sequence : Words, on : BOOLEAN, boot : {0, 1}]
    BY <1>1, AcquireWords
  <1>4. receipt' \in Int /\ regular' \in BOOLEAN
    BY <1>1, <1>2, PaceIs DEF Ranges, Larger
  <1>5. /\ node' \in {"running", "gap", "rate", "reset"} /\ published' \in BOOLEAN
    BY <1>1 DEF Take, Refuse, Ranges
  <1>6. rate'.count \in Nat /\ rate'.ready \in BOOLEAN /\ rate'.slow \in 0..2
    <2>1. rate' = rate \/ (~RateFault(s, receipt') /\ rate' = Rated(s, receipt'))
      BY <1>1 DEF Take, Refuse
    <2>. HIDE DEF s
    <2>2. CASE rate' = rate
      BY <2>2 DEF Ranges
    <2>3. CASE ~RateFault(s, receipt') /\ rate' = Rated(s, receipt')
      BY <2>3, RatedTyped
    <2>. QED
      BY <2>1, <2>2, <2>3
  <1>. QED
    BY <1>1, <1>2, <1>3, <1>4, <1>5, <1>6 DEF Ranges
------------------------------------------------------------------------------
\* A record since the last one taken: its counters tell the time and the number
\* of samples that have passed, for no turn of them is hidden.
LEMMA Sent ==
    ASSUME Ranges, Taken, Follows, clock.count > 0, mcu.boot = 0,
           NEW ticks \in {Period} \cup Stalls, NEW d, NEW h, NEW b, Arrival(ticks, d, h, b)
    PROVE  /\ Minus(Sample(ticks).micros, clock.last_us) = now' - last.at
           /\ Minus(Sample(ticks).sequence, clock.sequence) = samples' - last.index
           /\ now' - last.at \in 1..(Word - 1)
           /\ Sample(ticks).micros \in Words
  <1>1. /\ node = "running" /\ ticks \in Nat /\ ticks > 0 /\ now' = now + ticks
        /\ samples' = samples + 1 /\ faults' <= MaxFaults /\ faults' \in {faults, faults + 1}
        /\ ticks # Period => faults' = faults + 1
        /\ Sample(ticks).micros = (mcu.micros + ticks) % Word
        /\ Sample(ticks).sequence = mcu.sequence
    BY DEF Arrival
  <1>2. /\ last.at <= now /\ now - last.at <= faults * Longest
        /\ Minus(mcu.micros, clock.last_us) = now - last.at
        /\ Minus(mcu.sequence, clock.sequence) = samples - last.index + 1
    BY <1>1 DEF Follows
  <1>3. /\ last.at \in Nat /\ last.index \in Nat /\ clock.last_us \in Words
        /\ now \in Nat /\ samples \in Nat /\ faults \in 0..MaxFaults /\ mcu.micros \in Words
    BY AcquireWords, <1>1 DEF Taken, Ranges
  <1>4. /\ faults * Longest \in Nat /\ faults * Longest + Period < Word
        /\ faults < MaxFaults => faults * Longest + Longest + Period < Word
    BY <1>3, FaultTime
  <1>5. ticks <= Longest /\ Longest \in Nat /\ Period \in Nat /\ Word \in Nat /\ MaxFaults \in Nat
    BY LongestTime, SerialImuAssumption
  <1>6. now - last.at + ticks < Word
    <2>1. CASE ticks = Period
      BY <1>1, <1>2, <1>3, <1>4, <1>5, <2>1
    <2>2. CASE ticks # Period
      <3>1. faults < MaxFaults
        BY <1>1, <1>3, <1>5, <2>2
      <3>. QED
        BY <1>1, <1>2, <1>3, <1>4, <1>5, <3>1
    <2>. QED
      BY <2>1, <2>2
  <1>7. /\ Minus((mcu.micros + ticks) % Word, clock.last_us)
              = Minus(mcu.micros, clock.last_us) + ticks
        /\ (mcu.micros + ticks) % Word \in Words
    BY <1>1, <1>2, <1>3, <1>6, Ahead
  <1>8. now' - last.at = now - last.at + ticks /\ samples' - last.index = samples - last.index + 1
    BY <1>1, <1>3
  <1>9. now' - last.at \in 1..(Word - 1)
    BY <1>1, <1>2, <1>3, <1>5, <1>6, <1>8
  <1>10. /\ Minus(Sample(ticks).micros, clock.last_us) = now' - last.at
         /\ Sample(ticks).micros \in Words
    BY <1>1, <1>2, <1>7, <1>8
  <1>11. Minus(Sample(ticks).sequence, clock.sequence) = samples' - last.index
    BY <1>1, <1>2, <1>8
  <1>. QED
    BY <1>9, <1>10, <1>11

\* After a reset of the microcontroller no record is in sequence.
LEMMA RebootSeen ==
    ASSUME Ranges, Taken, Follows, clock.count > 0, mcu.boot # 0,
           NEW ticks, NEW d, NEW h, NEW b, Arrival(ticks, d, h, b)
    PROVE  ~InOrder(Sample(ticks))
  <1>1. /\ node = "running" /\ Sample(ticks).sequence = mcu.sequence
    BY DEF Arrival
  <1>2. mcu.boot = 1 /\ mcu.sequence \in Words /\ clock.sequence \in Words
    BY AcquireWords, SerialImuAssumption DEF Ranges, Taken
  <1>3. mcu.sequence < faults /\ clock.sequence \in MaxFaults..(Word \div 2)
    BY <1>1, <1>2 DEF Follows
  <1>4. /\ Minus(mcu.sequence, clock.sequence) =
               IF mcu.sequence >= clock.sequence THEN mcu.sequence - clock.sequence
               ELSE mcu.sequence - clock.sequence + Word
    BY <1>2, MinusIs
  <1>5. faults \in 0..MaxFaults /\ MaxFaults \in Nat /\ Word \in Nat
    BY SerialImuAssumption DEF Ranges
  <1>6. mcu.sequence \in Nat /\ clock.sequence \in Nat
    BY <1>2, <1>5 DEF Words
  <1>7. Word \div 2 \in Nat /\ 2 * (Word \div 2) <= Word
    BY <1>5
  <1>8. ~(Minus(mcu.sequence, clock.sequence) \in 1..(Word \div 2 - 1))
    BY <1>3, <1>4, <1>5, <1>6, <1>7
  <1>9. clock.last_us # None
    BY SerialImuAssumption DEF Taken, Words
  <1>. QED
    BY <1>1, <1>8, <1>9 DEF InOrder

\* Nothing has passed since the same sample.
LEMMA Same == \A x \in Int : x <= x /\ x - x = 0 /\ x - x + 1 = 1 /\ x - 0 = x
  OBVIOUS

\* The first record is taken.
LEMMA FirstTaken ==
    ASSUME Fresh, clock.count = 0, NEW s PROVE ~Refuse(s)
  <1>1. previous = None /\ rate.start = None /\ clock.last_us = None
    BY DEF Fresh
  <1>. QED
    BY <1>1 DEF Refuse, GapSeen, RateFault, WindowEnds, InOrder, Elapsing

\* A rate window has a beginning.
LEMMA RatedStart ==
    ASSUME Ranges, NEW s, s.micros \in Words, receipt' \in Int,
           rate.start # None => rate.start \in Int /\ rate.device \in Words
    PROVE  Rated(s, receipt').start \in Int /\ Rated(s, receipt').device \in Words
  <1>1. CASE rate.start = None
    BY <1>1 DEF Rated
  <1>2. CASE rate.start # None /\ WindowEnds(receipt')
    BY <1>2 DEF Rated
  <1>3. CASE rate.start # None /\ ~WindowEnds(receipt')
    BY <1>3 DEF Rated
  <1>. QED
    BY <1>1, <1>2, <1>3

\* What the clock counts, after a record it has taken.
LEMMA TakeCounts ==
    ASSUME ClockTyped, Ranges, Ranges', Fresh, Taken, Follows,
           NEW ticks \in {Period} \cup Stalls, NEW d \in Delays,
           NEW h, NEW b, Arrival(ticks, d, h, b),
           Take(Sample(ticks), now' * pace + d, b)
    PROVE  /\ mcu.boot = 0
           /\ clock'.count = clock.count + 1 /\ clock'.last_us = Sample(ticks).micros
           /\ Fresh' /\ Taken' /\ Follows'
  <1>. DEFINE s == Sample(ticks)
  <1>1. /\ node = "running" /\ ticks \in Nat /\ ticks > 0 /\ now' = now + ticks
        /\ samples' = samples + 1 /\ faults' \in {faults, faults + 1}
        /\ mcu' = [micros |-> (mcu.micros + ticks) % Word,
                   sequence |-> (mcu.sequence + 1) % Word,
                   on |-> mcu.on, boot |-> mcu.boot]
        /\ s.micros = (mcu.micros + ticks) % Word /\ s.sequence = mcu.sequence
    BY DEF Arrival
  <1>2. /\ ~GapSeen(s) /\ ~RateFault(s, receipt') /\ InOrder(s) /\ Elapsing(s)
        /\ node' = "running" /\ previous' = s.micros /\ rate' = Rated(s, receipt')
        /\ last' = [boot |-> mcu.boot, index |-> samples', at |-> now']
        /\ first' = IF first = None THEN samples' ELSE first
    BY DEF Take
  <1>3. /\ clock'.last_us = s.micros /\ clock'.sequence = s.sequence
        /\ clock'.count = clock.count + 1
        /\ clock'.dropped = IF clock.last_us = None THEN 0 ELSE Dropped(s)
    BY UpdatedFields DEF Take
  <1>4. s.micros \in Words /\ s.sequence \in Words /\ mcu.boot \in {0, 1}
    BY <1>1, AcquireWords
  <1>5. clock.count \in Nat /\ now \in Nat /\ samples \in Nat /\ faults \in Nat /\ receipt' \in Int
        /\ now' \in Nat /\ samples' \in Nat /\ faults' \in Nat /\ faults' \in 0..MaxFaults
    BY <1>1, SerialImuAssumption DEF ClockTyped, Ranges
  <1>6. mcu.boot = 0
    <2>1. CASE clock.count = 0
      BY <2>1 DEF Fresh
    <2>2. CASE clock.count > 0 /\ mcu.boot # 0
      BY <1>2, <2>2, RebootSeen
    <2>. QED
      BY <1>5, <2>1, <2>2
  <1>. HIDE DEF s
  <1>7. clock'.count > 0 /\ Fresh'
    BY <1>3, <1>5 DEF Fresh
  <1>8. /\ first' \in Nat \ {0} /\ clock'.dropped \in 0..faults'
        /\ clock'.dropped = last'.index - first' + 1 - clock'.count
    <2>1. CASE clock.count = 0
      BY <1>1, <1>2, <1>3, <1>5, <2>1 DEF Fresh
    <2>2. CASE clock.count > 0
      <3>1. /\ clock.last_us # None /\ first \in Nat \ {0} /\ first # None
            /\ last.index \in Nat /\ clock.dropped \in Nat
            /\ clock.dropped = last.index - first + 1 - clock.count
        BY <2>2, <1>5, SerialImuAssumption DEF Taken, Words
      <3>2. /\ Minus(s.sequence, clock.sequence) = samples' - last.index
            /\ clock.dropped + samples - last.index <= faults /\ last.index <= samples
        BY <1>1, <1>6, <2>2, Sent DEF Follows, Taken, s
      <3>3. clock'.dropped = clock.dropped + (samples' - last.index) - 1
        BY <1>3, <3>1, <3>2 DEF Dropped
      <3>4. first' = first /\ last'.index = samples' /\ samples' = samples + 1
            /\ clock'.count = clock.count + 1
        BY <1>1, <1>2, <1>3, <3>1
      <3>5. clock'.dropped = clock.dropped + samples - last.index
        BY <1>5, <3>1, <3>3, <3>4
      <3>6. clock'.dropped \in 0..faults'
        BY <1>1, <1>5, <3>1, <3>2, <3>5
      <3>7. clock'.dropped = last'.index - first' + 1 - clock'.count
        BY <1>5, <3>1, <3>4, <3>5
      <3>. QED
        BY <3>1, <3>4, <3>6, <3>7
    <2>. QED
      BY <1>5, <2>1, <2>2
  <1>9. rate'.start \in Int /\ rate'.device \in Words
    <2>1. rate.start # None => rate.start \in Int /\ rate.device \in Words
      BY <1>5 DEF Fresh, Taken
    <2>. QED
      BY <1>2, <1>4, <1>5, <2>1, RatedStart
  <1>10. Taken'
    BY <1>1, <1>2, <1>3, <1>4, <1>5, <1>6, <1>8, <1>9 DEF Taken
  <1>11. Follows'
    <2>1. faults' * Longest \in Nat
      BY <1>5, FaultTime
    <2>2. /\ Minus(mcu'.micros, clock'.last_us) = 0
          /\ Minus(mcu'.sequence, clock'.sequence) = 1
      BY <1>1, <1>3, <1>4, JustTaken
    <2>3. last'.at = now' /\ last'.index = samples' /\ mcu'.boot = 0
          /\ previous' = clock'.last_us /\ clock'.dropped <= faults' /\ clock'.dropped \in Nat
      BY <1>1, <1>2, <1>3, <1>5, <1>6, <1>8
    <2>4. last'.at <= now' /\ now' - last'.at = 0 /\ samples' - last'.index + 1 = 1
      <3>1. last'.at = now' /\ last'.index = samples'
        BY <2>3
      <3>2. now' \in Int /\ samples' \in Int
        BY <1>5
      <3>3. now' <= now' /\ now' - now' = 0 /\ samples' - samples' + 1 = 1
        BY <3>2, Same
      <3>. QED
        BY <3>1, <3>3, Zenon
    <2>5. clock'.dropped + samples' - last'.index <= faults'
      BY <1>5, <2>3
    <2>6. now' - last'.at <= faults' * Longest
      BY <2>1, <2>4
    <2>. QED
      BY <2>2, <2>3, <2>4, <2>5, <2>6 DEF Follows
  <1>. QED
    BY <1>3, <1>6, <1>7, <1>10, <1>11 DEF s

\* ... and after one that ends the node.
LEMMA RefuseCounts ==
    ASSUME ClockTyped, Ranges, Ranges', Fresh, Taken, Follows,
           NEW ticks \in {Period} \cup Stalls, NEW d \in Delays,
           NEW h, NEW b, Arrival(ticks, d, h, b), Refuse(Sample(ticks))
    PROVE  Fresh' /\ Taken' /\ Follows'
  <1>. DEFINE s == Sample(ticks)
  <1>1. /\ ticks \in Nat /\ samples' = samples + 1 /\ faults' \in {faults, faults + 1}
        /\ s.micros = (mcu.micros + ticks) % Word
    BY DEF Arrival
  <1>2. /\ node' \in {"gap", "rate", "reset"}
        /\ rate' = rate \/ rate' = Rated(s, receipt')
        /\ UNCHANGED <<clock, first, last>>
    BY DEF Refuse
  <1>3. clock.count > 0 /\ clock'.count = clock.count
    BY <1>2, FirstTaken DEF ClockTyped
  <1>4. s.micros \in Words /\ receipt' \in Int /\ samples \in Nat /\ faults \in Nat
    BY <1>1, AcquireWords, SerialImuAssumption DEF Ranges
  <1>. HIDE DEF s
  <1>5. rate'.start \in Int /\ rate'.device \in Words
    <2>1. rate.start \in Int /\ rate.device \in Words
      BY <1>3 DEF Taken
    <2>. QED
      BY <1>2, <1>4, <2>1, RatedStart
  <1>6. Taken'
    BY <1>1, <1>2, <1>3, <1>4, <1>5 DEF Taken
  <1>. QED
    BY <1>2, <1>3, <1>6 DEF Fresh, Follows
CountInv == ClockTyped /\ Ranges /\ Fresh /\ Taken /\ Follows

\* Nothing has been taken at first.
LEMMA InitCounts == Init => CountInv
  <1>. SUFFICES ASSUME Init PROVE CountInv
    OBVIOUS
  <1>1. PICK boot \in Boots :
          mcu = [micros |-> boot.micros, sequence |-> boot.sequence, on |-> TRUE, boot |-> 0]
    BY DEF Init
  <1>2. boot.micros \in Words /\ boot.sequence \in Words
    BY SerialImuAssumption DEF Words
  <1>3. Ranges
    <2>1. mcu \in [micros : Words, sequence : Words, on : BOOLEAN, boot : {0, 1}]
      BY <1>1, <1>2
    <2>2. 0 \in 0..MaxSamples /\ 0 \in 0..MaxFaults /\ 0 \in Nat /\ 0 \in Int /\ 0 \in 0..2
      BY SerialImuAssumption
    <2>3. /\ now = 0 /\ pace \in Paces /\ samples = 0 /\ faults = 0 /\ node = "running" /\ receipt = 0
          /\ published = FALSE /\ regular = TRUE
          /\ rate.count = 0 /\ rate.ready = FALSE /\ rate.slow = 0
      BY DEF Init
    <2>. QED
      BY <2>1, <2>2, <2>3 DEF Ranges
  <1>4. /\ clock.count = 0 /\ clock.last_us = None /\ clock.dropped = 0
        /\ last = None /\ first = None /\ previous = None /\ rate.start = None
        /\ mcu.boot = 0
    BY <1>1 DEF Init
  <1>5. Fresh /\ Taken /\ Follows
    BY <1>4 DEF Fresh, Taken, Follows
  <1>. QED
    BY <1>3, <1>5, ClockTypedInit DEF CountInv

\* A sample is lost: one more is missed, and time passes.
LEMMA LoseCounts ==
    ASSUME CountInv, ClockTyped', NEW ticks \in {Period} \cup Stalls, Lose(ticks)
    PROVE  CountInv'
  <1>1. /\ node = "running" /\ mcu.on /\ samples < MaxSamples
        /\ now' = now + ticks /\ samples' = samples + 1
        /\ faults' = faults + 1 /\ faults' <= MaxFaults /\ regular' = FALSE
        /\ UNCHANGED <<pace, node, receipt, clock, previous, rate, published, first, last>>
    BY DEF Lose, Acquire, Faulty
  <1>2. mcu' = [micros |-> (mcu.micros + ticks) % Word,
                sequence |-> (mcu.sequence + 1) % Word, on |-> mcu.on, boot |-> mcu.boot]
    BY DEF Lose, Acquire, CountInv, Ranges
  <1>3. ticks \in Nat /\ ticks <= Longest /\ Longest \in Nat /\ Period \in Nat \ {0}
        /\ Word \in Nat /\ MaxFaults \in Nat /\ MaxSamples \in Nat
    BY LongestTime, SerialImuAssumption
  <1>4. /\ (mcu.micros + ticks) % Word \in Words /\ (mcu.sequence + 1) % Word \in Words
        /\ mcu.micros \in Words /\ mcu.sequence \in Words
        /\ mcu.on \in BOOLEAN /\ mcu.boot \in {0, 1}
    BY <1>3, AcquireWords DEF CountInv
  <1>5. now \in Nat /\ samples \in 0..MaxSamples /\ faults \in 0..MaxFaults
    BY DEF CountInv, Ranges
  <1>6. Ranges'
    <2>1. mcu' \in [micros : Words, sequence : Words, on : BOOLEAN, boot : {0, 1}]
      BY <1>2, <1>4
    <2>2. now' \in Nat /\ samples' \in 0..MaxSamples /\ faults' \in 0..MaxFaults
      BY <1>1, <1>3, <1>5
    <2>. QED
      BY <1>1, <2>1, <2>2 DEF CountInv, Ranges
  <1>7. Fresh'
    BY <1>1, <1>2 DEF CountInv, Fresh
  <1>8. Taken'
    BY <1>1, <1>3, <1>5 DEF CountInv, Taken
  <1>9. ASSUME clock.count > 0 PROVE Follows'
    <2>1. /\ previous = clock.last_us /\ last.at <= now /\ now - last.at <= faults * Longest
          /\ mcu.boot = 0 => /\ Minus(mcu.micros, clock.last_us) = now - last.at
                             /\ Minus(mcu.sequence, clock.sequence) = samples - last.index + 1
                             /\ clock.dropped + samples - last.index <= faults
          /\ mcu.boot = 1 => mcu.sequence < faults /\ clock.sequence \in MaxFaults..(Word \div 2)
      BY <1>1, <1>9 DEF CountInv, Follows
    <2>2. /\ last.at \in Nat /\ last.index \in Nat /\ last.index <= samples
          /\ clock.last_us \in Words /\ clock.sequence \in Words /\ clock.dropped \in Nat
      BY <1>5, <1>9 DEF CountInv, Taken
    <2>3. /\ faults * Longest \in Nat /\ faults * Longest + Longest + Period < Word
          /\ (faults + 1) * Longest = faults * Longest + Longest
          /\ faults + 1 < Word
      BY <1>1, <1>3, <1>5, FaultTime
    <2>4. last.at <= now' /\ now' - last.at <= faults' * Longest
      BY <1>1, <1>3, <1>5, <2>1, <2>2, <2>3
    <2>5. ASSUME mcu.boot = 0
          PROVE  /\ Minus(mcu'.micros, clock.last_us) = now' - last.at
                 /\ Minus(mcu'.sequence, clock.sequence) = samples' - last.index + 1
                 /\ clock.dropped + samples' - last.index <= faults'
      <3>1. Minus(mcu.micros, clock.last_us) + ticks < Word
        BY <1>3, <1>5, <2>1, <2>2, <2>3, <2>5
      <3>2. Minus((mcu.micros + ticks) % Word, clock.last_us)
               = Minus(mcu.micros, clock.last_us) + ticks
        BY <1>3, <1>4, <2>2, <3>1, Ahead
      <3>3. Minus(mcu.sequence, clock.sequence) + 1 < Word
        <4>1. samples - last.index <= faults
          BY <1>5, <2>1, <2>2, <2>5
        <4>2. faults + 2 < Word
          <5>1. faults + 1 \in 0..MaxFaults
            BY <1>1, <1>5
          <5>. QED
            BY <5>1, <1>5, FaultTime
        <4>. QED
          BY <1>3, <1>5, <2>1, <2>2, <2>5, <4>1, <4>2
      <3>4. Minus((mcu.sequence + 1) % Word, clock.sequence)
               = Minus(mcu.sequence, clock.sequence) + 1
        BY <1>4, <2>2, <3>3, Ahead
      <3>. QED
        BY <1>1, <1>2, <1>3, <1>5, <2>1, <2>2, <2>5, <3>2, <3>4
    <2>6. ASSUME mcu.boot = 1
          PROVE  mcu'.sequence < faults' /\ clock.sequence \in MaxFaults..(Word \div 2)
      <3>1. mcu.sequence + 1 < faults' /\ mcu.sequence \in Nat
        BY <1>1, <1>3, <1>4, <1>5, <2>1, <2>6 DEF Words
      <3>2. mcu.sequence + 1 \in 0..(Word - 1)
        BY <1>1, <1>3, <1>5, <2>3, <3>1
      <3>3. (mcu.sequence + 1) % Word = mcu.sequence + 1
        BY <1>3, <3>2, SmallMod
      <3>. QED
        BY <1>2, <2>1, <2>6, <3>1, <3>3
    <2>7. /\ clock' = clock /\ last' = last /\ previous' = previous
          /\ mcu'.boot = mcu.boot
      BY <1>1, <1>2
    <2>. QED
      BY <2>1, <2>4, <2>5, <2>6, <2>7 DEF Follows
  <1>10. Follows'
    BY <1>1, <1>9 DEF Follows
  <1>. QED
    BY <1>6, <1>7, <1>8, <1>10 DEF CountInv

\* The counters start again; no number is as high as the last one taken.
LEMMA RebootCounts == ASSUME CountInv, ClockTyped', Reboot PROVE CountInv'
  <1>1. PICK ticks \in Stalls :
          /\ mcu' = [micros |-> 0, sequence |-> 0, on |-> TRUE, boot |-> 1]
          /\ now' = now + ticks
    BY DEF Reboot
  <1>2. /\ node = "running" /\ mcu.boot = 0 /\ last # None
        /\ clock.sequence \in MaxFaults..(Word \div 2)
        /\ faults' = faults + 1 /\ faults' <= MaxFaults /\ regular' = FALSE
        /\ UNCHANGED <<pace, samples, node, receipt, clock, previous, rate, published, first, last>>
    BY DEF Reboot, Faulty
  <1>3. ticks \in Nat /\ ticks <= Longest /\ Longest \in Nat /\ Word \in Nat \ {0}
        /\ MaxFaults \in Nat
    BY LongestTime, SerialImuAssumption
  <1>4. now \in Nat /\ faults \in 0..MaxFaults /\ samples \in Nat
    BY DEF CountInv, Ranges
  <1>5. Ranges'
    <2>1. mcu' \in [micros : Words, sequence : Words, on : BOOLEAN, boot : {0, 1}]
      BY <1>1, <1>3 DEF Words
    <2>2. now' \in Nat /\ faults' \in 0..MaxFaults
      BY <1>1, <1>2, <1>3, <1>4
    <2>. QED
      BY <1>2, <2>1, <2>2 DEF CountInv, Ranges
  <1>6. clock.count > 0
    BY <1>2 DEF CountInv, Fresh, ClockTyped
  <1>7. Fresh' /\ Taken'
    BY <1>2, <1>4, <1>6 DEF CountInv, Fresh, Taken
  <1>8. Follows'
    <2>1. last.at <= now /\ now - last.at <= faults * Longest /\ previous = clock.last_us
      BY <1>2, <1>6 DEF CountInv, Follows
    <2>2. last.at \in Nat
      BY <1>6 DEF CountInv, Taken
    <2>3. faults * Longest \in Nat /\ (faults + 1) * Longest = faults * Longest + Longest
      BY <1>4, FaultTime
    <2>4. last.at <= now' /\ now' - last.at <= faults' * Longest
      BY <1>1, <1>2, <1>3, <1>4, <2>1, <2>2, <2>3
    <2>5. mcu'.boot = 1 /\ mcu'.sequence < faults'
      BY <1>1, <1>2, <1>4
    <2>. QED
      BY <1>2, <2>1, <2>4, <2>5 DEF Follows
  <1>. QED
    BY <1>5, <1>7, <1>8 DEF CountInv

\* A node that ends, or hears nothing more, keeps what it has.
LEMMA EndCounts ==
    ASSUME CountInv, ClockTyped', Halt \/ Notice \/ StartupTimeout \/ UNCHANGED vars
    PROVE  CountInv'
  <1>1. CASE Halt
    <2>1. /\ mcu' = [micros |-> mcu.micros, sequence |-> mcu.sequence, on |-> FALSE,
                     boot |-> mcu.boot]
          /\ faults' = faults + 1 /\ faults' <= MaxFaults /\ regular' = FALSE
          /\ UNCHANGED <<now, pace, samples, node, receipt, clock, previous, rate, published,
                         first, last>>
      BY <1>1 DEF Halt, Faulty, CountInv, Ranges
    <2>2. faults \in 0..MaxFaults /\ faults' \in 0..MaxFaults /\ samples \in Nat
      BY <2>1, SerialImuAssumption DEF CountInv, Ranges
    <2>3. Ranges'
      <3>1. mcu' \in [micros : Words, sequence : Words, on : BOOLEAN, boot : {0, 1}]
        BY <2>1 DEF CountInv, Ranges
      <3>. QED
        BY <2>1, <2>2, <3>1 DEF CountInv, Ranges
    <2>4. Fresh' /\ Taken'
      BY <2>1, <2>2 DEF CountInv, Fresh, Taken
    <2>5. Follows'
      <3>1. CASE clock.count > 0 /\ node = "running"
        <4>1. /\ faults * Longest \in Nat /\ Longest \in Nat
              /\ (faults + 1) * Longest = faults * Longest + Longest
          BY <2>2, FaultTime, LongestTime
        <4>2. /\ previous = clock.last_us /\ last.at <= now /\ now - last.at <= faults * Longest
              /\ mcu.boot = 0 => /\ Minus(mcu.micros, clock.last_us) = now - last.at
                                 /\ Minus(mcu.sequence, clock.sequence) = samples - last.index + 1
                                 /\ clock.dropped + samples - last.index <= faults
              /\ mcu.boot = 1 => mcu.sequence < faults /\ clock.sequence \in MaxFaults..(Word \div 2)
          BY <3>1 DEF CountInv, Follows
        <4>3. now \in Nat /\ last.at \in Nat /\ last.index \in Nat /\ clock.dropped \in Nat
          BY <2>2, <3>1 DEF CountInv, Ranges, Taken
        <4>4. now - last.at <= faults' * Longest
          BY <2>1, <4>1, <4>2, <4>3
        <4>5. mcu.boot = 0 => clock.dropped + samples - last.index <= faults'
          BY <2>1, <2>2, <4>2, <4>3
        <4>6. mcu.boot = 1 => mcu.sequence < faults'
          <5>1. mcu.sequence \in Int
            BY SerialImuAssumption DEF CountInv, Ranges, Words
          <5>. QED
            BY <2>1, <2>2, <4>2, <5>1
        <4>7. mcu'.micros = mcu.micros /\ mcu'.sequence = mcu.sequence /\ mcu'.boot = mcu.boot
          BY <2>1
        <4>. QED
          BY <2>1, <4>2, <4>4, <4>5, <4>6, <4>7 DEF Follows
      <3>. QED
        BY <2>1, <3>1 DEF Follows
    <2>. QED
      BY <2>3, <2>4, <2>5 DEF CountInv
  <1>2. CASE Notice \/ StartupTimeout
    <2>1. /\ node' \in {"firmware", "silence", "startup"}
          /\ UNCHANGED <<now, pace, samples, faults, mcu, receipt, clock, previous, rate, published,
                         first, last>>
          /\ regular' \in {regular, FALSE}
      BY <1>2 DEF Notice, StartupTimeout
    <2>. QED
      BY <2>1 DEF CountInv, Ranges, Fresh, Taken, Follows
  <1>3. CASE UNCHANGED vars
    BY <1>3 DEF vars, CountInv, Ranges, Fresh, Taken, Follows
  <1>. QED
    BY <1>1, <1>2, <1>3

\* Every step keeps the counts.
LEMMA StepCounts == CountInv /\ [Next]_vars => CountInv'
  <1>. SUFFICES ASSUME CountInv, [Next]_vars PROVE CountInv'
    OBVIOUS
  <1>1. ClockTyped'
    BY StepInOrder DEF CountInv
  <1>2. ASSUME NEW ticks \in {Period} \cup Stalls, NEW d \in Delays,
               NEW h \in Holds \cup {0}, NEW b \in BOOLEAN, Deliver(ticks, d, h, b)
        PROVE  CountInv'
    <2>1. Arrival(ticks, d, h, b) /\ Ranges'
      BY <1>2, Delivered, DeliverRanges DEF CountInv
    <2>2. CASE Take(Sample(ticks), now' * pace + d, b)
      BY <1>1, <2>1, <2>2, TakeCounts DEF CountInv
    <2>3. CASE Refuse(Sample(ticks))
      BY <1>1, <2>1, <2>3, RefuseCounts DEF CountInv
    <2>. QED
      BY <2>1, <2>2, <2>3 DEF Arrival
  <1>3. ASSUME NEW ticks \in {Period} \cup Stalls, Lose(ticks) PROVE CountInv'
    BY <1>1, <1>3, LoseCounts
  <1>4. CASE Reboot
    BY <1>1, <1>4, RebootCounts
  <1>5. CASE Halt \/ Notice \/ StartupTimeout \/ UNCHANGED vars
    BY <1>1, <1>5, EndCounts
  <1>. QED
    BY <1>2, <1>3, <1>4, <1>5 DEF Next

\* The count of dropped samples is exact, over wraps of the number and of micros,
\* and stays so when the firmware restarts, for no sample of another boot is taken
\* (DeviceClock::update).
THEOREM DropsCounted == Spec => []DroppedExact
  <1>1. CountInv => DroppedExact
    <2>. SUFFICES ASSUME CountInv PROVE DroppedExact
      OBVIOUS
    <2>1. MaxFaults \in Nat /\ MaxSamples \in Nat /\ Word \in Nat
      BY SerialImuAssumption
    <2>2. clock.count \in Nat /\ samples \in 0..MaxSamples /\ faults \in 0..MaxFaults
      BY DEF CountInv, ClockTyped, Ranges
    <2>3. ASSUME clock.count > 0
          PROVE  /\ clock.dropped \in 0..MaxFaults /\ clock.count <= MaxSamples
                 /\ clock.dropped = last.index - first + 1 - clock.count
      <3>1. /\ last.index \in Nat /\ first \in Nat \ {0} /\ last.index <= samples
            /\ clock.dropped \in 0..faults
            /\ clock.dropped = last.index - first + 1 - clock.count
        BY <2>3 DEF CountInv, Taken
      <3>. QED
        BY <2>1, <2>2, <3>1
    <2>4. clock.count = 0 => clock.dropped = 0 /\ last = None
      BY DEF CountInv, Fresh
    <2>5. TypeOK
      BY <2>1, <2>2, <2>3, <2>4 DEF TypeOK, CountInv, Ranges, Words
    <2>. QED
      BY <2>2, <2>3, <2>4, <2>5 DEF DroppedExact
  <1>. QED
    BY InitCounts, StepCounts, <1>1, PTL DEF Spec
------------------------------------------------------------------------------
\* The length of a window, and by how much it is shorter than the longest gap.
LEMMA WindowTimes ==
    ASSUME pace \in Paces
    PROVE  /\ Window * Unit \in Nat /\ Window * Unit > 0
           /\ ResetGap * pace \in Nat /\ ResetGap * pace = Window * Unit + Slack
           /\ Slack \in Int
  <1>1. Window \in Nat /\ Window > 0 /\ ResetGap \in Nat /\ Unit \in Nat \ {0} /\ pace \in Nat
    BY PaceIs, SerialImuAssumption, LimitsAssumption
  <1>2. Window * Unit \in Nat /\ ResetGap * pace \in Nat
    BY <1>1
  <1>3. Window * Unit > 0
    BY <1>1, Z3
  <1>. QED
    BY <1>2, <1>3 DEF Slack

\* Fewer ticks are less time.
LEMMA LessTime ==
    ASSUME pace \in Paces, NEW x \in Nat, NEW y \in Nat, x * pace < y * pace
    PROVE  x < y
  <1>1. pace \in Nat
    BY PaceIs
  <1>. QED
    BY <1>1, Z3

\* The source has been in a window for less than the longest gap.
LEMMA SourceTime ==
    ASSUME CountInv, InWindow, clock.count > 0, node = "running"
    PROVE  /\ InSource \in 0..(ResetGap - 1) /\ last.at \in Nat
           /\ InSource * pace \in Nat /\ Began * pace = last.at * pace - InSource * pace
           /\ last.at * pace \in Nat
  <1>1. /\ clock.last_us \in Words /\ rate.device \in Words /\ last.at \in Nat
        /\ rate.start \in Int /\ receipt \in Int /\ pace \in Paces /\ pace \in Nat
    BY PaceIs DEF CountInv, Taken, Ranges
  <1>2. InSource \in Nat
    <2>1. InSource \in Words
      BY <1>1, MinusIs DEF InSource
    <2>. QED
      BY <2>1, SerialImuAssumption DEF Words
  <1>. DEFINE at1 == last.at * pace
              in == InSource * pace
              beg == Began * pace
              wu == Window * Unit
              ru == ResetGap * pace
  <1>3. beg = at1 - in /\ at1 \in Nat /\ in \in Nat
    BY <1>1, <1>2 DEF Began
  <1>4. wu \in Nat /\ ru \in Nat /\ ru = wu + Slack /\ Slack \in Int
    BY <1>1, WindowTimes
  <1>5. /\ receipt >= at1 /\ receipt - rate.start < wu /\ rate.start <= beg + Slack
    BY DEF InWindow, OnTime
  <1>6. ResetGap \in Nat
    BY SerialImuAssumption
  <1>. HIDE DEF at1, in, beg, wu, ru
  <1>7. in < ru
    BY <1>1, <1>3, <1>4, <1>5
  <1>8. InSource < ResetGap
    BY <1>1, <1>2, <1>6, <1>7, LessTime DEF in, ru
  <1>. QED
    BY <1>1, <1>2, <1>3, <1>6, <1>8 DEF at1, in, beg

\* A window in which the source was silent for the longest gap ends with too few
\* samples.
LEMMA SilentWindow ==
    ASSUME NEW n \in Nat, NEW t \in Nat, (n - 1) * Period <= t, t < ResetGap
    PROVE  TooSlow(n, t + ResetGap, Period)
  <1>1. Period \in Nat /\ ResetGap \in Nat /\ 5 * Period <= 3 * ResetGap
    BY SerialImuAssumption, LimitsAssumption
  <1>2. n * Period \in Nat /\ (n - 1) * Period = n * Period - Period
        /\ 5 * n * Period = 5 * (n * Period)
    BY <1>1
  <1>. DEFINE np == n * Period
  <1>3. np \in Nat /\ np - Period <= t
    BY <1>2
  <1>. HIDE DEF np
  <1>4. 5 * np < 4 * (t + ResetGap)
    BY <1>1, <1>3
  <1>. QED
    BY <1>2, <1>4 DEF TooSlow, np

\* No sample is taken after a longer gap than the estimator bears.
LEMMA TakeGap ==
    ASSUME CountInv, InWindow, clock.count > 0,
           NEW ticks \in {Period} \cup Stalls, NEW d \in Delays,
           NEW h, NEW b, Arrival(ticks, d, h, b),
           Take(Sample(ticks), now' * pace + d, b), CountInv'
    PROVE  /\ mcu.boot = 0 /\ last'.at = now' /\ last.at \in Nat /\ now' \in Nat
           /\ now' - last.at \in Period..MaxGap
           /\ Minus(Sample(ticks).micros, rate.device) = InSource + (now' - last.at)
  <1>. DEFINE s == Sample(ticks)
              gap == now' - last.at
  <1>1. /\ mcu.boot = 0 /\ last'.at = now' /\ node = "running" /\ last.at <= now
        /\ now' = now + ticks /\ ticks \in Nat /\ ticks >= Period
        /\ receipt' = Larger(receipt, now' * pace + d + h) /\ h \in Nat /\ d \in Nat
        /\ ~GapSeen(s) /\ ~RateFault(s, receipt') /\ Elapsing(s)
        /\ previous = clock.last_us
    BY TakeCounts DEF CountInv, Take, Arrival, Follows
  <1>2. /\ clock.last_us \in Words /\ rate.device \in Words /\ last.at \in Nat
        /\ rate.start \in Int /\ receipt \in Int /\ now \in Nat /\ rate.count \in Nat
        /\ clock.last_us # None /\ rate.start # None /\ now' \in Nat /\ receipt' \in Int
        /\ pace \in Paces
    BY SerialImuAssumption DEF CountInv, Taken, Ranges, Words
  <1>3. /\ Period \in Nat /\ MaxGap \in Nat /\ ResetGap \in Nat /\ MaxGap < ResetGap
        /\ 2 * ResetGap <= Word /\ Word \in Nat
    BY SerialImuAssumption, LimitsAssumption
  <1>4. Minus(s.micros, clock.last_us) = gap /\ s.micros \in Words /\ gap \in 1..(Word - 1)
    BY <1>1, Sent DEF CountInv
  <1>5. gap >= Period /\ gap \in Nat
    BY <1>1, <1>2, <1>3
  <1>. HIDE DEF s, gap
  <1>6. gap \in 1..ResetGap /\ gap \notin (MaxGap + 1)..(ResetGap - 1)
    BY <1>1, <1>2, <1>4 DEF GapSeen, Elapsing
  <1>7. InSource \in 0..(ResetGap - 1)
    BY <1>1, SourceTime
  <1>8. Minus(s.micros, rate.device) = InSource + gap
    <2>1. Minus(s.micros, clock.last_us) + Minus(clock.last_us, rate.device) < Word
      BY <1>3, <1>4, <1>6, <1>7 DEF InSource
    <2>2. Minus(s.micros, rate.device)
             = Minus(s.micros, clock.last_us) + Minus(clock.last_us, rate.device)
      BY <1>2, <1>4, <2>1, Between
    <2>. QED
      BY <1>3, <1>4, <1>6, <1>7, <2>2 DEF InSource
  <1>9. gap # ResetGap
    <2>. SUFFICES ASSUME gap = ResetGap PROVE FALSE
      OBVIOUS
    <2>. DEFINE at1 == last.at * pace
                at2 == now' * pace
                in == InSource * pace
                wu == Window * Unit
                ru == ResetGap * pace
    <2>1. /\ in \in Nat /\ at1 \in Nat /\ Began * pace = at1 - in
      BY <1>1, SourceTime
    <2>2. wu \in Nat /\ ru \in Nat /\ ru = wu + Slack /\ Slack \in Int
      BY <1>2, WindowTimes
    <2>3. at2 = at1 + ru
      <3>1. now' = last.at + ResetGap
        BY <1>2, <1>3 DEF gap
      <3>. QED
        BY <1>2, <1>3, <3>1, PaceTimes
    <2>4. rate.start <= at1 - in + Slack
      BY <1>1, <2>1 DEF InWindow, OnTime
    <2>5. receipt' >= at2
      <3>1. at2 \in Nat
        BY <2>1, <2>2, <2>3
      <3>2. receipt' >= at2 + d + h
        <4>. HIDE DEF at2
        <4>1. receipt' = Larger(receipt, at2 + d + h)
          BY <1>1 DEF at2
        <4>. QED
          BY <1>1, <1>2, <3>1, <4>1 DEF Larger
      <3>. HIDE DEF at2
      <3>. QED
        BY <1>1, <1>2, <3>1, <3>2
    <2>. HIDE DEF at1, at2, in, ru, wu
    <2>6. receipt' - rate.start >= wu
      BY <1>2, <2>1, <2>2, <2>3, <2>4, <2>5
    <2>7. WindowEnds(receipt')
      BY <1>2, <2>6 DEF WindowEnds, wu
    <2>8. TooSlow(rate.count, InSource + ResetGap, Period)
      <3>1. (rate.count - 1) * Period <= InSource
        BY <1>1 DEF InWindow, OnTime
      <3>. QED
        BY <1>2, <1>7, <1>3, <3>1, SilentWindow
    <2>9. SourceBad(s)
      BY <1>8, <2>8 DEF SourceBad, RateBad
    <2>. QED
      BY <1>1, <2>7, <2>9 DEF RateFault
  <1>10. gap \in Period..MaxGap
    BY <1>3, <1>5, <1>6, <1>9
  <1>. QED
    BY <1>1, <1>2, <1>8, <1>10 DEF s, gap
\* A record of the window that begins with it.
LEMMA WindowBegins ==
    ASSUME NEW u \in Words, clock'.last_us = u, rate'.device = u, rate'.count = 1,
           last'.at \in Nat, pace \in Paces, pace' = pace, rate'.start = receipt', receipt' \in Int,
           receipt' >= last'.at * pace, receipt' <= last'.at * pace + Slack
    PROVE  OnTime'
  <1>1. InSource' = 0
    BY JustTaken DEF InSource
  <1>2. Began' = last'.at
    BY <1>1 DEF Began
  <1>3. receipt' - rate'.start = 0 /\ rate'.start <= receipt'
    <2>1. receipt' - receipt' = 0 /\ receipt' <= receipt'
      BY Same
    <2>. QED
      BY <2>1
  <1>4. Window * Unit > 0 /\ Slack' = Slack
    BY WindowTimes DEF Slack
  <1>5. (rate'.count - 1) * Period <= InSource'
    <2>1. rate'.count - 1 = 0 /\ 0 * Period = 0
      BY SerialImuAssumption
    <2>. QED
      BY <1>1, <2>1
  <1>. QED
    BY <1>2, <1>3, <1>4, <1>5 DEF OnTime

\* A record is received after its observation, and in time for the one that
\* follows it (the time of the bytes behind it is bounded).
LEMMA ReceiptTime ==
    ASSUME CountInv, CountInv', InWindow,
           NEW ticks \in {Period} \cup Stalls, NEW d \in Delays,
           NEW h \in Holds \cup {0}, NEW b, Arrival(ticks, d, h, b)
    PROVE  /\ now' * pace \in Nat /\ receipt' \in Int
           /\ receipt' >= now' * pace + d + h /\ receipt' >= receipt
           /\ receipt' <= now' * pace + Slack
  <1>. DEFINE at1 == last.at * pace
              at2 == now' * pace
  <1>1. /\ node = "running" /\ now' = now + ticks /\ ticks \in Nat
        /\ receipt' = Larger(receipt, at2 + d + h)
        /\ d \in Nat /\ h \in Nat
    BY DEF Arrival
  <1>2. /\ now \in Nat /\ now' \in Nat /\ receipt \in Int /\ clock.count \in Nat
        /\ pace \in Paces
    BY DEF CountInv, Ranges, ClockTyped
  <1>3. at2 \in Nat
    BY <1>2, PaceTimes
  <1>4. d + h <= Slack /\ Slack \in Int
    BY <1>2, DelaysAssumption, WindowTimes DEF Slack
  <1>5. receipt <= at2 + Slack
    <2>1. CASE clock.count = 0
      BY <1>1, <1>2, <1>3, <1>4, <2>1 DEF InWindow
    <2>2. CASE clock.count > 0
      <3>1. last.at \in Nat /\ last.at <= now /\ receipt <= at1 + Slack
        BY <1>1, <2>2 DEF CountInv, Taken, Follows, InWindow, OnTime
      <3>. DEFINE past == now' - last.at
      <3>2. past \in Nat /\ now' = last.at + past
        BY <1>1, <1>2, <3>1
      <3>. HIDE DEF past
      <3>3. at2 = at1 + past * pace /\ past * pace \in Nat /\ at1 \in Nat
        BY <1>2, <3>1, <3>2, PaceTimes
      <3>. HIDE DEF at1, at2
      <3>. QED
        BY <1>2, <1>4, <3>1, <3>3
    <2>. QED
      BY <1>2, <2>1, <2>2
  <1>. HIDE DEF at2
  <1>. QED
    BY <1>1, <1>2, <1>3, <1>4, <1>5 DEF Larger, at2

\* A record that the clock takes leaves it on time.
LEMMA TakeWindow ==
    ASSUME CountInv, CountInv', InWindow,
           NEW ticks \in {Period} \cup Stalls, NEW d \in Delays,
           NEW h \in Holds \cup {0}, NEW b, Arrival(ticks, d, h, b),
           Take(Sample(ticks), now' * pace + d, b)
    PROVE  InWindow'
  <1>. DEFINE s == Sample(ticks)
              gap == now' - last.at
              at2 == now' * pace
              wu == Window * Unit
  <1>1. /\ last'.at = now' /\ node = "running" /\ clock'.last_us = s.micros
        /\ rate' = Rated(s, receipt') /\ clock'.count = clock.count + 1 /\ d \in Nat /\ h \in Nat
        /\ pace' = pace
    BY TakeCounts DEF CountInv, Take, Arrival
  <1>2. /\ clock.count \in Nat /\ clock'.count > 0 /\ now' \in Nat /\ s.micros \in Words
        /\ rate.count \in Nat /\ pace \in Paces
    BY <1>1, AcquireWords DEF CountInv, ClockTyped, Ranges, Arrival
  <1>3. /\ at2 \in Nat /\ receipt' \in Int /\ receipt' >= at2 + d + h
        /\ receipt' >= receipt /\ receipt' <= at2 + Slack
    BY ReceiptTime
  <1>4. wu \in Nat /\ Slack \in Int /\ Slack' = Slack
    BY <1>1, <1>2, WindowTimes DEF Slack
  <1>5. receipt' >= at2
    <2>. HIDE DEF at2
    <2>. QED
      BY <1>1, <1>3
  <1>. SUFFICES OnTime'
    BY <1>2 DEF InWindow
  <1>6. CASE clock.count = 0 \/ WindowEnds(receipt')
    <2>1. /\ rate'.start = receipt' /\ rate'.device = s.micros /\ rate'.count = 1
      <3>1. CASE rate.start = None
        BY <1>1, <3>1 DEF Rated
      <3>2. CASE rate.start # None
        BY <1>1, <1>6, <3>2 DEF Rated, CountInv, Fresh
      <3>. QED
        BY <3>1, <3>2
    <2>. HIDE DEF s
    <2>. QED
      BY <1>1, <1>2, <1>3, <1>5, <2>1, WindowBegins
  <1>7. CASE clock.count > 0 /\ ~WindowEnds(receipt')
    <2>1. /\ last.at \in Nat /\ gap \in Period..MaxGap
          /\ Minus(s.micros, rate.device) = InSource + gap
      BY <1>7, TakeGap
    <2>2. /\ rate.start \in Int /\ rate.start # None /\ OnTime
      BY <1>1, <1>7, SerialImuAssumption DEF CountInv, Taken, InWindow
    <2>3. /\ rate'.start = rate.start /\ rate'.device = rate.device
          /\ rate'.count = rate.count + 1
      BY <1>1, <1>7, <2>2 DEF Rated
    <2>4. InSource \in Nat /\ Period \in Nat /\ MaxGap \in Nat
      BY <1>1, <1>7, SourceTime, SerialImuAssumption
    <2>5. InSource' = InSource + gap
      BY <1>1, <2>1, <2>3 DEF InSource
    <2>6. Began' = Began
      BY <1>1, <1>2, <2>1, <2>4, <2>5 DEF Began
    <2>7. receipt' - rate.start < wu /\ rate.start <= receipt'
      <3>1. rate.start <= receipt
        BY <2>2 DEF OnTime
      <3>2. receipt \in Int
        BY DEF CountInv, Ranges
      <3>. QED
        BY <1>3, <1>4, <1>7, <2>2, <3>1, <3>2 DEF WindowEnds
    <2>8. rate'.count > 0 /\ (rate'.count - 1) * Period <= InSource'
      <3>1. rate.count > 0 /\ (rate.count - 1) * Period <= InSource
        BY <2>2 DEF OnTime
      <3>. DEFINE n == rate.count - 1
      <3>2. n \in Nat /\ rate'.count - 1 = n + 1
        BY <1>2, <2>3, <3>1
      <3>3. (n + 1) * Period = n * Period + Period /\ n * Period \in Nat
        BY <2>4, <3>2
      <3>4. n * Period <= InSource
        BY <3>1
      <3>. DEFINE np == n * Period
      <3>5. gap >= Period /\ gap \in Int
        BY <2>1, <2>4
      <3>. HIDE DEF n, np, gap
      <3>6. np + Period <= InSource + gap
        BY <2>4, <3>3, <3>4, <3>5 DEF np
      <3>. QED
        BY <1>2, <2>3, <2>5, <3>2, <3>3, <3>6 DEF np
    <2>9. rate'.start >= Began' * pace /\ rate'.start <= Began' * pace + Slack
      BY <2>2, <2>3, <2>6 DEF OnTime
    <2>. QED
      BY <1>1, <1>3, <1>4, <1>5, <2>3, <2>7, <2>8, <2>9 DEF OnTime
  <1>. QED
    BY <1>2, <1>6, <1>7

\* Every step leaves it on time, or ends the node.
LEMMA StepWindow == CountInv /\ CountInv' /\ InWindow /\ [Next]_vars => InWindow'
  <1>. SUFFICES ASSUME CountInv, CountInv', InWindow, [Next]_vars PROVE InWindow'
    OBVIOUS
  <1>1. ASSUME UNCHANGED <<pace, receipt, clock, rate, last>>, node' = "running" => node = "running"
        PROVE  InWindow'
    BY <1>1 DEF InWindow, OnTime, InSource, Began, Slack
  <1>2. ASSUME NEW ticks \in {Period} \cup Stalls, NEW d \in Delays,
               NEW h \in Holds \cup {0}, NEW b \in BOOLEAN, Deliver(ticks, d, h, b)
        PROVE  InWindow'
    <2>1. Arrival(ticks, d, h, b)
      BY <1>2, Delivered DEF CountInv
    <2>2. CASE Take(Sample(ticks), now' * pace + d, b)
      BY <2>1, <2>2, TakeWindow
    <2>3. CASE Refuse(Sample(ticks))
      <3>1. clock'.count > 0 /\ node' # "running"
        BY <2>3, FirstTaken DEF Refuse, CountInv, ClockTyped
      <3>. QED
        BY <3>1 DEF InWindow
    <2>. QED
      BY <2>1, <2>2, <2>3 DEF Arrival
  <1>3. ASSUME NEW ticks \in {Period} \cup Stalls, Lose(ticks) PROVE InWindow'
    BY <1>1, <1>3 DEF Lose, Acquire
  <1>4. CASE Reboot \/ Halt \/ Notice \/ StartupTimeout \/ UNCHANGED vars
    <2>1. UNCHANGED <<pace, receipt, clock, rate, last>> /\ (node' = "running" => node = "running")
      BY <1>4 DEF Reboot, Halt, Notice, StartupTimeout, vars
    <2>. QED
      BY <1>1, <2>1
  <1>. QED
    BY <1>2, <1>3, <1>4 DEF Next

\* No break is stamped over: neither a gap of device time that the checks of
\* receive leave between them, nor one that a turn of micros could hide, nor a
\* restart of the firmware (receive, DeviceClock::update).
THEOREM BreaksSeen == Spec => BreaksAreSeen
  <1>1. Init => InWindow
    BY DEF Init, InWindow
  <1>2. CountInv /\ InWindow /\ CountInv' /\ [Next]_vars =>
            [last # None /\ last' # last =>
                last'.at - last.at <= MaxGap /\ last'.boot = last.boot]_vars
    <2>. SUFFICES ASSUME CountInv, InWindow, CountInv', Next, last # None, last' # last
         PROVE  last'.at - last.at <= MaxGap /\ last'.boot = last.boot
      BY DEF vars
    <2>1. PICK ticks \in {Period} \cup Stalls, d \in Delays, h \in Holds \cup {0}, b \in BOOLEAN :
              Deliver(ticks, d, h, b)
      BY DEF Next, Lose, Reboot, Halt, Notice, StartupTimeout
    <2>2. Arrival(ticks, d, h, b)
      BY <2>1, Delivered DEF CountInv
    <2>3. Take(Sample(ticks), now' * pace + d, b)
      BY <2>2 DEF Arrival, Refuse
    <2>4. clock.count > 0 /\ clock'.count > 0
      BY <2>2, <2>3, TakeCounts DEF CountInv, Fresh, ClockTyped
    <2>5. last'.at = now' /\ now' - last.at \in Period..MaxGap
      BY <2>2, <2>3, <2>4, TakeGap
    <2>6. last.boot = 0 /\ last'.boot = 0
      BY <2>4 DEF CountInv, Taken
    <2>. QED
      BY <2>5, <2>6, SerialImuAssumption
  <1>. QED
    BY InitCounts, StepCounts, StepWindow, <1>1, <1>2, PTL DEF Spec, BreaksAreSeen
------------------------------------------------------------------------------
\* A share of n, in whole numbers.
LEMMA Part ==
    ASSUME NEW a \in Nat, NEW g \in Nat \ {0}
    PROVE  /\ a \div g \in Nat /\ g * (a \div g) <= a /\ a \div g <= a
           /\ \A w \in Nat : g * w <= a => w <= a \div g
  <1>. DEFINE q == a \div g
  <1>1. q \in Nat /\ g * q <= a /\ a < g * q + g
    OBVIOUS
  <1>. HIDE DEF q
  <1>2. q <= g * q
    BY <1>1, Z3
  <1>3. ASSUME NEW w \in Nat, g * w <= a PROVE w <= q
    <2>1. g * w < g * (q + 1)
      BY <1>1, <1>3
    <2>. QED
      BY <1>1, <2>1, Z3
  <1>. QED
    BY <1>1, <1>2, <1>3 DEF q

\* What a minimum takes back in a block.
LEMMA ShareIs ==
    ASSUME NEW m \in Int
    PROVE  /\ Share(m) \in Nat /\ (m >= 0 => Share(m) = 0)
           /\ m < 0 => \A k \in 0..Block : k * Share(m) <= 2 * (-m)
  <1>1. Gain \in Nat \ {0} /\ Block \in Nat /\ Block <= 2 * Gain
    BY SerialImuAssumption, LimitsAssumption
  <1>2. CASE m >= 0
    BY <1>2 DEF Share
  <1>3. CASE m < 0
    <2>. DEFINE q == (-m) \div Gain
    <2>1. -m \in Nat
      BY <1>3
    <2>2. q \in Nat /\ Gain * q <= -m
      BY <1>1, <2>1, Part
    <2>3. Share(m) = q
      BY <1>3 DEF Share
    <2>. HIDE DEF q
    <2>4. ASSUME NEW k \in 0..Block PROVE k * q <= 2 * (-m)
      <3>1. k \in Nat /\ k <= 2 * Gain
        BY <1>1
      <3>2. k * q <= (2 * Gain) * q
        BY <1>1, <2>2, <3>1, Z3
      <3>3. (2 * Gain) * q = 2 * (Gain * q)
        BY <1>1, <2>2, Z3
      <3>. QED
        BY <1>1, <2>1, <2>2, <3>1, <3>2, <3>3
    <2>. QED
      BY <1>3, <2>2, <2>3, <2>4
  <1>. QED
    BY <1>2, <1>3

\* A correction is towards the minimum and no longer than its share, and makes up
\* for an error w of the device's pace once the minimum is large enough.
LEMMA CorrectionIs ==
    ASSUME NEW m \in Int, NEW delta \in Nat, NEW w \in Nat, w <= Limit * delta
    PROVE  /\ Correction(m, delta) \in Int
           /\ m >= 0 => Correction(m, delta) \in 0..m
           /\ m < 0 => Correction(m, delta) \in (-Share(m))..0
           /\ m >= 0 /\ m >= Gain * w => Correction(m, delta) >= w
           /\ m < 0 /\ -m >= Gain * w => Correction(m, delta) <= -w
  <1>1. Gain \in Nat \ {0} /\ Limit \in Nat
    BY SerialImuAssumption
  <1>2. Limit * delta \in Nat
    BY <1>1
  <1>3. CASE m >= 0
    <2>. DEFINE share == Smaller(m \div Gain, Limit * delta)
    <2>1. /\ m \in Nat /\ m \div Gain \in Nat /\ m \div Gain <= m
          /\ m >= Gain * w => w <= m \div Gain
      BY <1>1, <1>3, Part
    <2>2. share \in Nat /\ share <= m /\ (m >= Gain * w => share >= w)
      BY <1>2, <2>1 DEF Smaller
    <2>3. Abs(m) = m
      BY <1>3 DEF Abs
    <2>4. Correction(m, delta) = share
      BY <1>3, <2>3 DEF Correction
    <2>. HIDE DEF share
    <2>. QED
      BY <1>3, <2>1, <2>2, <2>4
  <1>4. CASE m < 0
    <2>. DEFINE share == Smaller((-m) \div Gain, Limit * delta)
    <2>0. -m \in Nat
      BY <1>4
    <2>1. /\ (-m) \div Gain \in Nat /\ Share(m) = (-m) \div Gain
          /\ -m >= Gain * w => w <= (-m) \div Gain
      BY <1>1, <1>4, <2>0, Part DEF Share
    <2>2. share \in Nat /\ share <= Share(m) /\ (-m >= Gain * w => share >= w)
      BY <1>2, <2>1 DEF Smaller
    <2>3. Abs(m) = -m
      BY <1>4 DEF Abs
    <2>4. Correction(m, delta) = -share
      BY <1>4, <2>3 DEF Correction
    <2>. HIDE DEF share
    <2>. QED
      BY <1>4, <2>1, <2>2, <2>4
  <1>. QED
    BY <1>3, <1>4

\* The position in a block.
LEMMA InBlock ==
    ASSUME NEW n \in Nat, NEW w \in Nat \ {0}
    PROVE  /\ n % w \in 0..(w - 1)
           /\ (n + 1) % w # 0 => (n + 1) % w = (n % w) + 1
  <1>. DEFINE q == n \div w
              r == n % w
              q2 == (n + 1) \div w
              r2 == (n + 1) % w
  <1>1. /\ q \in Nat /\ q2 \in Nat /\ r \in 0..(w - 1) /\ r2 \in 0..(w - 1)
        /\ n = w * q + r /\ n + 1 = w * q2 + r2
    OBVIOUS
  <1>. HIDE DEF q, r, q2, r2
  <1>2. w * (q2 - q) = r + 1 - r2
    BY <1>1, Z3
  <1>3. /\ q2 - q \in Int
        /\ q2 - q > 1 => w * (q2 - q) > w
        /\ q2 - q < 0 => w * (q2 - q) <= -w
    BY <1>1, Z3
  <1>4. q2 - q \in {0, 1}
    BY <1>1, <1>2, <1>3
  <1>5. CASE q2 - q = 0
    <2>1. w * (q2 - q) = 0
      BY <1>1, <1>5
    <2>. QED
      BY <1>1, <1>2, <2>1 DEF r, r2
  <1>6. CASE q2 - q = 1
    <2>1. w * (q2 - q) = w
      BY <1>1, <1>6
    <2>2. r2 = 0
      BY <1>1, <1>2, <2>1
    <2>. QED
      BY <1>1, <2>2 DEF r, r2
  <1>. QED
    BY <1>4, <1>5, <1>6

\* The minimum of a block with one more error.
LEMMA LowestIs ==
    ASSUME NEW x \in Int, clock.minimum \in Int \cup {None}
    PROVE  /\ Lowest(x) \in Int /\ Lowest(x) <= x /\ Lowest(x) \in {x, clock.minimum}
           /\ Lowest(x) # x => clock.minimum # None /\ Lowest(x) = clock.minimum
  BY SerialImuAssumption DEF Lowest, Smaller

\* What a device's clock runs away from the node's in delta ticks.
LEMMA Away ==
    ASSUME pace \in Paces, NEW delta \in Nat, delta <= MaxGap
    PROVE  LET w == delta * Abs(pace - Unit) IN
           /\ w \in Nat /\ w <= Skew /\ w <= Limit * delta /\ Skew \in Nat
           /\ delta * Unit \in Nat /\ delta * pace \in Nat
           /\ delta * Unit - delta * pace \in {w, -w}
  <1>. DEFINE a == Abs(pace - Unit)
  <1>1. /\ pace \in Nat /\ Unit \in Nat /\ Limit \in Nat /\ a \in Nat /\ a <= Limit
        /\ pace - Unit \in {a, -a} /\ MaxGap \in Nat /\ Skew = a * MaxGap
    BY PaceIs, SerialImuAssumption DEF Skew
  <1>. HIDE DEF a
  <1>2. delta * a \in Nat /\ a * MaxGap \in Nat /\ delta * Unit \in Nat /\ delta * pace \in Nat
    BY <1>1
  <1>3. delta * a <= a * MaxGap /\ delta * a <= Limit * delta
    BY <1>1, Z3
  <1>4. delta * Unit - delta * pace \in {delta * a, -(delta * a)}
    <2>1. CASE pace = Unit + a
      BY <1>1, <2>1
    <2>2. CASE pace = Unit - a
      BY <1>1, <2>2
    <2>. QED
      BY <1>1, <2>1, <2>2
  <1>. QED
    BY <1>1, <1>2, <1>3, <1>4 DEF a

\* One correction, from the error e, what the device ran away by, v, and the minimum
\* n of the block: skew bounds the latter, and the correction outweighs it once the
\* minimum has reached Gain times as much.
LEMMA Steering ==
    ASSUME NEW e \in Int, NEW w \in Nat, NEW v \in {w, -w}, NEW skew \in Nat, w <= skew,
           NEW n \in Int, NEW fix \in Int, NEW k \in 0..(Block - 1), NEW d \in Int,
           Least \in Nat, Most \in Nat, Least <= d, d <= Most,
           e >= 2 * Least - Most - (Gain + Block) * skew, e <= Most + Gain * skew,
           n <= d - (e + v), n >= Least - Most - (Gain + 1) * skew,
           e + v >= Least - n - k * (Share(n) + skew),
           n >= 0 => fix \in 0..n, n < 0 => fix \in (-Share(n))..0,
           n >= 0 /\ n >= Gain * w => fix >= w,
           n < 0 /\ -n >= Gain * w => fix <= -w
    PROVE  /\ (e + v) + fix >= 2 * Least - Most - (Gain + Block) * skew
           /\ (e + v) + fix <= Most + Gain * skew
           /\ (e + v) + fix >= Least - n - (k + 1) * (Share(n) + skew) + skew
  <1>. DEFINE q == Share(n)
              gs == Gain * skew
              bs == Block * skew
              ks == k * skew
              kq == k * q
              gw == Gain * w
  <1>1. Gain \in Nat /\ Block \in Nat \ {0} /\ k \in Nat /\ k + 1 \in 0..Block /\ k + 1 <= Block
    BY SerialImuAssumption
  <1>2. /\ q \in Nat /\ (n >= 0 => q = 0) /\ (n < 0 => (k + 1) * q <= 2 * (-n))
    BY <1>1, ShareIs
  <1>. HIDE DEF q
  <1>3. /\ gs \in Nat /\ bs \in Nat /\ ks \in Nat /\ kq \in Nat /\ gw \in Nat
        /\ (Gain + Block) * skew = gs + bs /\ (Gain + 1) * skew = gs + skew
        /\ k * (q + skew) = kq + ks
        /\ (k + 1) * (q + skew) = kq + q + ks + skew /\ (k + 1) * q = kq + q
    BY <1>1, <1>2
  <1>4. gw <= gs
    BY <1>1, Z3
  <1>5. ks + skew <= bs
    <2>1. (k + 1) * skew <= Block * skew
      BY <1>1, Z3
    <2>. QED
      BY <1>1, <2>1
  <1>6. /\ e >= 2 * Least - Most - (gs + bs) /\ e <= Most + gs
        /\ n >= Least - Most - (gs + skew) /\ e + v >= Least - n - (kq + ks)
        /\ n >= 0 /\ n >= gw => fix >= w
        /\ n < 0 /\ -n >= gw => fix <= -w
        /\ n < 0 => fix \in (-q)..0 /\ kq + q <= 2 * (-n)
        /\ n >= 0 => q = 0 /\ kq = 0
    BY <1>1, <1>2, <1>3 DEF q
  <1>. HIDE DEF gs, bs, ks, kq, gw
  <1>7. (e + v) + fix >= Least - n - (kq + q + ks + skew) + skew
    BY <1>2, <1>3, <1>6
  <1>8. (e + v) + fix <= Most + gs
    BY <1>2, <1>3, <1>4, <1>6
  <1>9. (e + v) + fix >= 2 * Least - Most - (gs + bs)
    <2>1. CASE n >= gw
      BY <1>2, <1>3, <1>6, <2>1
    <2>2. CASE 0 <= n /\ n < gw
      BY <1>2, <1>3, <1>4, <1>5, <1>6, <2>2
    <2>3. CASE n < 0
      BY <1>2, <1>3, <1>5, <1>6, <1>7, <2>3
    <2>. QED
      BY <1>3, <2>1, <2>2, <2>3
  <1>. QED
    BY <1>3, <1>7, <1>8, <1>9 DEF gs, bs, q

\* The clock's fields after a record, with the time since the last one.
LEMMA UpdatedTimes ==
    ASSUME NEW s, NEW observed, NEW delta, NEW c,
           delta = IF clock.last_us = None THEN 0 ELSE Minus(s.micros, clock.last_us),
           c = Updated(s, observed)
    PROVE  LET elapsed == clock.elapsed + delta * Unit
               anchor == IF clock.anchor = None THEN observed - elapsed
                         ELSE Smaller(clock.anchor, observed - elapsed)
               predicted == clock.stamp + delta * Unit
               minimum == Lowest(observed - predicted)
               count == clock.count + 1
           IN /\ c.elapsed = elapsed
              /\ c.anchor = IF count <= Block THEN anchor ELSE clock.anchor
              /\ c.stamp = IF count <= Block THEN anchor + elapsed
                          ELSE predicted + Correction(minimum, delta)
              /\ c.minimum = Kept(minimum, count)
  BY DEF Updated

\* After a record that the clock has taken it is as near to the sensor's time as
\* the jitter of the line and the device's pace allow.
LEMMA TakeInStep ==
    ASSUME CountInv, CountInv', InWindow, InStep,
           NEW ticks \in {Period} \cup Stalls, NEW d \in Delays,
           NEW h, NEW b, Arrival(ticks, d, h, b),
           Take(Sample(ticks), now' * pace + d, b)
    PROVE  InStep'
  <1>. DEFINE s == Sample(ticks)
              delta == IF clock.last_us = None THEN 0 ELSE Minus(s.micros, clock.last_us)
              past == delta * Unit
              gone == delta * pace
              v == past - gone
              w == delta * Abs(pace - Unit)
              at1 == last.at * pace
              at2 == now' * pace
              o == at2 + d
              m == Lowest(o - (clock.stamp + past))
              fix == Correction(m, delta)
  <1>1. /\ mcu.boot = 0 /\ clock'.count = clock.count + 1 /\ pace' = pace
        /\ last'.at = now' /\ clock' = Updated(s, at2 + d)
    BY TakeCounts DEF CountInv, Take, Arrival
  <1>2. /\ Block \in Nat \ {0} /\ Gain \in Nat \ {0} /\ clock.count \in Nat /\ now' \in Nat
        /\ clock.stamp \in Int /\ clock.elapsed \in Int /\ None \notin Int /\ pace \in Paces
        /\ clock.minimum \in Int \cup {None} /\ clock.anchor \in Int \cup {None}
        /\ MaxGap \in Nat
    BY SerialImuAssumption DEF CountInv, ClockTyped, Ranges
  <1>3. /\ d \in Nat /\ Least \in Nat /\ Most \in Nat /\ Least <= d /\ d <= Most
    BY DelayBounds, SerialImuAssumption
  <1>4. at2 \in Nat
    BY <1>2, PaceTimes
  <1>5. clock.count = 0 => past = 0 /\ delta = 0 /\ clock.anchor = None
    <2>1. Unit \in Nat
      BY SerialImuAssumption
    <2>. QED
      BY <2>1 DEF CountInv, Fresh, InStep
  <1>6. ASSUME clock.count > 0
        PROVE  delta \in Nat /\ delta <= MaxGap /\ at1 \in Nat /\ at2 = at1 + gone
    <2>1. clock.last_us \in Words /\ clock.last_us # None
      BY <1>2, <1>6, SerialImuAssumption DEF CountInv, Taken, Words
    <2>2. /\ Minus(s.micros, clock.last_us) = now' - last.at
          /\ last.at \in Nat /\ now' - last.at \in Period..MaxGap
      BY <1>1, <1>6, Sent, TakeGap DEF CountInv
    <2>3. delta = now' - last.at /\ delta \in Nat /\ delta <= MaxGap
      BY <1>2, <2>1, <2>2, SerialImuAssumption
    <2>. HIDE DEF delta
    <2>4. at1 \in Nat
      BY <1>2, <2>2, PaceTimes
    <2>5. now' = last.at + delta
      BY <1>2, <2>2, <2>3
    <2>6. (last.at + delta) * pace = at1 + gone
      BY <1>2, <2>2, <2>3, PaceTimes
    <2>. QED
      BY <2>3, <2>4, <2>5, <2>6
  <1>7. /\ clock'.elapsed = clock.elapsed + past
        /\ clock'.anchor = IF clock.count + 1 <= Block
                           THEN IF clock.anchor = None THEN o - (clock.elapsed + past)
                                ELSE Smaller(clock.anchor, o - (clock.elapsed + past))
                           ELSE clock.anchor
        /\ clock'.stamp = IF clock.count + 1 <= Block
                          THEN (IF clock.anchor = None THEN o - (clock.elapsed + past)
                                ELSE Smaller(clock.anchor, o - (clock.elapsed + past)))
                               + (clock.elapsed + past)
                          ELSE clock.stamp + past + fix
        /\ clock'.minimum = Kept(m, clock.count + 1)
    <2>. HIDE DEF s
    <2>1. delta = IF clock.last_us = None THEN 0 ELSE Minus(s.micros, clock.last_us)
      OBVIOUS
    <2>2. clock' = Updated(s, o)
      BY <1>1
    <2>. HIDE DEF delta, o, at2
    <2>. QED
      BY <2>1, <2>2, UpdatedTimes
  <1>8. PICK skew \in Nat :
            /\ skew = Skew /\ skew = Skew'
            /\ clock.count > 0 => /\ w \in Nat /\ w <= skew /\ w <= Limit * delta
                                  /\ past \in Nat /\ gone \in Nat /\ v \in {w, -w}
    <2>1. Skew' = Skew
      BY <1>1 DEF Skew
    <2>2. Skew \in Nat
      <3>1. 0 \in Nat /\ 0 <= MaxGap
        BY <1>2
      <3>. QED
        BY <1>2, <3>1, Away
    <2>3. clock.count > 0 => /\ w \in Nat /\ w <= Skew /\ w <= Limit * delta
                             /\ past \in Nat /\ gone \in Nat /\ v \in {w, -w}
      <3>. HIDE DEF delta
      <3>. QED
        BY <1>2, <1>6, Away
    <2>. HIDE DEF v, w, past, gone, delta
    <2>. QED
      BY <2>1, <2>2, <2>3
  <1>9. PICK e1 \in Int, e2 \in Int :
            /\ e2 = Error' /\ e2 = clock'.stamp - at2
            /\ clock.count > 0 => e1 = Error /\ e1 = clock.stamp - at1
    <2>1. Error' = clock'.stamp - at2
      BY <1>1 DEF Error
    <2>2. clock'.stamp \in Int
      BY DEF CountInv, ClockTyped
    <2>3. Error = clock.stamp - at1
      BY DEF Error
    <2>4. clock.count > 0 => Error \in Int
      BY <1>2, <1>6, <2>3
    <2>. HIDE DEF at1, at2
    <2>5. Error' \in Int
      BY <1>4, <2>1, <2>2
    <2>. QED
      BY <2>1, <2>3, <2>4, <2>5
  <1>10. PICK gs \in Nat, bs \in Nat, cs \in Int :
            /\ gs = Gain * skew /\ bs = Block * skew /\ (Gain + Block) * skew = gs + bs
            /\ cs = (clock.count - 1) * skew /\ clock.count * skew = cs + skew
            /\ clock.count > 0 => cs >= 0
            /\ clock.count + 1 <= Block => cs + skew <= bs
    <2>1. /\ Gain * skew \in Nat /\ Block * skew \in Nat
          /\ (Gain + Block) * skew = Gain * skew + Block * skew
          /\ (clock.count - 1) * skew \in Int
          /\ clock.count * skew = (clock.count - 1) * skew + skew
      BY <1>2
    <2>2. clock.count > 0 => (clock.count - 1) * skew >= 0
      BY <1>2, Z3
    <2>3. clock.count + 1 <= Block => clock.count * skew <= Block * skew
      BY <1>2, Z3
    <2>. QED
      BY <2>1, <2>2, <2>3
  <1>0. m = Lowest((at2 + d) - (clock.stamp + past))
    OBVIOUS
  <1>. HIDE DEF s, delta, past, gone, v, w, at1, at2, fix, m
  <1>11. /\ InStep' <=>
              /\ e2 >= 2 * Least - Most - (gs + bs) /\ e2 <= Most + gs
              /\ clock'.count <= Block => WarmedUp'
              /\ clock'.minimum # None => Steered'
    <2>1. clock'.count > 0
      BY <1>1, <1>2
    <2>2. InStep' <=>
              /\ e2 \in (2 * Least - Most - (Gain + Block) * skew)..(Most + Gain * skew)
              /\ clock'.count <= Block => WarmedUp'
              /\ clock'.minimum # None => Steered'
      BY <1>8, <1>9, <1>1, <1>2, <2>1 DEF InStep
    <2>. QED
      BY <1>3, <1>10, <2>2
  <1>12. CASE clock.count = 0
    <2>1. clock.count + 1 <= Block
      BY <1>2, <1>12
    <2>2. clock'.anchor = o - clock'.elapsed /\ clock'.stamp = clock'.anchor + clock'.elapsed
          /\ clock'.minimum = None /\ clock'.elapsed = clock.elapsed + past
      BY <1>5, <1>7, <1>12, <2>1 DEF Kept
    <2>3. clock'.elapsed \in Int /\ clock'.anchor \in Int /\ clock'.stamp = at2 + d
      BY <1>2, <1>3, <1>4, <1>5, <1>12, <2>2
    <2>4. e2 = d
      BY <1>3, <1>4, <1>9, <2>3
    <2>5. WarmedUp'
      <3>1. (clock'.count - 1) * skew = 0
        <4>1. clock'.count - 1 = 0
          BY <1>1, <1>12
        <4>. QED
          BY <4>1
      <3>2. Least' = Least /\ Most' = Most
        BY DEF Least, Most
      <3>. QED
        BY <1>3, <1>8, <1>9, <2>2, <2>3, <2>4, <3>1, <3>2 DEF WarmedUp
    <2>. QED
      BY <1>3, <1>11, <2>2, <2>4, <2>5
  <1>13. CASE clock.count > 0 /\ clock.count + 1 <= Block
    <2>0. InStep /\ clock.count <= Block
      BY <1>2, <1>13
    <2>1. /\ clock.anchor \in Int /\ clock.stamp = clock.anchor + clock.elapsed
          /\ e1 >= Least - cs /\ e1 <= Most
      BY <1>8, <1>9, <1>10, <1>13, <2>0 DEF InStep, WarmedUp
    <2>2. /\ past \in Nat /\ gone \in Nat /\ at1 \in Nat /\ at2 = at1 + gone
          /\ v = past - gone /\ v \in {w, -w} /\ w \in Nat /\ w <= skew
          /\ e1 = clock.stamp - at1
      BY <1>6, <1>8, <1>9, <1>13 DEF v
    <2>3. /\ clock'.elapsed = clock.elapsed + past
          /\ clock'.anchor = Smaller(clock.anchor, o - clock'.elapsed)
          /\ clock'.stamp = clock'.anchor + clock'.elapsed
          /\ clock'.minimum = None
      BY <1>2, <1>7, <1>13, <2>1 DEF Kept
    <2>4. clock'.elapsed \in Int /\ clock'.anchor \in Int
      BY <1>2, <1>3, <1>4, <2>1, <2>2, <2>3 DEF Smaller
    <2>5. e2 = Smaller(e1 + v, d)
      BY <1>2, <1>3, <1>4, <1>9, <2>1, <2>2, <2>3, <2>4 DEF Smaller
    <2>6. e2 >= Least - (cs + skew) /\ e2 <= Most
      BY <1>3, <1>10, <1>13, <2>1, <2>2, <2>5 DEF Smaller
    <2>7. WarmedUp'
      <3>1. (clock'.count - 1) * skew = cs + skew
        <4>1. clock'.count - 1 = clock.count
          BY <1>1, <1>2
        <4>. QED
          BY <1>10, <4>1
      <3>2. Least' = Least /\ Most' = Most
        BY DEF Least, Most
      <3>. QED
        BY <1>8, <1>9, <2>3, <2>4, <2>6, <3>1, <3>2 DEF WarmedUp
    <2>8. e2 >= 2 * Least - Most - (gs + bs) /\ e2 <= Most + gs
      BY <1>3, <1>10, <1>13, <2>6
    <2>. QED
      BY <1>11, <2>3, <2>7, <2>8
  <1>14. CASE clock.count > 0 /\ ~(clock.count + 1 <= Block)
    <2>1. /\ e1 >= 2 * Least - Most - (Gain + Block) * skew /\ e1 <= Most + Gain * skew
          /\ clock.minimum # None => Steered
      <3>1. /\ Error \in (2 * Least - Most - (Gain + Block) * Skew)..(Most + Gain * Skew)
            /\ clock.minimum # None => Steered
        BY <1>14 DEF InStep
      <3>2. e1 \in (2 * Least - Most - (Gain + Block) * skew)..(Most + Gain * skew)
        BY <1>8, <1>9, <1>14, <3>1
      <3>. QED
        BY <1>3, <1>10, <3>1, <3>2
    <2>2. clock'.stamp = clock.stamp + past + fix
          /\ clock'.minimum = Kept(m, clock.count + 1)
      BY <1>7, <1>14
    <2>3. /\ delta \in Nat /\ past \in Nat /\ gone \in Nat /\ at1 \in Nat /\ at2 = at1 + gone
          /\ v = past - gone /\ v \in {w, -w} /\ v \in Int
          /\ w \in Nat /\ w <= skew /\ w <= Limit * delta
          /\ e1 = clock.stamp - at1
      BY <1>6, <1>8, <1>9, <1>14 DEF v
    <2>4. (at2 + d) - (clock.stamp + past) = d - (e1 + v)
      BY <1>2, <1>3, <2>3
    <2>5. m = Lowest(d - (e1 + v))
      BY <1>0, <2>4
    <2>6. /\ m \in Int /\ m <= d - (e1 + v)
          /\ m # d - (e1 + v) => clock.minimum # None /\ m = clock.minimum
      BY <1>2, <1>3, <2>3, <2>5, LowestIs
    <2>7. /\ fix \in Int /\ (m >= 0 => fix \in 0..m) /\ (m < 0 => fix \in (-Share(m))..0)
          /\ m >= 0 /\ m >= Gain * w => fix >= w
          /\ m < 0 /\ -m >= Gain * w => fix <= -w
      BY <2>3, <2>6, CorrectionIs DEF fix
    <2>8. e2 = (e1 + v) + fix
      BY <1>2, <1>4, <1>9, <2>2, <2>3, <2>7
    <2>. DEFINE k == clock.count % Block
    <2>9. k \in 0..(Block - 1) /\ ((clock.count + 1) % Block # 0 => (clock.count + 1) % Block = k + 1)
      BY <1>2, InBlock
    <2>. HIDE DEF k
    <2>10. PICK q \in Nat : q = Share(m)
      BY <2>6, ShareIs
    <2>11. PICK kd \in Nat : kd = k * (q + skew)
      <3>1. k \in Nat
        BY <1>2, <2>9
      <3>. QED
        BY <2>10, <3>1
    <2>12. m >= Least - Most - (Gain + 1) * skew /\ e1 + v >= Least - m - k * (q + skew)
      <3>1. (Gain + 1) * skew = gs + skew
        BY <1>2, <1>10
      <3>2. CASE m = d - (e1 + v)
        BY <1>3, <1>10, <2>1, <2>3, <2>6, <2>11, <3>1, <3>2
      <3>3. CASE m # d - (e1 + v)
        <4>1. Steered /\ m = clock.minimum
          BY <2>1, <2>6, <3>3
        <4>2. m >= Least - Most - (Gain + 1) * skew /\ e1 >= Least - m - kd + skew
          BY <1>8, <1>9, <1>14, <2>10, <2>11, <4>1 DEF Steered, k
        <4>. QED
          BY <1>3, <2>3, <2>6, <2>11, <4>2
      <3>. QED
        BY <3>2, <3>3
    <2>13. /\ (e1 + v) + fix >= 2 * Least - Most - (Gain + Block) * skew
           /\ (e1 + v) + fix <= Most + Gain * skew
           /\ (e1 + v) + fix >= Least - m - (k + 1) * (Share(m) + skew) + skew
      <3>1. e1 + v >= Least - m - k * (Share(m) + skew)
        BY <2>10, <2>12
      <3>2. v \in {w, -w} /\ w \in Nat /\ w <= skew
        BY <2>3
      <3>3. e1 \in Int /\ skew \in Nat /\ d \in Int
        BY <1>3, <1>8, <1>9
      <3>. QED
        BY <1>3, <2>1, <2>6, <2>7, <2>9, <2>12, <3>1, <3>2, <3>3, Steering, Zenon
    <2>14. e2 >= 2 * Least - Most - (gs + bs) /\ e2 <= Most + gs
      BY <1>10, <2>8, <2>13
    <2>15. ASSUME clock'.minimum # None PROVE Steered'
      <3>1. clock'.minimum = m /\ (clock.count + 1) % Block # 0
        BY <2>2, <2>15 DEF Kept
      <3>2. clock'.count % Block = k + 1
        BY <1>1, <2>9, <3>1
      <3>3. Share(clock.minimum)' = Share(m) /\ Least' = Least /\ Most' = Most
        BY <3>1 DEF Share, Least, Most
      <3>. QED
        BY <1>8, <1>9, <2>8, <2>12, <2>13, <3>1, <3>2, <3>3 DEF Steered
    <2>16. ~(clock'.count <= Block)
      BY <1>1, <1>14
    <2>. QED
      BY <1>11, <2>14, <2>15, <2>16
  <1>. QED
    BY <1>2, <1>12, <1>13, <1>14

\* No other step moves the clock.
LEMMA StepInStep == CountInv /\ CountInv' /\ InWindow /\ InStep /\ [Next]_vars => InStep'
  <1>. SUFFICES ASSUME CountInv, CountInv', InWindow, InStep, [Next]_vars PROVE InStep'
    OBVIOUS
  <1>1. ASSUME UNCHANGED <<pace, clock, last>> PROVE InStep'
    BY <1>1 DEF InStep, WarmedUp, Steered, Error, Share, Skew
  <1>2. ASSUME NEW ticks \in {Period} \cup Stalls, NEW d \in Delays,
               NEW h \in Holds \cup {0}, NEW b \in BOOLEAN, Deliver(ticks, d, h, b)
        PROVE  InStep'
    <2>1. Arrival(ticks, d, h, b)
      BY <1>2, Delivered DEF CountInv
    <2>2. CASE Take(Sample(ticks), now' * pace + d, b)
      BY <2>1, <2>2, TakeInStep
    <2>3. CASE Refuse(Sample(ticks))
      BY <1>1, <2>1, <2>3 DEF Refuse, Arrival
    <2>. QED
      BY <2>1, <2>2, <2>3 DEF Arrival
  <1>3. ASSUME NEW ticks \in {Period} \cup Stalls, Lose(ticks) PROVE UNCHANGED <<pace, clock, last>>
    BY <1>3 DEF Lose, Acquire
  <1>4. Reboot \/ Halt \/ Notice \/ StartupTimeout \/ UNCHANGED vars => UNCHANGED <<pace, clock, last>>
    BY DEF Reboot, Halt, Notice, StartupTimeout, vars
  <1>. QED
    BY <1>1, <1>2, <1>3, <1>4 DEF Next

\* The clock does not drift off, for every jitter of the line and every device whose
\* pace is off by no more than the clock may be corrected, although it follows the
\* pace by the samples it has seen only, and one early record steers a whole block of
\* corrections: the correction outweighs the pace once the minimum is Gain times what
\* the device may run away between two samples, and a block moves the clock back by
\* at most twice the excess it saw (DeviceClock::update).
THEOREM ClockInStep == Spec => []ClockTracks
  <1>1. Init => InStep
    BY DEF Init, InStep
  <1>2. CountInv /\ InStep => ClockTracks
    <2>. SUFFICES ASSUME CountInv, InStep, clock.count >= Block
         PROVE Error \in (2 * Least - Most - (Gain + Block) * Skew)..(Most + Gain * Skew)
      BY DEF ClockTracks, Error, Least, Most, Skew
    <2>1. clock.count > 0
      BY SerialImuAssumption DEF CountInv, ClockTyped
    <2>. QED
      BY <2>1 DEF InStep
  <1>3. Init => InWindow
    BY DEF Init, InWindow
  <1>. QED
    BY InitCounts, StepCounts, StepWindow, StepInStep, <1>1, <1>2, <1>3, PTL DEF Spec
------------------------------------------------------------------------------
\* The nominal time of n samples.
LEMMA NominalTime ==
    ASSUME NEW n \in Nat, NEW p \in Nat
    PROVE  5 * n * p = 5 * (n * p) /\ \A u \in Nat : n * (p * u) = (n * p) * u
  <1>1. 5 * n * p = 5 * (n * p)
    BY Z3
  <1>2. ASSUME NEW u \in Nat PROVE n * (p * u) = (n * p) * u
    BY Z3
  <1>. QED
    BY <1>1, <1>2

\* A window of the length w*u in host time, in which np nominal ticks of a pace p
\* and a jitter z are seen as too slow, or z less as too fast.
LEMMA SlowWindow ==
    ASSUME NEW np \in Nat, NEW u \in Nat \ {0}, NEW p \in Nat \ {0}, NEW w \in Nat,
           NEW z \in Int, NEW c \in Nat, c = 5 * u - 4 * p,
           5 * (np * u) < 4 * (np * p + z), np * p + z >= w * u
    PROVE  5 * z > w * c
  <1>1. np * c = 5 * (np * u) - 4 * (np * p)
    BY Z3
  <1>2. np * c < 4 * z
    BY <1>1
  <1>3. p * (np * c) < p * (4 * z)
    BY <1>2, Z3
  <1>4. (w * u) * c <= (np * p + z) * c
    BY Z3
  <1>5. (np * p + z) * c = p * (np * c) + z * c /\ z * c = 5 * (u * z) - p * (4 * z)
    BY Z3
  <1>6. u * (w * c) < u * (5 * z)
    BY <1>3, <1>4, <1>5, Z3
  <1>. QED
    BY <1>6, Z3

LEMMA FastWindow ==
    ASSUME NEW np \in Nat, NEW u \in Nat \ {0}, NEW p \in Nat \ {0}, NEW w \in Nat,
           NEW z \in Int, NEW f \in Nat, f = 6 * p - 5 * u,
           5 * (np * u) > 6 * (np * p - z), np * p - z >= w * u
    PROVE  5 * z > w * f
  <1>1. np * f = 6 * (np * p) - 5 * (np * u)
    BY Z3
  <1>2. np * f < 6 * z
    BY <1>1
  <1>3. p * (np * f) < p * (6 * z)
    BY <1>2, Z3
  <1>4. (w * u) * f <= (np * p - z) * f
    BY Z3
  <1>5. (np * p - z) * f = p * (np * f) - z * f /\ z * f = p * (6 * z) - 5 * (u * z)
    BY Z3
  <1>6. u * (w * f) < u * (5 * z)
    BY <1>3, <1>4, <1>5, Z3
  <1>. QED
    BY <1>6, Z3

\* The device's pace is within the limits of the rate.
LEMMA RoomIs ==
    ASSUME pace \in Paces
    PROVE  /\ 5 * Unit - 4 * pace \in Nat /\ 6 * pace - 5 * Unit \in Nat /\ Room \in Nat
           /\ Least \in Nat /\ Most \in Nat
           /\ 5 * (Most - Least) <= Room
           /\ 5 * (Most - Least) <= Window * (6 * pace - 5 * Unit)
  <1>1. PICK e \in Delays : TRUE
    BY DelaysAssumption
  <1>2. /\ Least \in Delays /\ Most \in Delays /\ Least \in Nat /\ Most \in Nat
        /\ pace \in Nat /\ Unit \in Nat /\ Window \in Nat /\ Window > 0 /\ e \in Nat
    BY DelayBounds, PaceIs, SerialImuAssumption, LimitsAssumption
  <1>. DEFINE c == 5 * Unit - 4 * pace
              f == 6 * pace - 5 * Unit
  <1>3. c \in Int /\ f \in Int
    BY <1>2
  <1>4. /\ 5 * (Most - Least) <= Window * c /\ 5 * (Most - Least) <= Window * f
        /\ 5 * (e - e) <= Window * c /\ 5 * (e - e) <= Window * f
    BY <1>2, DelaysAssumption
  <1>5. Room = Window * c
    BY DEF Room
  <1>. HIDE DEF c, f
  <1>6. Window * c >= 0 /\ Window * f >= 0
    BY <1>2, <1>3, <1>4
  <1>7. c >= 0 /\ f >= 0
    BY <1>2, <1>3, <1>6, Z3
  <1>8. Window * c \in Nat
    BY <1>2, <1>3, <1>7
  <1>. QED
    BY <1>2, <1>3, <1>4, <1>5, <1>7, <1>8 DEF c, f

\* A rate window of n samples, its first record late by x and the record that ends
\* it by y: it is slow only if the latter is late by a fifth of a window more, less
\* what the device's pace takes of it, and neither slow nor fast if both are late
\* by the jitter of the line at most.
LEMMA RegularWindow ==
    ASSUME pace \in Paces, NEW n \in Nat, NEW x \in Nat, NEW y \in Nat, NEW at \in Int,
           rate.start \in Int, at - rate.start = n * (Period * pace) + (y - x),
           at - rate.start >= Window * Unit
    PROVE  /\ TooSlow(n, at - rate.start, Period * Unit) => 5 * y > Room + 5 * x
           /\ x <= Most - Least /\ y <= Most - Least =>
                 ~RateBad(n, at - rate.start, Period * Unit)
  <1>. DEFINE wu == Window * Unit
              i == at - rate.start
              np == n * Period
              c == 5 * Unit - 4 * pace
              f == 6 * pace - 5 * Unit
              wf == Window * f
  <1>1. wu \in Nat /\ wu > 0 /\ i \in Int /\ i >= wu
    BY WindowTimes
  <1>2. /\ Period \in Nat /\ Window \in Nat /\ pace \in Nat \ {0} /\ Unit \in Nat \ {0}
        /\ np \in Nat
    BY PaceIs, SerialImuAssumption
  <1>3. i = np * pace + (y - x)
    BY <1>2, NominalTime
  <1>4. 5 * n * (Period * Unit) = 5 * (np * Unit)
    <2>. DEFINE pu == Period * Unit
    <2>1. pu \in Nat /\ n * pu = np * Unit
      BY <1>2, NominalTime
    <2>. HIDE DEF pu, np
    <2>2. 5 * n * pu = 5 * (n * pu)
      BY <2>1, NominalTime
    <2>. QED
      BY <2>1, <2>2 DEF pu
  <1>5. /\ TooSlow(n, i, Period * Unit) <=> 5 * (np * Unit) < 4 * i
        /\ TooFast(n, i, Period * Unit) <=> 5 * (np * Unit) > 6 * i
    BY <1>4 DEF TooSlow, TooFast
  <1>6. /\ c \in Nat /\ f \in Nat /\ Room \in Nat /\ Room = Window * c
        /\ Least \in Nat /\ Most \in Nat
        /\ 5 * (Most - Least) <= Room /\ 5 * (Most - Least) <= wf /\ wf \in Int
    BY <1>2, RoomIs DEF Room
  <1>. HIDE DEF np, i
  <1>7. 5 * (np * Unit) < 4 * i => 5 * (y - x) > Room
    <2>. HIDE DEF c, f
    <2>1. y - x \in Int /\ c = 5 * Unit - 4 * pace
      BY DEF c
    <2>. QED
      BY <1>1, <1>2, <1>3, <1>6, <2>1, SlowWindow
  <1>8. 5 * (np * Unit) > 6 * i => 5 * (x - y) > wf
    <2>1. x - y \in Int /\ f = 6 * pace - 5 * Unit /\ np * pace \in Nat
      BY <1>2
    <2>. HIDE DEF c, f
    <2>2. i = np * pace - (x - y)
      BY <1>3, <2>1
    <2>. QED
      BY <1>1, <1>2, <1>6, <2>1, <2>2, FastWindow
  <1>9. RateBad(n, i, Period * Unit)
           <=> i = 0 \/ 5 * (np * Unit) < 4 * i \/ 5 * (np * Unit) > 6 * i
    BY <1>5 DEF RateBad
  <1>. HIDE DEF wf, wu
  <1>10. 5 * (np * Unit) < 4 * i => 5 * y > Room + 5 * x
    BY <1>6, <1>7
  <1>11. x <= Most - Least /\ y <= Most - Least =>
            ~(5 * (y - x) > Room) /\ ~(5 * (x - y) > wf)
    BY <1>6
  <1>12. i # 0
    BY <1>1
  <1>. QED
    BY <1>5, <1>7, <1>8, <1>9, <1>10, <1>11, <1>12 DEF i

\* How late a record may be.
LEMMA LateBound ==
    ASSUME pace \in Paces, NEW d \in Delays, NEW h \in Holds \cup {0}
    PROVE  /\ d \in Nat /\ h \in Nat /\ Least \in Nat /\ Most \in Nat /\ Least <= d /\ d <= Most
           /\ 5 * ((d + h) - Least) <= 3 * Room
  <1>1. d \in Nat /\ h \in Nat /\ Least \in Delays /\ Least \in Nat /\ Most \in Nat
        /\ Least <= d /\ d <= Most
    BY DelayBounds, SerialImuAssumption
  <1>2. Room \in Nat
    BY RoomIs
  <1>3. CASE h \in Holds
    <2>1. 5 * (d + h - Least) <= 3 * Room
      BY <1>1, <1>3, DelaysAssumption DEF Room
    <2>2. d + h - Least = (d + h) - Least
      BY <1>1
    <2>. QED
      BY <1>1, <2>1, <2>2
  <1>4. CASE h = 0
    <2>1. 5 * (d - Least) <= Room
      BY <1>1, DelaysAssumption DEF Room
    <2>. QED
      BY <1>1, <1>2, <1>4, <2>1
  <1>. QED
    BY <1>1, <1>3, <1>4

SteadyInv == CountInv /\ InWindow /\ Steady

\* The first record, and every one that ends a window, begins one.
LEMMA SteadyBegins ==
    ASSUME NEW u \in Words, clock'.last_us = u, rate'.device = u, rate'.count = 1,
           last'.at \in Nat
    PROVE  InSource' = (rate'.count - 1) * Period /\ Began' = last'.at
  <1>1. InSource' = 0
    BY JustTaken DEF InSource
  <1>2. Began' = last'.at
    BY <1>1 DEF Began
  <1>3. (rate'.count - 1) * Period = 0
    <2>1. rate'.count - 1 = 0 /\ 0 * Period = 0
      BY SerialImuAssumption
    <2>. QED
      BY <2>1
  <1>. QED
    BY <1>1, <1>2, <1>3

\* How a regular record meets the source: in sequence, after one period.
LEMMA SteadySource ==
    ASSUME SteadyInv, regular, clock.count > 0, NEW d \in Delays,
           NEW h \in Holds \cup {0}, NEW b, Arrival(Period, d, h, b)
    PROVE  LET s == Sample(Period) IN
           /\ ~GapSeen(s) /\ InOrder(s) /\ Elapsing(s) /\ ~SourceBad(s)
           /\ Minus(s.micros, rate.device) = rate.count * Period
           /\ now' = last.at + Period /\ rate.count \in Nat \ {0}
  <1>. DEFINE s == Sample(Period)
  <1>1. /\ mcu.boot = 0 /\ node = "running" /\ last.at = now /\ last.index = samples
        /\ InSource = (rate.count - 1) * Period
    BY DEF SteadyInv, Steady
  <1>2. /\ now' = now + Period /\ samples' = samples + 1
    BY DEF Arrival
  <1>3. /\ now \in Nat /\ samples \in Nat /\ rate.count \in Nat /\ rate.count > 0
        /\ rate.device \in Words /\ clock.last_us \in Words /\ clock.last_us # None
        /\ previous = clock.last_us
    BY <1>1, SerialImuAssumption DEF SteadyInv, CountInv, Ranges, Taken, Follows, InWindow,
       OnTime, Words
  <1>4. /\ Period \in Nat \ {0} /\ MaxGap \in Nat /\ ResetGap \in Nat /\ Period <= MaxGap
        /\ MaxGap < ResetGap /\ 2 * ResetGap <= Word /\ Word \in Nat /\ Word >= 4
    BY SerialImuAssumption, LimitsAssumption
  <1>5. /\ Minus(s.micros, clock.last_us) = now' - last.at /\ s.micros \in Words
        /\ Minus(s.sequence, clock.sequence) = samples' - last.index
    BY <1>1, Sent DEF SteadyInv, CountInv
  <1>. HIDE DEF s
  <1>6. Minus(s.micros, clock.last_us) = Period /\ Minus(s.sequence, clock.sequence) = 1
    BY <1>1, <1>2, <1>3, <1>4, <1>5
  <1>7. ~GapSeen(s) /\ Elapsing(s)
    BY <1>3, <1>4, <1>6 DEF GapSeen, Elapsing
  <1>8. InOrder(s)
    <2>1. 1 \in 1..(Word \div 2 - 1)
      BY <1>4
    <2>. QED
      BY <1>6, <2>1 DEF InOrder
  <1>9. InSource \in 0..(ResetGap - 1)
    BY <1>1, SourceTime DEF SteadyInv
  <1>10. Minus(s.micros, rate.device) = InSource + Period
    <2>1. Minus(s.micros, clock.last_us) + Minus(clock.last_us, rate.device) < Word
      BY <1>4, <1>6, <1>9 DEF InSource
    <2>2. Minus(s.micros, rate.device)
             = Minus(s.micros, clock.last_us) + Minus(clock.last_us, rate.device)
      BY <1>3, <1>5, <2>1, Between
    <2>. QED
      BY <1>4, <1>6, <1>9, <2>2 DEF InSource
  <1>11. Minus(s.micros, rate.device) = rate.count * Period
    <2>1. (rate.count - 1) * Period = rate.count * Period - Period /\ rate.count * Period \in Nat
      BY <1>3, <1>4
    <2>. QED
      BY <1>1, <1>4, <1>10, <2>1
  <1>12. ~SourceBad(s)
    <2>. DEFINE np == rate.count * Period
    <2>1. np \in Nat /\ np > 0
      BY <1>3, <1>4, Z3
    <2>2. 5 * rate.count * Period = 5 * np
      BY <1>3, <1>4, NominalTime
    <2>. HIDE DEF np
    <2>3. ~RateBad(rate.count, np, Period)
      BY <2>1, <2>2 DEF RateBad, TooSlow, TooFast
    <2>. QED
      BY <1>11, <2>3 DEF SourceBad, np
  <1>. QED
    BY <1>1, <1>2, <1>3, <1>7, <1>8, <1>11, <1>12 DEF s
\* A rate window of a regular source: t for the source, x and y by how much its
\* first and its last record are late.
LEMMA SteadyWindow ==
    ASSUME SteadyInv, regular, clock.count > 0, NEW d \in Delays,
           NEW h \in Holds \cup {0}, NEW b, Arrival(Period, d, h, b),
           NEW r \in Int, WindowEnds(r),
           NEW y \in Nat, y = (r - now' * pace) - Least,
           5 * y <= 3 * Room, ~rate.ready => y <= Most - Least
    PROVE  /\ ~RateFault(Sample(Period), r)
           /\ 5 * y >= SlowWindows(r) * Room
  <1>. DEFINE s == Sample(Period)
              x == LateFirst
              t == rate.count * (Period * pace)
              at2 == now' * pace
              wu == Window * Unit
              m == Room
              beg == Began * pace
  <1>1. /\ ~SourceBad(s) /\ rate.count \in Nat \ {0} /\ now' = last.at + Period
        /\ node = "running"
    BY SteadySource DEF Arrival
  <1>2. /\ InSource = (rate.count - 1) * Period
        /\ x >= 0 /\ 5 * x >= rate.slow * m
        /\ ~rate.ready => x <= Most - Least
    BY DEF SteadyInv, Steady
  <1>3. /\ rate.start \in Int /\ rate.slow \in 0..2 /\ pace \in Paces
    BY DEF SteadyInv, CountInv, Taken, Ranges
  <1>4. /\ last.at \in Nat /\ InSource \in Nat /\ last.at * pace \in Nat
        /\ beg = last.at * pace - InSource * pace /\ InSource * pace \in Nat
    BY <1>1, SourceTime DEF SteadyInv
  <1>5. /\ wu \in Nat /\ wu > 0 /\ pace \in Nat /\ Period \in Nat /\ Least \in Nat /\ Most \in Nat
        /\ m \in Nat
    BY <1>3, WindowTimes, PaceIs, SerialImuAssumption, RoomIs
  <1>6. at2 \in Nat /\ beg \in Int /\ at2 = beg + t /\ t \in Nat
    <2>1. (rate.count - 1) * Period = rate.count * Period - Period /\ rate.count * Period \in Nat
      BY <1>1, <1>5
    <2>. DEFINE np == rate.count * Period
    <2>2. np = InSource + Period /\ np \in Nat
      BY <1>2, <1>4, <1>5, <2>1
    <2>3. t = np * pace
      BY <1>1, <1>5, NominalTime
    <2>. HIDE DEF np
    <2>4. np * pace = InSource * pace + Period * pace /\ Period * pace \in Nat
      BY <1>3, <1>4, <1>5, <2>2, PaceTimes
    <2>5. at2 = last.at * pace + Period * pace
      BY <1>1, <1>3, <1>4, <1>5, PaceTimes
    <2>. HIDE DEF at2, beg, t
    <2>. QED
      BY <1>4, <2>3, <2>4, <2>5
  <1>7. x = (rate.start - beg) - Least
    BY <1>3, <1>5, <1>6 DEF LateFirst
  <1>8. r - rate.start >= wu
    BY DEF WindowEnds
  <1>. DEFINE i == r - rate.start
  <1>9. /\ x \in Nat /\ i = t + (y - x)
    <2>. HIDE DEF x, at2, beg, t
    <2>1. x \in Nat
      BY <1>2, <1>3, <1>5, <1>6, <1>7
    <2>2. y = (r - at2) - Least
      BY DEF at2
    <2>. QED
      BY <1>3, <1>5, <1>6, <1>7, <2>1, <2>2
  <1>10. /\ TooSlow(rate.count, i, Period * Unit) => 5 * y > m + 5 * x
         /\ x <= Most - Least /\ y <= Most - Least => ~RateBad(rate.count, i, Period * Unit)
    <2>2. r - rate.start = rate.count * (Period * pace) + (y - x)
      BY <1>9
    <2>. HIDE DEF x, t
    <2>. QED
      BY <1>1, <1>3, <1>8, <1>9, <2>2, RegularWindow
  <1>11. ~(~rate.ready /\ HostBad(r))
    BY <1>2, <1>10 DEF HostBad
  <1>12. SlowWindows(r) < 3 /\ 5 * y >= SlowWindows(r) * m
    <2>1. CASE TooSlow(rate.count, i, Period * Unit)
      <3>1. SlowWindows(r) = rate.slow + 1
        BY <2>1 DEF SlowWindows
      <3>2. (rate.slow + 1) * m = rate.slow * m + m /\ rate.slow * m \in Nat
        BY <1>3, <1>5
      <3>. DEFINE sw == rate.slow * m
      <3>3. 5 * y > m + sw /\ sw \in Nat
        <4>. HIDE DEF x, m
        <4>. QED
          BY <1>2, <1>5, <1>9, <1>10, <2>1, <3>2
      <3>4. rate.slow = 2 => sw = 2 * m
        OBVIOUS
      <3>. HIDE DEF sw, m
      <3>5. rate.slow # 2
        BY <1>5, <3>3, <3>4 DEF m
      <3>. QED
        BY <1>3, <1>5, <3>1, <3>2, <3>3, <3>5 DEF sw
    <2>2. CASE ~TooSlow(rate.count, i, Period * Unit)
      <3>1. SlowWindows(r) = 0
        BY <2>2 DEF SlowWindows
      <3>2. 0 * m = 0
        BY <1>5
      <3>. QED
        BY <3>1, <3>2
    <2>. QED
      BY <2>1, <2>2
  <1>13. ~(SlowWindows(r) >= 3)
    <2>1. SlowWindows(r) \in Int
      BY <1>3 DEF SlowWindows
    <2>. QED
      BY <1>12, <2>1
  <1>. QED
    BY <1>1, <1>11, <1>12, <1>13 DEF RateFault
\* By how much a regular record is late.
LEMMA SteadyLate ==
    ASSUME SteadyInv, regular, NEW d \in Delays, NEW h \in Holds \cup {0},
           h = 0 \/ rate.ready, NEW b, Arrival(Period, d, h, b),
           NEW r \in Int, r = receipt'
    PROVE  LET y == (r - now' * pace) - Least IN
           /\ y \in Nat /\ 5 * y <= 3 * Room
           /\ ~rate.ready => y <= Most - Least
  <1>. DEFINE at1 == now * pace
              at2 == now' * pace
              y == (r - at2) - Least
              m == Room
              o == at2 + d + h
  <1>1. /\ r = Larger(receipt, at2 + d + h) /\ now' = now + Period
    BY DEF Arrival
  <1>2. /\ d \in Nat /\ h \in Nat /\ Least \in Nat /\ Most \in Nat /\ Least <= d /\ d <= Most
        /\ 5 * ((d + h) - Least) <= 3 * m
    BY LateBound DEF SteadyInv, CountInv, Ranges
  <1>3. now \in Nat /\ receipt \in Int /\ Period \in Nat /\ clock.count \in Nat /\ pace \in Paces
    BY SerialImuAssumption DEF SteadyInv, CountInv, Ranges, ClockTyped
  <1>0. m \in Nat
    BY <1>3, RoomIs
  <1>4. at1 \in Nat /\ Period * pace \in Nat /\ at2 = at1 + Period * pace
    BY <1>1, <1>3, PaceTimes
  <1>5. clock.count = 0 => receipt = 0
    BY DEF SteadyInv, InWindow
  <1>6. clock.count > 0 =>
            /\ (receipt - at1) - Least >= 0 /\ 5 * ((receipt - at1) - Least) <= 3 * m
            /\ ~rate.ready => (receipt - at1) - Least <= Most - Least
    <2>1. Late = (receipt - at1) - Least
      BY <1>2, <1>3, <1>4 DEF Late
    <2>. QED
      BY <2>1 DEF SteadyInv, Steady
  <1>. DEFINE pu == Period * pace
  <1>7. at2 = at1 + pu /\ pu \in Nat /\ at2 \in Nat
    BY <1>4
  <1>. HIDE DEF at1, at2, m, pu
  <1>8. r = Larger(receipt, (at2 + d) + h)
    <2>1. at2 + d + h = (at2 + d) + h
      BY <1>2, <1>7
    <2>. QED
      BY <1>1, <2>1
  <1>9. r >= (at2 + d) + h /\ (r = (at2 + d) + h \/ (r = receipt /\ r > (at2 + d) + h))
    BY <1>2, <1>3, <1>7, <1>8 DEF Larger
  <1>10. y \in Nat
    BY <1>2, <1>7, <1>9
  <1>11. CASE r = (at2 + d) + h
    <2>1. y = (d + h) - Least
      BY <1>2, <1>7, <1>11
    <2>. QED
      BY <1>2, <1>10, <2>1 DEF at2, m
  <1>12. CASE r = receipt /\ r > (at2 + d) + h
    <2>1. clock.count > 0
      BY <1>2, <1>3, <1>4, <1>5, <1>7, <1>12
    <2>2. y <= (receipt - at1) - Least
      BY <1>2, <1>3, <1>4, <1>7, <1>12
    <2>. QED
      BY <1>0, <1>2, <1>3, <1>4, <1>6, <1>7, <1>10, <2>1, <2>2 DEF at2, m
  <1>. QED
    BY <1>9, <1>11, <1>12

\* A regular record is taken ...
LEMMA SteadyTaken ==
    ASSUME SteadyInv, regular, NEW d \in Delays, NEW h \in Holds \cup {0},
           h = 0 \/ rate.ready, NEW b, Arrival(Period, d, h, b), Ranges'
    PROVE  Take(Sample(Period), now' * pace + d, b)
  <1>1. CASE clock.count = 0
    BY <1>1, FirstTaken DEF Arrival, SteadyInv, CountInv
  <1>2. CASE clock.count > 0
    <2>1. PICK r \in Int : r = receipt'
      BY DEF Ranges
    <2>. DEFINE y == (r - now' * pace) - Least
    <2>2. /\ y \in Nat /\ 5 * y <= 3 * Room
          /\ ~rate.ready => y <= Most - Least
      BY <2>1, SteadyLate
    <2>. HIDE DEF y
    <2>3. WindowEnds(r) => ~RateFault(Sample(Period), r)
      BY <1>2, <2>2, SteadyWindow DEF y
    <2>4. ~RateFault(Sample(Period), receipt')
      BY <2>1, <2>3 DEF RateFault
    <2>. QED
      BY <1>2, <2>4, SteadySource DEF Arrival, Refuse
  <1>. QED
    BY <1>1, <1>2 DEF SteadyInv, CountInv, ClockTyped

\* ... and leaves the windows steady.
LEMMA SteadyDeliver ==
    ASSUME SteadyInv, CountInv', NEW ticks \in {Period} \cup Stalls, NEW d \in Delays,
           NEW h \in Holds \cup {0}, NEW b, Arrival(ticks, d, h, b)
    PROVE  Steady'
  <1>. SUFFICES ASSUME regular' PROVE Steady'
    BY DEF Steady
  <1>1. regular /\ ticks = Period /\ (h = 0 \/ rate.ready) /\ mcu'.on = mcu.on
        /\ mcu'.boot = mcu.boot /\ samples' = samples + 1 /\ pace' = pace
    BY DEF Arrival
  <1>2. Arrival(Period, d, h, b)
    BY <1>1
  <1>. DEFINE s == Sample(Period)
  <1>3. Take(s, now' * pace + d, b)
    BY <1>1, <1>2, SteadyTaken DEF CountInv
  <1>4. /\ last'.at = now' /\ last'.index = samples' /\ node' = "running"
        /\ clock'.last_us = s.micros /\ rate' = Rated(s, receipt')
        /\ clock'.count = clock.count + 1
    BY <1>2, <1>3, TakeCounts DEF SteadyInv, CountInv, Take
  <1>5. mcu.on /\ mcu.boot = 0 /\ clock.count \in Nat /\ clock'.count > 0 /\ now' \in Nat
        /\ s.micros \in Words /\ pace \in Paces
    BY <1>1, <1>2, <1>4, AcquireWords DEF SteadyInv, CountInv, Steady, ClockTyped, Ranges, Arrival
  <1>6. PICK r \in Int : r = receipt'
    BY DEF CountInv, Ranges
  <1>7. PICK y \in Nat : /\ y = (r - now' * pace) - Least /\ 5 * y <= 3 * Room
                         /\ ~rate.ready => y <= Most - Least
    BY <1>1, <1>2, <1>6, SteadyLate
  <1>8. Late' = y
    <2>1. now' * pace \in Nat /\ Least \in Int
      BY <1>5, PaceTimes, RoomIs
    <2>. QED
      BY <1>1, <1>6, <1>7, <2>1 DEF Late
  <1>9. /\ InSource' = (rate'.count - 1) * Period
        /\ LateFirst' >= 0 /\ 5 * LateFirst' >= rate'.slow * Room
        /\ ~rate'.ready => ~rate.ready /\ LateFirst' <= Most - Least
    <2>. HIDE DEF s
    <2>1. CASE clock.count = 0 \/ WindowEnds(receipt')
      <3>1. /\ rate'.start = r /\ rate'.device = s.micros /\ rate'.count = 1
            /\ \/ clock.count = 0 /\ rate'.slow = 0 /\ rate'.ready = rate.ready
               \/ clock.count > 0 /\ WindowEnds(r) /\ rate'.ready = TRUE
                  /\ rate'.slow = SlowWindows(r)
        <4>1. CASE clock.count = 0
          <5>1. rate.start = None /\ rate.slow = 0
            BY <1>1, <4>1 DEF SteadyInv, CountInv, Fresh, Steady
          <5>. QED
            BY <1>4, <1>6, <4>1, <5>1 DEF Rated
        <4>2. CASE clock.count > 0
          <5>1. rate.start # None
            BY <4>2, SerialImuAssumption DEF SteadyInv, CountInv, Taken
          <5>2. WindowEnds(receipt')
            BY <2>1, <4>2
          <5>3. rate' = [start |-> receipt', device |-> s.micros, count |-> 1, ready |-> TRUE,
                         slow |-> SlowWindows(receipt')]
            BY <1>4, <5>1, <5>2 DEF Rated
          <5>4. WindowEnds(r) /\ rate'.slow = SlowWindows(r)
            BY <1>6, <5>2, <5>3, Zenon
          <5>. QED
            BY <1>6, <4>2, <5>3, <5>4
        <4>3. clock.count = 0 \/ clock.count > 0
          BY <1>5
        <4>. QED
          BY <4>1, <4>2, <4>3, Zenon
      <3>2. InSource' = (rate'.count - 1) * Period /\ Began' = last'.at
        BY <1>4, <1>5, <3>1, SteadyBegins
      <3>3. LateFirst' = y
        <4>1. now' * pace \in Nat /\ Least \in Int
          BY <1>5, PaceTimes, RoomIs
        <4>2. Began' = now'
          BY <1>4, <3>2
        <4>3. (rate'.start - Began' * pace) - Least = (r - now' * pace) - Least
          BY <3>1, <4>2
        <4>4. LateFirst' = (rate'.start - Began' * pace) - Least
          BY <1>1, <3>1, <4>1, <4>2 DEF LateFirst
        <4>. QED
          BY <1>7, <4>3, <4>4
      <3>4. 5 * y >= rate'.slow * Room
        <4>1. CASE rate'.slow = 0
          <5>1. 0 * Room = 0
            BY <1>5, RoomIs
          <5>. QED
            BY <4>1, <5>1
        <4>2. CASE clock.count > 0 /\ WindowEnds(r) /\ rate'.slow = SlowWindows(r)
          BY <1>1, <1>2, <1>7, <4>2, SteadyWindow
        <4>. QED
          BY <3>1, <4>1, <4>2
      <3>. QED
        BY <1>7, <3>1, <3>2, <3>3, <3>4
    <2>2. CASE clock.count > 0 /\ ~WindowEnds(receipt')
      <3>1. /\ rate.start # None /\ rate.count \in Nat /\ last.at \in Nat
        BY <2>2, SerialImuAssumption DEF SteadyInv, CountInv, Taken, Ranges
      <3>2. /\ rate'.start = rate.start /\ rate'.device = rate.device
            /\ rate'.count = rate.count + 1 /\ rate'.slow = rate.slow /\ rate'.ready = rate.ready
        BY <1>4, <2>2, <3>1 DEF Rated
      <3>3. /\ InSource = (rate.count - 1) * Period
            /\ LateFirst >= 0 /\ 5 * LateFirst >= rate.slow * Room
            /\ ~rate.ready => LateFirst <= Most - Least
        BY <1>1, <2>2 DEF SteadyInv, Steady
      <3>4. Minus(s.micros, rate.device) = rate.count * Period /\ now' = last.at + Period
        BY <1>1, <1>2, <2>2, SteadySource DEF s
      <3>5. InSource' = rate.count * Period
        BY <1>4, <3>2, <3>4 DEF InSource
      <3>6. rate.count * Period = InSource + Period /\ InSource \in Int /\ Period \in Nat
        BY <3>1, <3>3, SerialImuAssumption
      <3>7. Began' = Began
        BY <1>4, <3>1, <3>4, <3>5, <3>6 DEF Began
      <3>8. LateFirst' = LateFirst
        BY <1>1, <3>2, <3>7 DEF LateFirst
      <3>9. rate'.count - 1 = rate.count
        BY <3>1, <3>2
      <3>. QED
        BY <3>2, <3>3, <3>5, <3>8, <3>9
    <2>. QED
      BY <1>5, <2>1, <2>2
  <1>10. ~rate'.ready => Late' <= Most - Least
    BY <1>7, <1>8, <1>9
  <1>11. Room' = Room
    BY <1>1 DEF Room
  <1>. QED
    BY <1>1, <1>4, <1>5, <1>7, <1>8, <1>9, <1>10, <1>11 DEF Steady

\* Every step keeps a regular source and line steady, or is not regular.
LEMMA StepSteady == SteadyInv /\ CountInv' /\ [Next]_vars => Steady'
  <1>. SUFFICES ASSUME SteadyInv, CountInv', [Next]_vars PROVE Steady'
    OBVIOUS
  <1>1. CASE ~regular'
    BY <1>1 DEF Steady
  <1>2. ASSUME NEW ticks \in {Period} \cup Stalls, NEW d \in Delays,
               NEW h \in Holds \cup {0}, NEW b \in BOOLEAN, Deliver(ticks, d, h, b)
        PROVE  Steady'
    BY <1>2, Delivered, SteadyDeliver DEF SteadyInv, CountInv
  <1>3. ASSUME NEW ticks \in {Period} \cup Stalls, Lose(ticks) PROVE ~regular'
    BY <1>3 DEF Lose
  <1>4. Reboot \/ Halt \/ StartupTimeout => ~regular'
    BY DEF Reboot, Halt, StartupTimeout
  <1>5. Notice => ~regular'
    BY DEF Notice, SteadyInv, Steady
  <1>6. CASE UNCHANGED vars
    BY <1>6 DEF vars, SteadyInv, Steady, InSource, Late, LateFirst, Began, Room
  <1>. QED
    BY <1>1, <1>2, <1>3, <1>4, <1>5, <1>6 DEF Next

\* A sensor that keeps its rate is not stopped by the rate checks, for any jitter
\* of up to a fifth of a window; nor, once the rate is verified, when a busy host
\* holds its records back by up to three fifths (Hw290Imu::receive).
THEOREM HealthyRunsOn == Spec => []HealthyRuns
  <1>1. Init => Steady
    <2>. SUFFICES ASSUME Init PROVE Steady
      OBVIOUS
    <2>1. PICK boot \in Boots :
            mcu = [micros |-> boot.micros, sequence |-> boot.sequence, on |-> TRUE, boot |-> 0]
      BY DEF Init
    <2>2. mcu.on /\ mcu.boot = 0
      BY <2>1
    <2>3. clock.count = 0 /\ rate.slow = 0 /\ node = "running"
      BY DEF Init
    <2>. QED
      BY <2>2, <2>3 DEF Steady
  <1>2. Init => InWindow
    BY DEF Init, InWindow
  <1>3. Steady => HealthyRuns
    BY DEF Steady, HealthyRuns
  <1>. QED
    BY InitCounts, StepCounts, StepWindow, StepSteady, <1>1, <1>2, <1>3, PTL
       DEF Spec, SteadyInv
==============================================================================
