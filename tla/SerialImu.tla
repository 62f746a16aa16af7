----------------------------- MODULE SerialImu -----------------------------
(***************************************************************************)
(* The HW290 inertial sensor: firmware that numbers and stamps samples     *)
(* (hw290_openvins.ino), a serial line that may lose, corrupt and delay    *)
(* records, and the node that checks them, turns device time into host     *)
(* time (DeviceClock) and publishes (hw290_imu.cpp).                       *)
(*                                                                         *)
(* A record is handled when it is received, so one action takes a sample   *)
(* from its acquisition to the end of receive.  Time is counted in ticks   *)
(* of the device, which last `pace` in stamps of the host: Unit but for    *)
(* the error of the device's oscillator.  A record is `observed` after one *)
(* of Delays and received after one of Holds more, for the bytes behind    *)
(* it: receive subtracts their time.                                       *)
(***************************************************************************)
EXTENDS Integers

CONSTANTS
    Word,       \* the counters wrap here: 2^32
    Boots,      \* micros and sequence when the node starts to listen
    Period,     \* ticks between samples at the nominal rate: 10 ms
    Stalls,     \* longer ticks between samples, when the firmware is held up
    Unit,       \* stamp units per nominal tick: 1000 ns per us
    Paces,      \* stamp units per tick of a device: 1000 by its oscillator's error
    Limit,      \* correction per tick: 10 ns per us
    Gain,       \* 1/0.02
    Block,      \* samples of the warm-up, and of one minimum: 100
    Delays,     \* from the acquisition to the observation of a record
    Holds,      \* from the observation to the receipt, when the host is busy
    MaxGap,     \* 50000 us
    ResetGap,   \* 2000000 us
    Window,     \* nominal ticks of a rate window: one second
    Startup,    \* nominal ticks in which a sample must be published: twelve seconds
    MaxFaults,  \* bound: stalls, losses, holds, saturated records and reboots
    MaxSamples, \* bound: samples that are acquired in a run
    None

ASSUME SerialImuAssumption ==
    /\ Word \in Nat \ {0, 1} /\ Period \in Nat \ {0} /\ Stalls \subseteq Nat
    /\ Boots \subseteq [micros : 0..(Word - 1), sequence : 0..(Word - 1)]
    /\ Unit \in Nat \ {0} /\ Limit \in 0..(Unit - 1) /\ Gain \in Nat \ {0}
    /\ Block \in Nat \ {0} /\ Delays \subseteq Nat /\ Holds \subseteq Nat
    /\ MaxGap \in Nat /\ ResetGap \in Nat /\ Window \in Nat /\ Startup \in Nat
    /\ MaxFaults \in Nat /\ MaxSamples \in Nat /\ None \notin Int

\* The device's clock is off by no more than the node's may be corrected: 1 %.
ASSUME PacesAssumption ==
    \A p \in Paces : p \in Nat /\ p - Unit \in (-Limit)..Limit

\* How the limits of firmware and node relate: 10 ms, 50 ms, 2 s and 71 minutes;
\* a block moves the clock by at most twice its minimum.
ASSUME LimitsAssumption ==
    /\ \A t \in Stalls : Period <= t
    /\ Period <= MaxGap /\ MaxGap < ResetGap /\ 5 * Period <= 3 * ResetGap
    /\ 2 * ResetGap <= Word /\ Word >= 4 /\ Window > 0
    /\ Block <= 2 * Gain

\* What the delays may be: bounded, their jitter a fifth of a rate window, three
\* fifths with what a busy host adds, less what the device's pace takes from the
\* limits of the rate; and a gap of ResetGap fills a window.
ASSUME DelaysAssumption ==
    /\ \E least, most \in Delays : \A d \in Delays : least <= d /\ d <= most
    /\ \A d, e \in Delays, p \in Paces :
          /\ 5 * (d - e) <= Window * (5 * Unit - 4 * p)
          /\ 5 * (d - e) <= Window * (6 * p - 5 * Unit)
    /\ \A d, e \in Delays, h \in Holds, p \in Paces :
          5 * (d + h - e) <= 3 * (Window * (5 * Unit - 4 * p))
    /\ \A d \in Delays, h \in Holds \cup {0}, p \in Paces :
          d + h <= ResetGap * p - Window * Unit

\* The faults of a run do not hide a whole turn of the counters.
ASSUME FaultsAssumption ==
    \E longest \in Stalls \cup {Period} :
        /\ \A t \in Stalls : t <= longest
        /\ Period + MaxFaults * longest < Word

VARIABLES
    now,        \* ticks since the start
    pace,       \* stamp units per tick of this device
    samples,    \* samples acquired since the start
    faults,     \* irregular events since the start
    mcu,        \* the firmware: micros and sequence of its next sample, running?
    node,       \* "running", or why it has ended
    receipt,    \* when the last record was received
    clock,      \* clock_
    previous,   \* previous_device_us_
    rate,       \* rate_start_, rate_device_start_, rate_count_ and so on
    published,  \* published_ is positive
    first,      \* index of the first sample the clock took (history)
    last,       \* the last one (history)
    regular     \* the source and the start of the delivery were regular (history)

vars == <<now, pace, samples, faults, mcu, node, receipt, clock, previous, rate,
          published, first, last, regular>>

Smaller(a, b) == IF a < b THEN a ELSE b
Larger(a, b) == IF a > b THEN a ELSE b
Abs(n) == IF n < 0 THEN -n ELSE n

\* The difference of two counters, in unsigned arithmetic.
Minus(a, b) == (a - b) % Word

\* The firmware may have been running for any time, or be near a wrap.
Init ==
    /\ now = 0 /\ pace \in Paces /\ samples = 0 /\ faults = 0 /\ node = "running" /\ receipt = 0
    /\ \E b \in Boots :
          mcu = [micros |-> b.micros, sequence |-> b.sequence, on |-> TRUE, boot |-> 0]
    /\ clock = [last_us |-> None, sequence |-> None, elapsed |-> 0, count |-> 0,
                anchor |-> None, stamp |-> 0, minimum |-> None, dropped |-> 0]
    /\ previous = None
    /\ rate = [start |-> None, device |-> 0, count |-> 0, ready |-> FALSE, slow |-> 0]
    /\ published = FALSE /\ first = None /\ last = None /\ regular = TRUE

------------------------------------------------------------------------------
(* DeviceClock::update *)

\* Mutant of InOrder: only a duplicate is refused.
InOrderOrBack(s) == clock.last_us = None \/ s.sequence # clock.sequence

\* Neither a duplicate nor a step back.
InOrder(s) ==
    clock.last_us = None
    \/ Minus(s.sequence, clock.sequence) \in 1..(Word \div 2 - 1)

\* The device's time has moved on, by no more than the longest gap.
Elapsing(s) ==
    clock.last_us = None \/ Minus(s.micros, clock.last_us) \in 1..ResetGap

\* The smallest error of the current block.
Lowest(error) == IF clock.minimum = None THEN error ELSE Smaller(error, clock.minimum)

\* Mutant of Kept: a block's minimum steers the following blocks as well.
KeptOn(minimum, count) == IF count <= Block THEN None ELSE minimum

\* It is kept for the rest of the block.
Kept(minimum, count) == IF count <= Block \/ count % Block = 0 THEN None ELSE minimum

\* Mutant of Correction: the whole minimum at once.
CorrectionWhole(minimum, delta) == minimum

\* A share of it, rounded towards zero and limited.
Correction(minimum, delta) ==
    LET share == Smaller(Abs(minimum) \div Gain, Limit * delta)
    IN IF minimum < 0 THEN -share ELSE share

\* Mutant of Dropped: counts from the last number itself.
DroppedAll(s) == clock.dropped + Minus(s.sequence, clock.sequence)

Dropped(s) == clock.dropped + Minus(s.sequence, clock.sequence) - 1

\* The clock after a sample; during the warm-up the smallest delay is kept.
Updated(s, observed) ==
    LET delta   == IF clock.last_us = None THEN 0 ELSE Minus(s.micros, clock.last_us)
        elapsed == clock.elapsed + delta * Unit
        anchor  == IF clock.anchor = None THEN observed - elapsed
                   ELSE Smaller(clock.anchor, observed - elapsed)
        predicted == clock.stamp + delta * Unit
        minimum == Lowest(observed - predicted)
        count   == clock.count + 1
    IN [last_us |-> s.micros, sequence |-> s.sequence, elapsed |-> elapsed,
        count |-> count,
        anchor |-> IF count <= Block THEN anchor ELSE clock.anchor,
        stamp |-> IF count <= Block THEN anchor + elapsed
                  ELSE predicted + Correction(minimum, delta),
        minimum |-> Kept(minimum, count),
        dropped |-> IF clock.last_us = None THEN 0 ELSE Dropped(s)]

------------------------------------------------------------------------------
(* Hw290Imu::receive *)

\* More than 50 ms of device time without a valid record, yet less than 2 s.
GapSeen(s) ==
    previous # None /\ Minus(s.micros, previous) \in (MaxGap + 1)..(ResetGap - 1)

\* n samples in an interval: below 80 or above 120 of 100.
TooSlow(n, interval, nominal) == 5 * n * nominal < 4 * interval
TooFast(n, interval, nominal) == 5 * n * nominal > 6 * interval
RateBad(n, interval, nominal) ==
    interval = 0 \/ TooSlow(n, interval, nominal) \/ TooFast(n, interval, nominal)

WindowEnds(at) == rate.start # None /\ at - rate.start >= Window * Unit

SourceBad(s) == RateBad(rate.count, Minus(s.micros, rate.device), Period)
HostBad(at) == RateBad(rate.count, at - rate.start, Period * Unit)

\* Windows of slow delivery in a row.
SlowWindows(at) ==
    IF TooSlow(rate.count, at - rate.start, Period * Unit) THEN rate.slow + 1 ELSE 0

\* Mutant of RateFault: a burst after a stall counts against the source.
RateFaultHost(s, at) ==
    WindowEnds(at) /\ (SourceBad(s) \/ HostBad(at) \/ SlowWindows(at) >= 3)

\* The rate checks end the node.
RateFault(s, at) ==
    WindowEnds(at) /\
        \/ SourceBad(s)
        \/ ~rate.ready /\ HostBad(at)
        \/ SlowWindows(at) >= 3

\* The counters after a record that passed them.
Rated(s, at) ==
    IF rate.start = None
    THEN [rate EXCEPT !.start = at, !.device = s.micros, !.count = 1]
    ELSE IF WindowEnds(at)
    THEN [start |-> at, device |-> s.micros, count |-> 1, ready |-> TRUE,
          slow |-> SlowWindows(at)]
    ELSE [rate EXCEPT !.count = @ + 1]

\* One valid record: the checks in their order, then the clock, then publishing
\* unless the clock warms up or the sample is saturated.
Receive(s, observed, saturated) ==
    /\ previous' = IF GapSeen(s) THEN previous ELSE s.micros
    /\ IF GapSeen(s)
       THEN node' = "gap" /\ UNCHANGED <<clock, rate, published, first, last>>
       ELSE IF RateFault(s, receipt')
       THEN node' = "rate" /\ UNCHANGED <<clock, rate, published, first, last>>
       ELSE IF ~InOrder(s) \/ ~Elapsing(s)
       THEN /\ node' = "reset" /\ rate' = Rated(s, receipt')
            /\ UNCHANGED <<clock, published, first, last>>
       ELSE /\ rate' = Rated(s, receipt') /\ clock' = Updated(s, observed)
            /\ published' = (published \/ (clock'.count > Block /\ ~saturated))
            /\ last' = [boot |-> mcu.boot, index |-> samples', at |-> now']
            /\ first' = IF first = None THEN samples' ELSE first
            /\ UNCHANGED node

------------------------------------------------------------------------------
(* The firmware, the line and the node together *)

\* loop: the sample is numbered and stamped before it is read over I2C.
Acquire(ticks) ==
    /\ node = "running" /\ mcu.on /\ samples < MaxSamples
    /\ now' = now + ticks /\ samples' = samples + 1 /\ UNCHANGED pace
    /\ mcu' = [mcu EXCEPT !.micros = (@ + ticks) % Word, !.sequence = (@ + 1) % Word]

Sample(ticks) ==
    [micros |-> (mcu.micros + ticks) % Word, sequence |-> mcu.sequence]

\* Only MaxFaults of the events of a run are irregular.
Faulty(irregular) ==
    /\ faults' = IF irregular THEN faults + 1 ELSE faults
    /\ faults' <= MaxFaults

\* The record arrives, after those before it.
Deliver(ticks, delay, hold, saturated) ==
    /\ Acquire(ticks)
    /\ Faulty(ticks # Period \/ hold # 0 \/ saturated)
    /\ regular' = (regular /\ ticks = Period /\ (hold = 0 \/ rate.ready))
    /\ receipt' = Larger(receipt, now' * pace + delay + hold)
    /\ Receive(Sample(ticks), now' * pace + delay, saturated)

\* It is not read, not sent, or not accepted by parse_sample.
Lose(ticks) ==
    /\ Acquire(ticks)
    /\ Faulty(TRUE) /\ regular' = FALSE
    /\ UNCHANGED <<node, receipt, clock, previous, rate, published, first, last>>

\* A reset: numbers and micros start again, within 2^31 samples of the first and
\* after those that the faults to come could hide.
Reboot ==
    /\ node = "running" /\ mcu.on /\ mcu.boot = 0 /\ last # None
    /\ clock.sequence \in MaxFaults..(Word \div 2)
    /\ \E ticks \in Stalls :
          /\ mcu' = [micros |-> 0, sequence |-> 0, on |-> TRUE, boot |-> 1]
          /\ now' = now + ticks
    /\ Faulty(TRUE) /\ regular' = FALSE
    /\ UNCHANGED <<pace, samples, node, receipt, clock, previous, rate, published, first,
                   last>>

\* haltSensor, a disconnection, or silence.
Halt ==
    /\ node = "running" /\ mcu.on
    /\ mcu' = [mcu EXCEPT !.on = FALSE]
    /\ Faulty(TRUE) /\ regular' = FALSE
    /\ UNCHANGED <<now, pace, samples, node, receipt, clock, previous, rate, published,
                   first, last>>

\* The node reads ERROR IMU or an error of the port, or has waited for three
\* seconds after a valid record, or for twelve for the first published one.
Notice ==
    /\ node = "running" /\ ~mcu.on
    /\ node' \in {"firmware", IF last # None THEN "silence" ELSE "startup"}
    /\ UNCHANGED <<now, pace, samples, faults, mcu, receipt, clock, previous, rate,
                   published, first, last, regular>>

\* Nothing is published in time: the sensor is late, or all is saturated.
StartupTimeout ==
    /\ node = "running" /\ ~published /\ now * pace > Startup * Unit
    /\ node' = "startup" /\ regular' = FALSE
    /\ UNCHANGED <<now, pace, samples, faults, mcu, receipt, clock, previous, rate,
                   published, first, last>>

Next ==
    \/ \E ticks \in {Period} \cup Stalls :
          \/ Lose(ticks)
          \/ \E d \in Delays, h \in Holds \cup {0}, b \in BOOLEAN : Deliver(ticks, d, h, b)
    \/ Reboot \/ Halt \/ Notice \/ StartupTimeout

Spec == Init /\ [][Next]_vars
------------------------------------------------------------------------------
(* Properties *)

TypeOK ==
    /\ now \in Nat /\ samples \in 0..MaxSamples /\ faults \in 0..MaxFaults
    /\ mcu.micros \in 0..(Word - 1) /\ mcu.sequence \in 0..(Word - 1)
    /\ node \in {"running", "gap", "rate", "reset", "firmware", "silence", "startup"}
    /\ clock.count \in 0..MaxSamples /\ clock.dropped \in 0..MaxFaults
    /\ rate.slow \in 0..2 /\ published \in BOOLEAN

\* After the warm-up a stamp is later than the last one, so those that are
\* published are in order, though the correction may go back, the sample may
\* follow lost or saturated ones, and micros may wrap.
StampsIncrease ==
    [][clock' # clock /\ clock.count >= Block => clock'.stamp > clock.stamp]_vars

\* The jitter of the line and the error of the device's pace bound the error of the
\* stamps on both sides, although the clock follows the pace only by what it has
\* seen in a block, and one early record steers a whole block of corrections: the
\* clock does not drift off, however long the device runs fast or slow.
ClockTracks ==
    clock.count >= Block =>
        LET error == clock.stamp - last.at * pace
            slowest == CHOOSE d \in Delays : \A e \in Delays : e <= d
            fastest == CHOOSE d \in Delays : \A e \in Delays : d <= e
            skew == Abs(pace - Unit) * MaxGap
        IN error \in (2 * fastest - slowest - (Gain + Block) * skew)
                       ..(slowest + Gain * skew)

\* The clock's count of dropped samples is exact, over wraps of the number.
DroppedExact ==
    /\ TypeOK
    /\ last # None /\ last.boot = 0 =>
           clock.dropped = last.index - first + 1 - clock.count

\* No break is stamped over.  A gap is seen if it is too long for the estimator,
\* longer than the clock allows, or equal to the limit between these two checks,
\* which only the rate check sees; and one clock never takes samples of two boots.
BreaksAreSeen ==
    [][last # None /\ last' # last =>
          last'.at - last.at <= MaxGap /\ last'.boot = last.boot]_vars

\* A sensor that keeps its rate is not stopped for the delays of its records,
\* nor, once the rate is verified, for those that a busy host holds back and
\* then reads in a burst.
HealthyRuns == regular => node = "running"
==============================================================================
