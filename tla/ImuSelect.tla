----------------------------- MODULE ImuSelect -----------------------------
(***************************************************************************)
(* Propagator::select_imu_readings (ov_msckf, Propagator.cpp): the         *)
(* inertial readings between two instants, with readings interpolated at   *)
(* the instants.  Propagation, the prediction at inertial rate and the     *)
(* zero-velocity updater integrate what it returns.                        *)
(*                                                                         *)
(* An action is a turn of one of its loops or what is between them.  A     *)
(* buffer of readings is the sequence of their times, in order; times may  *)
(* repeat.  A selected reading is its time and the two readings it was     *)
(* interpolated from, one reading twice when it was copied.                *)
(***************************************************************************)
EXTENDS Integers, Sequences

CONSTANTS
    MaxStamp,     \* bound: times are 0..MaxStamp
    MaxReadings   \* bound on the buffer

ASSUME SelectAssumption == MaxStamp \in Nat /\ MaxReadings \in Nat

Stamps == 0..MaxStamp

VARIABLES
    imu_data, time0, time1,   \* the arguments
    pc,                       \* loop, selected, zerodt, done
    i,                        \* index of the current loop
    prop_data                 \* what is selected

args == <<imu_data, time0, time1>>
selectVars == <<args, pc, i, prop_data>>

Ascending(s) == \A j \in 1..(Len(s) - 1) : s[j] <= s[j + 1]

SelectInit ==
    /\ \E n \in 0..MaxReadings : imu_data \in [1..n -> Stamps]
    /\ Ascending(imu_data)
    /\ time0 \in Stamps /\ time1 \in Stamps
    /\ pc = "loop" /\ i = 1 /\ prop_data = <<>>

Reading(j) == [t |-> imu_data[j], from |-> j, to |-> j]

\* interpolate_data, also used to extrapolate.
Interpolated(j, k, t) == [t |-> t, from |-> j, to |-> k]

LastTime == prop_data[Len(prop_data)].t

------------------------------------------------------------------------------
(* The loop over pairs of readings *)

StartsPeriod(j) == imu_data[j + 1] > time0 /\ imu_data[j] < time0

\* Mutant of InPeriod: a reading that is the last before the end is left out.
InPeriodStrictly(j) == imu_data[j] >= time0 /\ imu_data[j + 1] < time1

InPeriod(j) == imu_data[j] >= time0 /\ imu_data[j + 1] <= time1

EndsPeriod(j) == imu_data[j + 1] > time1

InLoop == pc = "loop" /\ i < Len(imu_data)

Start ==
    /\ InLoop /\ StartsPeriod(i)
    /\ prop_data' = Append(prop_data, Interpolated(i, i + 1, time0))
    /\ i' = i + 1
    /\ UNCHANGED <<args, pc>>

Middle ==
    /\ InLoop /\ ~StartsPeriod(i) /\ InPeriod(i)
    /\ prop_data' = Append(prop_data, Reading(i))
    /\ i' = i + 1
    /\ UNCHANGED <<args, pc>>

\* What ends the period: nothing when all readings are after it, a reading cut
\* at the end when there is none in between, else a reading and one at the end.
Closing(j) ==
    IF imu_data[j] > time1
    THEN IF j = 1 THEN <<>> ELSE <<Interpolated(j - 1, j, time1)>>
    ELSE IF imu_data[j] = time1 THEN <<Reading(j)>>
    ELSE <<Reading(j), Interpolated(j, j + 1, time1)>>

End ==
    /\ InLoop /\ ~StartsPeriod(i) /\ ~InPeriod(i) /\ EndsPeriod(i)
    /\ prop_data' = prop_data \o Closing(i)
    /\ pc' = "selected"
    /\ UNCHANGED <<args, i>>

\* A reading before the period.
Pass ==
    /\ InLoop /\ ~StartsPeriod(i) /\ ~InPeriod(i) /\ ~EndsPeriod(i)
    /\ i' = i + 1
    /\ UNCHANGED <<args, pc, prop_data>>

\* An empty buffer returns at once, with the same result.
LoopEnds ==
    /\ pc = "loop" /\ i >= Len(imu_data)
    /\ pc' = "selected"
    /\ UNCHANGED <<args, i, prop_data>>

------------------------------------------------------------------------------
(* After the loop *)

ReturnNothing ==
    /\ pc = "selected" /\ prop_data = <<>> /\ pc' = "done"
    /\ UNCHANGED <<args, i, prop_data>>

\* The two newest readings are carried on to the end of the period.
Stretched ==
    Append(prop_data, Interpolated(Len(imu_data) - 1, Len(imu_data), time1))

Stretch ==
    /\ pc = "selected" /\ prop_data # <<>>
    /\ prop_data' = IF LastTime # time1 THEN Stretched ELSE prop_data
    /\ pc' = "zerodt" /\ i' = 1
    /\ UNCHANGED args

Without(s, j) == [k \in 1..(Len(s) - 1) |-> IF k < j THEN s[k] ELSE s[k + 1]]

\* Mutant of Dropped: the index moves on behind a removed reading.
DroppedSkips == prop_data' = Without(prop_data, i) /\ i' = i + 1

Dropped == prop_data' = Without(prop_data, i) /\ i' = i

\* Of two readings at one time the first is dropped.
DropZeroDt ==
    /\ pc = "zerodt" /\ i < Len(prop_data) /\ prop_data[i + 1].t = prop_data[i].t
    /\ Dropped
    /\ UNCHANGED <<args, pc>>

KeepDt ==
    /\ pc = "zerodt" /\ i < Len(prop_data) /\ prop_data[i + 1].t # prop_data[i].t
    /\ i' = i + 1
    /\ UNCHANGED <<args, pc, prop_data>>

Return ==
    /\ pc = "zerodt" /\ i >= Len(prop_data) /\ pc' = "done"
    /\ UNCHANGED <<args, i, prop_data>>

------------------------------------------------------------------------------

SelectNext == \/ Start \/ Middle \/ End \/ Pass \/ LoopEnds
        \/ ReturnNothing \/ Stretch \/ DropZeroDt \/ KeepDt \/ Return

SelectSpec == SelectInit /\ [][SelectNext]_selectVars

------------------------------------------------------------------------------
(* Properties *)

Selection == [t : Stamps, from : 1..MaxReadings, to : 1..MaxReadings]

SelectTypeOK ==
    /\ imu_data \in Seq(Stamps) /\ Len(imu_data) <= MaxReadings
    /\ time0 \in Stamps /\ time1 \in Stamps
    /\ pc \in {"loop", "selected", "zerodt", "done"}
    /\ i \in Nat \ {0}
    /\ prop_data \in Seq(Selection)

ReadingTimes  == {imu_data[j] : j \in 1..Len(imu_data)}
SelectedTimes == {prop_data[j].t : j \in 1..Len(prop_data)}

\* The buffer reaches back to the start of the period.
Begins == time0 < time1 /\ imu_data # <<>> /\ imu_data[1] <= time0

\* The stretch at the end reads two readings that exist; what it makes of them is
\* a number unless the two newest readings carry one time (Propagator.cpp:362).
Defined ==
    \A j \in 1..Len(prop_data) :
        LET p == prop_data[j]
        IN  /\ {p.from, p.to} \subseteq 1..Len(imu_data)
            /\ p.from # p.to /\ imu_data[p.from] = imu_data[p.to] =>
                   p.to = Len(imu_data)

\* When the buffer reaches back far enough, whatever else it holds, the steps
\* of what is returned add up to the whole period and none of them is empty: an
\* empty one makes the noise infinite (Propagator.cpp:369; propagate_and_clone
\* asserts the sum at :101).
WholePeriod ==
    pc = "done" /\ Begins /\ prop_data # <<>> =>
        /\ prop_data[1].t = time0 /\ LastTime = time1
        /\ \A j \in 1..(Len(prop_data) - 1) : prop_data[j].t < prop_data[j + 1].t

\* When it reaches to the end as well, no reading within the period is left out,
\* each stands for itself and the cuts lie between neighbouring readings; no
\* interpolation divides by zero (interpolate_data).  Always, Defined.
Exact ==
    /\ Defined
    /\ pc = "done" /\ Begins /\ time1 \in 0..imu_data[Len(imu_data)] =>
           /\ SelectedTimes = {time0, time1}
                                \cup {t \in ReadingTimes : time0 <= t /\ t <= time1}
           /\ \A j \in 1..Len(prop_data) :
                 LET p == prop_data[j]
                 IN  IF p.from = p.to THEN p.t = imu_data[p.from]
                     ELSE /\ p.to = p.from + 1
                          /\ imu_data[p.from] < imu_data[p.to]
                          /\ imu_data[p.from] <= p.t /\ p.t <= imu_data[p.to]
=============================================================================
