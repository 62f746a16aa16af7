---------------------------- MODULE FrameDelivery ----------------------------
(***************************************************************************)
(* What the ROS front end of OpenVINS promises the estimator about camera  *)
(* measurements, without its threads, locks and queue: every accepted      *)
(* measurement is handed over at most once, the earliest waiting one       *)
(* first.  RosFrontend.tla is shown to implement this specification.       *)
(***************************************************************************)
EXTENDS Integers, Sequences

CONSTANT Frames            \* the camera measurements, [ts, cam]

VARIABLES
    pending,               \* accepted, not yet handed to the estimator
    delivered              \* the order in which they were handed over

deliveryVars == <<pending, delivered>>

(***************************************************************************)
(* CameraData::operator< : by time, then by the smallest sensor id.        *)
(***************************************************************************)
Before(f, g) == \/ f.ts < g.ts
                \/ f.ts = g.ts /\ f.cam < g.cam

Init == /\ pending = {}
        /\ delivered = <<>>

\* A measurement is accepted only when it is newer than everything its own
\* camera has waiting or has already delivered.
Accept(f) ==
    /\ \A g \in pending : g.cam = f.cam => g.ts < f.ts
    /\ \A i \in 1..Len(delivered) : delivered[i].cam = f.cam => delivered[i].ts < f.ts
    /\ pending' = pending \cup {f}
    /\ UNCHANGED delivered

Deliver(f) ==
    /\ f \in pending
    /\ \A g \in pending \ {f} : Before(f, g)
    /\ pending' = pending \ {f}
    /\ delivered' = Append(delivered, f)

Next == \E f \in Frames : Accept(f) \/ Deliver(f)

Spec == Init /\ [][Next]_deliveryVars
==============================================================================
