--------------------------- MODULE InertialBatches ---------------------------
(***************************************************************************)
(* What the ORB-SLAM3 stereo-inertial node promises the SLAM core, without *)
(* its queues, locks and callbacks.  Frames are handed over in time order, *)
(* each with a batch of inertial readings; a reading is handed over at     *)
(* most once and in order; a batch spans its frame: one reading more than  *)
(* Margin before it, exactly one (the closing one) at or after it.         *)
(* OrbFeed.tla is shown to implement this specification.                   *)
(***************************************************************************)
EXTENDS Integers

CONSTANT Margin            \* 1 ms: mImuPer of the core

VARIABLES
    frame,                 \* time of the last frame, -1 if there is none
    sent,                  \* time of the last reading, -1 if there is none
    batch                  \* the readings handed over last

batchVars == <<frame, sent, batch>>

Init == frame = -1 /\ sent = -1 /\ batch = {}

HandOver ==
    /\ frame < frame'
    /\ \A s \in batch' : sent < s
    /\ \E s \in batch' : s < frame' - Margin
    /\ sent' \in batch' /\ frame' <= sent'
    /\ \A s \in batch' \ {sent'} : s < frame'

\* The reset service forgets all that was handed over.
Reset == frame' = -1 /\ sent' = -1 /\ batch' = {}

Next == Reset \/ HandOver

Spec == Init /\ [][Next]_batchVars
==============================================================================
