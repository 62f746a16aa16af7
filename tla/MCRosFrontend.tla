---------------------------- MODULE MCRosFrontend ----------------------------
(* Small instances of RosFrontend for TLC. *)
EXTENDS RosFrontend

MovingDt == {-1, 0, 1}  \* the time offset is calibrated online
==============================================================================
