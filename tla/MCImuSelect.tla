---------------------------- MODULE MCImuSelect ----------------------------
(* An instance of ImuSelect for TLC: every buffer of up to five readings   *)
(* and every two instants among six.                                       *)
EXTENDS ImuSelect
=============================================================================
