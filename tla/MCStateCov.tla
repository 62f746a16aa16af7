------------------------------ MODULE MCStateCov ------------------------------
(* A small instance of StateCov with the sizes of the code. *)
EXTENDS StateCov

\* Calibrated time offset and one camera pose (StateOptions).
MCCtorOrder == <<"imu", "calib_dt", "calib_pose0">>
MCClones    == {"clone1", "clone2", "clone3"}
MCLandmarks == {"landmark", "depth"}  \* three components, single inverse depth
MCSize == [v \in Vars |-> CASE v = "imu" -> 15
                            [] v \in {"calib_dt", "depth"} -> 1
                            [] v = "landmark" -> 3
                            [] OTHER -> 6]
==============================================================================
