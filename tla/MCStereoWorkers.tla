--------------------------- MODULE MCStereoWorkers ---------------------------
(* A small instance of StereoWorkers for TLC. *)
EXTENDS StereoWorkers

CONSTANTS c1, c2

CallersSet == {c1, c2}
==============================================================================
