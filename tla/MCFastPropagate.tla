--------------------------- MODULE MCFastPropagate ---------------------------
(* Small instances of FastPropagate for TLC; a .cfg has no negative numbers. *)
EXTENDS FastPropagate

\* The estimate of the offset moves between a camera that is late by two readings
\* and one that is early by two.
BothWays == {-2, 2}
==============================================================================
