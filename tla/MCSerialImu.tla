----------------------------- MODULE MCSerialImu -----------------------------
(* A small instance of SerialImu for TLC. *)
EXTENDS SerialImu

\* The stamps wrap during the run, or the numbers do.
NearWraps ==
    {[micros |-> Word - 8, sequence |-> 0], [micros |-> 0, sequence |-> Word - 2]}
==============================================================================
