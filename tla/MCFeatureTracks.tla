-------------------------- MODULE MCFeatureTracks --------------------------
(* A small instance of FeatureTracks for TLC. *)
EXTENDS FeatureTracks
=============================================================================
