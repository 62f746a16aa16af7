---------------------------- MODULE MCOrbFeed ----------------------------
(* A small instance of OrbFeed for TLC. *)
EXTENDS OrbFeed
==============================================================================
