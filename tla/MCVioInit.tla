------------------------------ MODULE MCVioInit ------------------------------
(* Small instances of VioInit for TLC; a .cfg cannot hold a negative number. *)
EXTENDS VioInit

BothSigns == {-1, 2}   \* -1 is within Slack
==============================================================================
