---------------------------- MODULE MCFilterWindow ----------------------------
(* Small instances of FilterWindow for TLC. *)
EXTENDS FilterWindow

OneCam == [f \in Feats |-> 0]
TwoCam == [f \in Feats |-> IF f = "p1" THEN 0 ELSE 1]
==============================================================================
