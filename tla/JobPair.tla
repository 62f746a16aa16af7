------------------------------ MODULE JobPair ------------------------------
(***************************************************************************)
(* What StereoWorkers promises its callers ("jobs are synchronous pairs;   *)
(* both finish before run returns"): one pair is in progress at a time,    *)
(* each job of it runs once, and the caller gets the left job's exception, *)
(* else the right one's, else none.                                        *)
(***************************************************************************)
EXTENDS Integers

CONSTANTS Callers, None

Sides == {0, 1}

VARIABLES
    caller,   \* whose pair is in progress, or None
    pending,  \* the jobs of it that have not finished
    failed,   \* the jobs of it that have thrown
    outcome   \* what each caller's latest call has given

vars == <<caller, pending, failed, outcome>>

Init ==
    /\ caller = None /\ pending = {} /\ failed = {}
    /\ outcome = [c \in Callers |-> "none"]

Outcome(S) == IF 0 \in S THEN "left" ELSE IF 1 \in S THEN "right" ELSE "ok"

Call(c) ==
    /\ caller = None
    /\ caller' = c /\ pending' = Sides /\ failed' = {}
    /\ UNCHANGED outcome

Finish(s) ==
    /\ s \in pending
    /\ pending' = pending \ {s}
    /\ failed' \in {failed, failed \cup {s}}
    /\ UNCHANGED <<caller, outcome>>

Return ==
    /\ caller # None /\ pending = {}
    /\ outcome' = [outcome EXCEPT ![caller] = Outcome(failed)]
    /\ caller' = None /\ failed' = {}
    /\ UNCHANGED pending

Next == (\E c \in Callers : Call(c)) \/ (\E s \in Sides : Finish(s)) \/ Return

Spec == Init /\ [][Next]_vars
==============================================================================
