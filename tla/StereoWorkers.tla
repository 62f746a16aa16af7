--------------------------- MODULE StereoWorkers ---------------------------
(***************************************************************************)
(* orb_fast::StereoWorkers (benchmark/orb_stereo_workers.hpp): two threads *)
(* that run a left and a right job for the caller of run, which waits.     *)
(*                                                                         *)
(* A critical section of state_ is one action, for nothing blocks inside   *)
(* one except the waits, which release the mutex: a thread that finds its  *)
(* condition false falls asleep in the same action and is woken by a       *)
(* notification or for no reason.                                          *)
(***************************************************************************)
EXTENDS Integers

CONSTANTS
    Callers,   \* threads that call run
    None,
    MaxCalls   \* bound on generation_

ASSUME StereoWorkersAssumption == None \notin Callers /\ MaxCalls \in Nat

Sides == {0, 1}

VARIABLES
    dispatch,    \* the caller that holds dispatch_
    callers,     \* each caller: outside, asleep in done_.wait, or woken
    outcome,     \* what each caller's latest run has given (history)
    jobs,        \* jobs_: whose job each side is to run
    errors,      \* errors_: has the side's job thrown?
    finished,    \* finished_
    generation,  \* generation_
    stopping,    \* stopping_
    worker,      \* each thread's step
    seen,        \* its local: the generation it has taken
    job,         \* its local: the job it has taken
    threw,       \* its local: the exception
    pool         \* constructing, open, or closing

shared == <<jobs, errors, finished, generation>>
local  == <<seen, job, threw>>
vars   == <<dispatch, callers, outcome, shared, stopping, worker, local, pool>>

Init ==
    /\ dispatch = None /\ callers = [c \in Callers |-> "out"]
    /\ outcome = [c \in Callers |-> "none"]
    /\ jobs = [s \in Sides |-> None] /\ errors = [s \in Sides |-> FALSE]
    /\ finished = 0 /\ generation = 0 /\ stopping = FALSE
    /\ worker = [s \in Sides |-> "none"]
    /\ seen = [s \in Sides |-> 0] /\ job = [s \in Sides |-> None]
    /\ threw = [s \in Sides |-> FALSE]
    /\ pool = "constructing"

\* Mutant of Notified: no notification.
NotifiedNone == worker

\* ready_.notify_all
Notified == [s \in Sides |-> IF worker[s] = "asleep" THEN "check" ELSE worker[s]]

------------------------------------------------------------------------------
(* Construction and destruction *)

\* The constructor starts the threads, the left one first.
StartThread(s) ==
    /\ pool = "constructing" /\ worker[s] = "none"
    /\ s = 1 => worker[0] # "none"
    /\ worker' = [worker EXCEPT ![s] = "check"]
    /\ pool' = IF s = 1 THEN "open" ELSE pool
    /\ UNCHANGED <<dispatch, callers, outcome, shared, stopping, local>>

\* stop: from the destructor, which comes after every caller has finished, or
\* from a constructor that could not start a thread.
Stop ==
    /\ pool \in {"constructing", "open"} /\ dispatch = None
    /\ \A c \in Callers : callers[c] = "out"
    /\ stopping' = TRUE /\ worker' = Notified
    /\ pool' = "closing"
    /\ UNCHANGED <<dispatch, callers, outcome, shared, local>>

\* Both joins return.
Joined ==
    /\ pool = "closing" /\ \A s \in Sides : worker[s] \in {"none", "gone"}
    /\ pool' = "closed"
    /\ UNCHANGED <<dispatch, callers, outcome, shared, stopping, worker, local>>

------------------------------------------------------------------------------
(* run *)

\* Take dispatch_, publish the pair, wake the workers and wait for them.
Run(c) ==
    /\ pool = "open" /\ dispatch = None /\ callers[c] = "out"
    /\ generation < MaxCalls
    /\ dispatch' = c
    /\ jobs' = [s \in Sides |-> c]
    /\ errors' = [s \in Sides |-> FALSE]
    /\ finished' = 0 /\ generation' = generation + 1
    /\ worker' = Notified
    /\ callers' = [callers EXCEPT ![c] = "asleep"]
    /\ UNCHANGED <<outcome, stopping, local, pool>>

\* The condition of done_.wait.
BothFinished == finished = 2

\* Woken: return, with the left exception first, or wait again.
Woken(c) ==
    /\ callers[c] = "woken"
    /\ IF BothFinished
       THEN /\ callers' = [callers EXCEPT ![c] = "out"]
            /\ outcome' = [outcome EXCEPT ![c] = IF errors[0] THEN "left"
                                                ELSE IF errors[1] THEN "right" ELSE "ok"]
            /\ dispatch' = None
       ELSE /\ callers' = [callers EXCEPT ![c] = "asleep"]
            /\ UNCHANGED <<outcome, dispatch>>
    /\ UNCHANGED <<shared, stopping, worker, local, pool>>

------------------------------------------------------------------------------
(* The worker threads *)

\* Mutant of NewWork: any earlier generation counts as seen.
NewWorkFinished(s) == finished = 0

\* The second half of the condition of ready_.wait.
NewWork(s) == generation # seen[s]

\* Stop, take the job, or fall asleep.
Check(s) ==
    /\ worker[s] = "check"
    /\ \/ /\ stopping
          /\ worker' = [worker EXCEPT ![s] = "gone"] /\ UNCHANGED local
       \/ /\ ~stopping /\ NewWork(s)
          /\ worker' = [worker EXCEPT ![s] = "job"]
          /\ seen' = [seen EXCEPT ![s] = generation]
          /\ job' = [job EXCEPT ![s] = jobs[s]]
          /\ UNCHANGED threw
       \/ /\ ~stopping /\ ~NewWork(s)
          /\ worker' = [worker EXCEPT ![s] = "asleep"] /\ UNCHANGED local
    /\ UNCHANGED <<dispatch, callers, outcome, shared, stopping, pool>>

\* The job runs outside the mutex; it returns or throws.
RunJob(s) ==
    /\ worker[s] = "job"
    /\ worker' = [worker EXCEPT ![s] = "post"]
    /\ \E e \in BOOLEAN : threw' = [threw EXCEPT ![s] = e]
    /\ UNCHANGED <<dispatch, callers, outcome, shared, stopping, seen, job, pool>>

\* Mutant of Woke: no notification.
WokeNone == callers

\* done_.notify_one: at most the holder of dispatch_ waits there.
Woke == [c \in Callers |-> IF callers[c] = "asleep" THEN "woken" ELSE callers[c]]

\* Mutant of Posted: the left exception hides a right one.
PostedLeft(s) == [errors EXCEPT ![0] = threw[s]]

Posted(s) == [errors EXCEPT ![s] = threw[s]]

Post(s) ==
    /\ worker[s] = "post"
    /\ errors' = Posted(s)
    /\ finished' = finished + 1
    /\ callers' = Woke
    /\ worker' = [worker EXCEPT ![s] = "check"]
    /\ UNCHANGED <<dispatch, outcome, jobs, generation, stopping, local, pool>>

\* A wait may end without a notification.
Spurious ==
    /\ \/ /\ \E s \in Sides : worker[s] = "asleep"
                              /\ worker' = [worker EXCEPT ![s] = "check"]
          /\ UNCHANGED callers
       \/ /\ \E c \in Callers : callers[c] = "asleep"
                                /\ callers' = [callers EXCEPT ![c] = "woken"]
          /\ UNCHANGED worker
    /\ UNCHANGED <<dispatch, outcome, shared, stopping, local, pool>>

WorkerStep(s) == Check(s) \/ RunJob(s) \/ Post(s)

Next ==
    \/ \E s \in Sides : StartThread(s) \/ WorkerStep(s)
    \/ Stop \/ Joined \/ Spurious
    \/ \E c \in Callers : Run(c) \/ Woken(c)

Spec == Init /\ [][Next]_vars

\* The scheduler runs every thread, and jobs end.
LiveSpec ==
    /\ Spec
    /\ \A s \in Sides : WF_vars(WorkerStep(s))
    /\ \A c \in Callers : WF_vars(Woken(c))
    /\ WF_vars(Joined)
------------------------------------------------------------------------------
(* Properties *)

TypeOK ==
    /\ dispatch \in Callers \cup {None}
    /\ callers \in [Callers -> {"out", "asleep", "woken"}]
    /\ outcome \in [Callers -> {"none", "ok", "left", "right"}]
    /\ jobs \in [Sides -> Callers \cup {None}] /\ errors \in [Sides -> BOOLEAN]
    /\ finished \in 0..2 /\ generation \in Nat /\ stopping \in BOOLEAN
    /\ worker \in [Sides -> {"none", "check", "asleep", "job", "post", "gone"}]
    /\ seen \in [Sides -> Nat] /\ job \in [Sides -> Callers \cup {None}]
    /\ threw \in [Sides -> BOOLEAN]
    /\ pool \in {"constructing", "open", "closing", "closed"}

\* A job runs only while the caller that owns its context is still inside run,
\* whoever else may be waiting to call.
ContextAlive ==
    \A s \in Sides : worker[s] \in {"job", "post"} =>
        job[s] = dispatch /\ dispatch \in Callers /\ callers[dispatch] # "out"

\* A thread has finished the pair when it is back at its wait with the current
\* generation seen.
Done(s) == seen[s] = generation /\ worker[s] \in {"check", "asleep"}

\* It implements the promise: a pair at a time, both finish before run returns,
\* and the outcome is that of this very pair.
Promise == INSTANCE JobPair WITH
    caller  <- dispatch,
    pending <- IF dispatch = None THEN {} ELSE {s \in Sides : ~Done(s)},
    failed  <- IF dispatch = None THEN {} ELSE {s \in Sides : errors[s]},
    outcome <- outcome

ImplementsJobPair == Promise!Spec

\* Every call of run returns: no wake-up is lost between publishing a pair and
\* falling asleep, at either end.
RunReturns == \A c \in Callers : callers[c] # "out" ~> callers[c] = "out"

\* The destructor, and a constructor that fails, get their threads joined.
StopEnds == pool = "closing" ~> pool = "closed"
==============================================================================
