------------------------ MODULE StereoWorkersProofs ------------------------
(***************************************************************************)
(* Proofs about StereoWorkers for any set of callers and any number of     *)
(* calls: the context of a running job is alive, and the pool implements   *)
(* JobPair.  The inductive invariant ties the counter finished_ to what    *)
(* the two threads have done in the current generation.                    *)
(***************************************************************************)
EXTENDS StereoWorkers, TLAPS

\* How many threads have finished the pair in progress.
Count == (IF Done(0) THEN 1 ELSE 0) + (IF Done(1) THEN 1 ELSE 0)

\* At most the holder of dispatch_ is inside run.
OneInside ==
    /\ \A c \in Callers : callers[c] # "out" => c = dispatch
    /\ dispatch # None => callers[dispatch] # "out"

\* A pair is in progress: both threads live, and each has either not seen it,
\* is at its job, or is done with it and counted.
InProgress ==
    dispatch # None =>
        /\ pool = "open"
        /\ \A s \in Sides : jobs[s] = dispatch
        /\ finished = Count
        /\ \A s \in Sides : ~Done(s) => errors[s] = FALSE

\* Between pairs both threads are up to date and at rest.
AtRest ==
    dispatch = None =>
        \A s \in Sides : seen[s] = generation /\ worker[s] \notin {"job", "post"}

\* A thread at its job has taken it in this generation, from the caller inside.
AtWork ==
    \A s \in Sides : worker[s] \in {"job", "post"} =>
        seen[s] = generation /\ job[s] = dispatch

Lifecycle ==
    /\ stopping => pool \in {"closing", "closed"}
    /\ pool = "open" => \A s \in Sides : worker[s] # "none"
    /\ \A s \in Sides : worker[s] = "gone" => stopping

IInv == TypeOK /\ OneInside /\ InProgress /\ AtRest /\ AtWork /\ Lifecycle

USE DEF Sides

------------------------------------------------------------------------------
LEMMA InitInvariant == Init => IInv
<1> SUFFICES ASSUME Init PROVE IInv
  OBVIOUS
<1> USE StereoWorkersAssumption DEF Init
<1>1. TypeOK
  <2>1. /\ callers \in [Callers -> {"out", "asleep", "woken"}]
        /\ outcome \in [Callers -> {"none", "ok", "left", "right"}]
    OBVIOUS
  <2>2. /\ jobs \in [Sides -> Callers \cup {None}] /\ job \in [Sides -> Callers \cup {None}]
        /\ errors \in [Sides -> BOOLEAN] /\ threw \in [Sides -> BOOLEAN]
        /\ seen \in [Sides -> Nat]
        /\ worker \in [Sides -> {"none", "check", "asleep", "job", "post", "gone"}]
    OBVIOUS
  <2>3. finished \in 0..2 /\ generation \in Nat
    OBVIOUS
  <2> QED
    BY <2>1, <2>2, <2>3 DEF TypeOK
<1>2. OneInside
  BY DEF OneInside
<1>3. InProgress /\ AtRest
  BY DEF InProgress, AtRest
<1>4. AtWork /\ Lifecycle
  BY DEF AtWork, Lifecycle
<1> QED
  BY <1>1, <1>2, <1>3, <1>4 DEF IInv

LEMMA NextInvariant == IInv /\ [Next]_vars => IInv'
<1> SUFFICES ASSUME IInv, [Next]_vars PROVE IInv'
  OBVIOUS
<1> USE StereoWorkersAssumption DEF IInv
<1>1. ASSUME NEW s \in Sides, StartThread(s) PROVE IInv'
  <2> USE <1>1 DEF StartThread, shared, local
  <2>1. dispatch = None
    BY DEF InProgress
  <2>2. TypeOK'
    BY DEF TypeOK
  <2>3. OneInside' /\ InProgress'
    BY <2>1 DEF OneInside, InProgress
  <2>4. AtRest' /\ AtWork'
    BY <2>1 DEF AtRest, AtWork, TypeOK
  <2>5. Lifecycle'
    BY DEF Lifecycle, TypeOK
  <2> QED
    BY <2>2, <2>3, <2>4, <2>5
<1>2. CASE Stop
  BY <1>2 DEF Stop, Notified, TypeOK, OneInside, InProgress, AtRest, AtWork, Lifecycle,
     shared, local, Done, Count
<1>3. CASE Joined
  BY <1>3 DEF Joined, TypeOK, OneInside, InProgress, AtRest, AtWork, Lifecycle,
     shared, local, Done, Count
<1>4. ASSUME NEW c \in Callers, Run(c) PROVE IInv'
  <2> USE <1>4 DEF Run, local
  <2>1. TypeOK'
    BY DEF TypeOK, Notified
  <2>2. OneInside'
    BY DEF TypeOK, OneInside
  <2>3. \A s \in Sides : seen[s] = generation /\ seen'[s] = seen[s]
    BY DEF AtRest
  <2>4. generation' = generation + 1 /\ generation \in Nat
    BY DEF TypeOK
  <2>5. \A s \in Sides : ~Done(s)'
    BY <2>3, <2>4 DEF Done
  <2>6. InProgress'
    BY <2>5 DEF InProgress, TypeOK, Count
  <2>7. \A s \in Sides : worker'[s] \notin {"job", "post"}
    BY DEF AtRest, Notified, TypeOK
  <2>8. AtRest' /\ AtWork'
    BY <2>7 DEF AtRest, AtWork
  <2>9. Lifecycle'
    BY DEF Lifecycle, Notified, TypeOK
  <2> QED
    BY <2>1, <2>2, <2>6, <2>8, <2>9
<1>5. ASSUME NEW c \in Callers, Woken(c) PROVE IInv'
  <2> USE <1>5 DEF Woken, shared, local
  <2>1. c = dispatch /\ dispatch # None
    BY DEF OneInside
  <2>2. CASE BothFinished
    <3>1. Done(0) /\ Done(1)
      BY <2>1, <2>2 DEF BothFinished, InProgress, Count
    <3>2. AtRest'
      BY <2>2, <3>1 DEF AtRest, Done
    <3>3. AtWork'
      BY <2>2, <3>1 DEF AtWork, Done
    <3>4. TypeOK' /\ OneInside' /\ Lifecycle'
      BY <2>1, <2>2 DEF TypeOK, OneInside, Lifecycle
    <3>5. InProgress'
      BY <2>2 DEF InProgress
    <3> QED
      BY <3>2, <3>3, <3>4, <3>5
  <2>3. CASE ~BothFinished
    BY <2>1, <2>3 DEF TypeOK, OneInside, InProgress, AtRest, AtWork, Lifecycle, Done, Count
  <2> QED
    BY <2>2, <2>3
<1>6. ASSUME NEW s \in Sides, Check(s) PROVE IInv'
  <2> USE <1>6 DEF Check, shared
  <2>1. CASE stopping
    BY <2>1 DEF NewWork, local, TypeOK, OneInside, InProgress, AtRest, AtWork, Lifecycle,
       Done, Count
  <2>2. CASE ~stopping /\ NewWork(s)
    <3>1. dispatch # None
      BY <2>2 DEF AtRest, NewWork
    <3>2. TypeOK' /\ OneInside' /\ Lifecycle'
      BY <2>2 DEF TypeOK, OneInside, Lifecycle
    <3>3. AtRest' /\ AtWork'
      BY <2>2, <3>1 DEF AtRest, AtWork, InProgress, TypeOK
    <3>4. \A t \in Sides : Done(t)' <=> Done(t)
      BY <2>2 DEF Done, NewWork, TypeOK
    <3>5. InProgress'
      BY <2>2, <3>4 DEF InProgress, Count
    <3> QED
      BY <3>2, <3>3, <3>5
  <2>3. CASE ~stopping /\ ~NewWork(s)
    BY <2>3 DEF NewWork, local, TypeOK, OneInside, InProgress, AtRest, AtWork, Lifecycle,
       Done, Count
  <2> QED
    BY <2>1, <2>2, <2>3
<1>7. ASSUME NEW s \in Sides, RunJob(s) PROVE IInv'
  BY <1>7 DEF RunJob, shared, TypeOK, OneInside, InProgress, AtRest, AtWork, Lifecycle,
     Done, Count
<1>8. ASSUME NEW s \in Sides, Post(s) PROVE IInv'
  <2> USE <1>8 DEF Post, local
  <2>1. dispatch # None /\ ~Done(s) /\ Done(s)'
    BY DEF AtRest, AtWork, Done, TypeOK
  <2>2. \A t \in Sides : t # s => (Done(t)' <=> Done(t))
    BY DEF Done, TypeOK
  <2>3. finished' = Count' /\ finished' \in 0..2
    BY <2>1, <2>2 DEF InProgress, Count
  <2>4. TypeOK'
    BY <2>3 DEF TypeOK, Posted, Woke
  <2>5. OneInside'
    BY DEF OneInside, TypeOK, Woke
  <2>6. InProgress'
    BY <2>1, <2>2, <2>3 DEF InProgress, Posted, TypeOK
  <2>7. AtRest' /\ AtWork' /\ Lifecycle'
    BY <2>1 DEF AtRest, AtWork, Lifecycle, TypeOK
  <2> QED
    BY <2>4, <2>5, <2>6, <2>7
<1>9. CASE Spurious
  <2> USE <1>9 DEF Spurious, shared, local
  <2>1. \A s \in Sides : Done(s)' <=> Done(s)
    BY DEF Done, TypeOK
  <2>2. TypeOK'
    BY DEF TypeOK
  <2>3. OneInside'
    BY DEF OneInside, TypeOK
  <2>4. InProgress'
    BY <2>1 DEF InProgress, Count
  <2>5. AtRest' /\ AtWork' /\ Lifecycle'
    BY DEF AtRest, AtWork, Lifecycle, TypeOK
  <2> QED
    BY <2>2, <2>3, <2>4, <2>5
<1>10. CASE UNCHANGED vars
  BY <1>10 DEF vars, shared, local, TypeOK, OneInside, InProgress, AtRest, AtWork,
     Lifecycle, Done, Count
<1> QED
  BY <1>1, <1>2, <1>3, <1>4, <1>5, <1>6, <1>7, <1>8, <1>9, <1>10 DEF Next, WorkerStep

THEOREM Invariant == Spec => []IInv
<1> QED
  BY InitInvariant, NextInvariant, PTL DEF Spec

------------------------------------------------------------------------------
\* Every variable keeps its type; in particular finished_ never exceeds two.
THEOREM TypeCorrect == Spec => []TypeOK
<1>1. IInv => TypeOK
  BY DEF IInv
<1> QED
  BY Invariant, <1>1, PTL

\* A running job belongs to the caller that is inside run: its context is alive.
THEOREM JobsHaveLiveContext == Spec => []ContextAlive
<1>1. IInv => ContextAlive
  <2> SUFFICES ASSUME IInv, NEW s \in Sides, worker[s] \in {"job", "post"}
               PROVE job[s] = dispatch /\ dispatch \in Callers /\ callers[dispatch] # "out"
    BY DEF ContextAlive
  <2>1. job[s] = dispatch
    BY DEF IInv, AtWork
  <2>2. dispatch # None
    BY DEF IInv, AtRest
  <2> QED
    BY <2>1, <2>2 DEF IInv, TypeOK, OneInside
<1> QED
  BY Invariant, <1>1, PTL

------------------------------------------------------------------------------
\* The pool implements JobPair: initial states and steps map to it.
LEMMA InitImplements == Init => Promise!Init
BY DEF Init, Promise!Init

LEMMA StepImplements == IInv /\ [Next]_vars => [Promise!Next]_(Promise!vars)
<1> SUFFICES ASSUME IInv, [Next]_vars PROVE Promise!Next \/ UNCHANGED Promise!vars
  OBVIOUS
<1> USE StereoWorkersAssumption DEF IInv
<1>1. ASSUME UNCHANGED <<dispatch, outcome, errors>>,
             \A s \in Sides : Done(s)' <=> Done(s)
      PROVE  UNCHANGED Promise!vars
  BY <1>1 DEF Promise!vars
<1>2. ASSUME dispatch = None, dispatch' = None, outcome' = outcome
      PROVE  UNCHANGED Promise!vars
  BY <1>2 DEF Promise!vars
<1>3. ASSUME NEW s \in Sides, StartThread(s) PROVE UNCHANGED Promise!vars
  BY <1>2, <1>3 DEF StartThread, InProgress
<1>4. CASE Stop
  BY <1>2, <1>4 DEF Stop
<1>5. CASE Joined
  BY <1>2, <1>5 DEF Joined, InProgress
<1>6. ASSUME NEW c \in Callers, Run(c) PROVE Promise!Call(c)
  <2>1. \A s \in Sides : ~Done(s)'
    BY <1>6 DEF Run, local, AtRest, Done, TypeOK
  <2> QED
    BY <1>6, <2>1 DEF Run, Promise!Call, Promise!Sides, TypeOK
<1>7. ASSUME NEW c \in Callers, Woken(c) PROVE Promise!Return \/ UNCHANGED Promise!vars
  <2>1. c = dispatch /\ dispatch # None
    BY <1>7 DEF Woken, OneInside
  <2>2. CASE BothFinished
    <3>1. Done(0) /\ Done(1)
      BY <2>1, <2>2 DEF BothFinished, InProgress, Count
    <3>2. Promise!Return
      BY <1>7, <2>1, <2>2, <3>1 DEF Woken, Promise!Return, Promise!Outcome, shared, TypeOK
    <3> QED
      BY <3>2
  <2>3. CASE ~BothFinished
    BY <1>1, <1>7, <2>3 DEF Woken, shared, local, Done
  <2> QED
    BY <2>2, <2>3
<1>8. ASSUME NEW s \in Sides, Check(s) PROVE UNCHANGED Promise!vars
  <2>1. CASE stopping
    BY <1>2, <1>8, <2>1 DEF Check, Lifecycle, InProgress
  <2>2. CASE ~stopping
    <3>1. \A t \in Sides : Done(t)' <=> Done(t)
      BY <1>8, <2>2 DEF Check, NewWork, shared, local, Done, TypeOK
    <3> QED
      BY <1>1, <1>8, <3>1 DEF Check, shared
  <2> QED
    BY <2>1, <2>2
<1>9. ASSUME NEW s \in Sides, RunJob(s) PROVE UNCHANGED Promise!vars
  <2>1. \A t \in Sides : Done(t)' <=> Done(t)
    BY <1>9 DEF RunJob, shared, Done, TypeOK
  <2> QED
    BY <1>1, <1>9, <2>1 DEF RunJob, shared
<1>10. ASSUME NEW s \in Sides, Post(s) PROVE Promise!Finish(s)
  <2>1. dispatch # None /\ ~Done(s) /\ Done(s)'
    BY <1>10 DEF Post, local, AtRest, AtWork, Done, TypeOK
  <2>2. \A t \in Sides : t # s => (Done(t)' <=> Done(t))
    BY <1>10 DEF Post, local, Done, TypeOK
  <2>3. errors[s] = FALSE /\ \A t \in Sides : t # s => errors'[t] = errors[t]
    BY <1>10, <2>1 DEF Post, Posted, InProgress, TypeOK
  <2>4. dispatch' = dispatch /\ outcome' = outcome
    BY <1>10 DEF Post
  <2>5. {t \in Sides : ~Done(t)}' = {t \in Sides : ~Done(t)} \ {s}
    BY <2>1, <2>2
  <2>6. {t \in Sides : errors'[t]} \in {{t \in Sides : errors[t]},
                                       {t \in Sides : errors[t]} \cup {s}}
    BY <2>3
  <2> QED
    BY <2>1, <2>4, <2>5, <2>6 DEF Promise!Finish
<1>11. CASE Spurious
  <2>1. \A s \in Sides : Done(s)' <=> Done(s)
    BY <1>11 DEF Spurious, shared, local, Done, TypeOK
  <2> QED
    BY <1>1, <1>11, <2>1 DEF Spurious, shared
<1>12. CASE UNCHANGED vars
  BY <1>1, <1>12 DEF vars, shared, local, Done
<1> QED
  BY <1>3, <1>4, <1>5, <1>6, <1>7, <1>8, <1>9, <1>10, <1>11, <1>12
  DEF Next, WorkerStep, Promise!Next, Promise!Sides

\* One pair at a time, both jobs finish before run returns, and the caller gets
\* the outcome of its own pair.
THEOREM Implements == Spec => ImplementsJobPair
<1> QED
  BY Invariant, InitImplements, StepImplements, PTL DEF Spec, ImplementsJobPair, Promise!Spec
==============================================================================
