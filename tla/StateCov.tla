------------------------------ MODULE StateCov ------------------------------
(***************************************************************************)
(* The state vector of the OpenVINS filter and the bookkeeping that ties   *)
(* each variable to its rows of the covariance: the constructor of State   *)
(* (State.cpp) and the operations of StateHelper.cpp that grow or shrink   *)
(* the covariance.                                                         *)
(*                                                                         *)
(* The entries of the covariance are abstracted to labels: row i carries   *)
(* <<v, k>> when it holds component k of variable v, so "the right row" is *)
(* something a property can speak of.  Every other operation of the filter *)
(* (EKFPropagation, EKFUpdate, get_marginal_covariance) finds the rows of a *)
(* variable through its id alone.                                          *)
(***************************************************************************)
EXTENDS Integers, Sequences, FiniteSets

CONSTANTS
    CtorOrder,   \* the variables the constructor adds, in its order
    Clones,      \* pose clones (PoseJPL) that augment_clone can create
    Landmarks,   \* SLAM landmarks that delayed_init can create
    Size         \* Type::size() of each variable

Fixed == {CtorOrder[i] : i \in 1..Len(CtorOrder)}
Vars  == Fixed \cup Clones \cup Landmarks

ASSUME CovAssumption ==
    /\ CtorOrder \in Seq(Fixed)
    /\ \A i, j \in 1..Len(CtorOrder) : CtorOrder[i] = CtorOrder[j] => i = j
    /\ Fixed \cap (Clones \cup Landmarks) = {}
    /\ Size \in [Vars -> Nat \ {0}]

VARIABLES
    built,       \* how many variables the constructor has added
    variables,   \* state->_variables
    id,          \* Type::id(), -1 outside the state
    cov          \* state->_Cov: the label of every row

covVars == <<built, variables, id, cov>>

Label == Vars \X Nat

CovInit ==
    /\ built = 0
    /\ variables = {}
    /\ id = [v \in Vars |-> -1]
    /\ cov = <<>>

\* set_local_id, push_back and the resize of the covariance by size() rows.
PushBack(v) ==
    /\ id' = [id EXCEPT ![v] = Len(cov)]
    /\ cov' = [i \in 1..(Len(cov) + Size[v]) |->
                  IF i <= Len(cov) THEN cov[i] ELSE <<v, i - Len(cov) - 1>>]
    /\ variables' = variables \cup {v}

\* One set_local_id / push_back / current_id += size() of State::State.
Construct ==
    /\ built < Len(CtorOrder)
    /\ PushBack(CtorOrder[built + 1])
    /\ built' = built + 1

Constructed == built = Len(CtorOrder)

\* StateHelper::clone, as augment_clone calls it for the IMU pose.
Clone(v) ==
    /\ Constructed
    /\ v \in Clones \ variables
    /\ PushBack(v)
    /\ UNCHANGED built

\* StateHelper::initialize, accepted by its gate, with initialize_invertible;
\* a landmark that is in the state already would exit the process.
Initialize(v) ==
    /\ Constructed
    /\ v \in Landmarks \ variables
    /\ PushBack(v)
    /\ UNCHANGED built

\* Mutant of ShiftedId: nothing is moved forward.
ShiftedIdKept(w, marg_id, marg_size) == id[w]

\* A variable beyond the removed one is moved forward by its size.
ShiftedId(w, marg_id, marg_size) ==
    IF id[w] > marg_id THEN id[w] - marg_size ELSE id[w]

\* Cov_new: the rows before the removed variable, then those after it.
CutRows(marg_id, marg_size) ==
    [i \in 1..(Len(cov) - marg_size) |->
        IF i <= marg_id THEN cov[i] ELSE cov[i + marg_size]]

\* marg->set_local_id(-1)
Forget(v) == -1

\* StateHelper::marginalize; the filter removes clones and landmarks only.
Marginalize(v) ==
    /\ v \in variables \ Fixed
    /\ cov' = CutRows(id[v], Size[v])
    /\ id' = [w \in Vars |->
                 IF w = v THEN Forget(v)
                 ELSE IF w \in variables THEN ShiftedId(w, id[v], Size[v])
                 ELSE id[w]]
    /\ variables' = variables \ {v}
    /\ UNCHANGED built

CovNext ==
    \/ Construct
    \/ \E v \in Clones : Clone(v)
    \/ \E v \in Landmarks : Initialize(v)
    \/ \E v \in Clones \cup Landmarks : Marginalize(v)

CovSpec == CovInit /\ [][CovNext]_covVars
------------------------------------------------------------------------------
(* Properties *)

\* A variable outside the state has id -1 and no other has: a stale pointer to
\* a marginalised clone or landmark cannot pass for a live one.
CovTypeOK ==
    /\ built \in 0..Len(CtorOrder)
    /\ variables \subseteq Vars
    /\ id \in [Vars -> Int]
    /\ \A v \in Vars : (v \in variables) = (id[v] >= 0)
    /\ \A v \in Vars \ variables : id[v] = -1
    /\ cov \in Seq(Label)

\* The rows an id points at are exactly the rows of that variable: whatever the
\* order of clones, landmark initialisations and marginalisations, no update
\* reads or writes the block of another variable.
IdsPointAtOwnRows ==
    \A v \in variables : \A k \in 0..(Size[v] - 1) :
        /\ id[v] + k + 1 <= Len(cov)
        /\ cov[id[v] + k + 1] = <<v, k>>

\* The covariance has no row that belongs to nothing: every row lies in the
\* block of a variable of the state.
NoStrayRow ==
    \A i \in 1..Len(cov) : \E v \in variables :
        id[v] < i /\ i <= id[v] + Size[v]

\* What the constructor placed never moves.  The propagation covers the IMU and
\* its intrinsics as one block and exits when they are not contiguous.
FixedStayInPlace ==
    [][\A v \in Fixed \cap variables : id'[v] = id[v]]_covVars
==============================================================================
