----------------------------- MODULE WorkQueue -----------------------------
(***************************************************************************)
(* What a thread pool promises its user: work is started in the order in   *)
(* which it was handed over, every item at most once, and the pool is gone *)
(* only when all the work it was given has been done.                      *)
(***************************************************************************)
EXTENDS Sequences, SequencesExt

CONSTANT Items

VARIABLES
    todo,      \* items handed over and not started, oldest first
    active,    \* items being worked on
    finished,  \* items done
    closed     \* the pool is gone

vars == <<todo, active, finished, closed>>

Init == todo = <<>> /\ active = {} /\ finished = {} /\ closed = FALSE

Submit(i) ==
    /\ ~closed
    /\ i \notin Range(todo) \cup active \cup finished
    /\ todo' = Append(todo, i)
    /\ UNCHANGED <<active, finished, closed>>

Start ==
    /\ todo # <<>>
    /\ active' = active \cup {Head(todo)}
    /\ todo' = Tail(todo)
    /\ UNCHANGED <<finished, closed>>

Finish(i) ==
    /\ i \in active
    /\ active' = active \ {i}
    /\ finished' = finished \cup {i}
    /\ UNCHANGED <<todo, closed>>

Close ==
    /\ todo = <<>> /\ active = {}
    /\ closed' = TRUE
    /\ UNCHANGED <<todo, active, finished>>

Next == (\E i \in Items : Submit(i) \/ Finish(i)) \/ Start \/ Close

Spec == Init /\ [][Next]_vars
=============================================================================
