----------------------------- MODULE EventQueue -----------------------------
(***************************************************************************)
(* What an Executor promises its users (the Executor interface and its     *)
(* comments): an unbounded queue of tasks, run one at a time in the order  *)
(* they were accepted, that accepts nothing once closed and is terminated  *)
(* only when every accepted task has been taken.                           *)
(***************************************************************************)
EXTENDS Sequences

CONSTANT Tasks

VARIABLES
    queue,      \* accepted, not yet taken
    taken,      \* taken for execution, in that order
    closed,     \* no further task is accepted
    terminated  \* the executor has stopped

eqVars == <<queue, taken, closed, terminated>>

EQInit == queue = <<>> /\ taken = <<>> /\ closed = FALSE /\ terminated = FALSE

EQAccept(t) ==
    /\ ~closed
    /\ queue' = Append(queue, t)
    /\ UNCHANGED <<taken, closed, terminated>>

EQTake ==
    /\ queue # <<>>
    /\ queue' = Tail(queue)
    /\ taken' = Append(taken, Head(queue))
    /\ UNCHANGED <<closed, terminated>>

EQClose ==
    /\ closed' = TRUE
    /\ UNCHANGED <<queue, taken, terminated>>

EQStop ==
    /\ closed /\ queue = <<>>
    /\ terminated' = TRUE
    /\ UNCHANGED <<queue, taken, closed>>

EQNext == (\E t \in Tasks : EQAccept(t)) \/ EQTake \/ EQClose \/ EQStop

EQSpec == EQInit /\ [][EQNext]_eqVars
=============================================================================
