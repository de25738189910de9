------------------------------ MODULE TaskPool ------------------------------
(***************************************************************************)
(* What a thread pool promises to the code that hands it tasks, with no     *)
(* threads in it: a task handed over waits in a queue, tasks leave the      *)
(* queue in the order they entered it, each is executed at most once, and   *)
(* at most Width of them are being executed at any moment.                  *)
(*                                                                          *)
(* ThreadPoll.tla is shown to implement this specification.                 *)
(***************************************************************************)
EXTENDS Naturals, Sequences, FiniteSets

CONSTANTS
    Task,     \* the tasks callers may hand over
    Width     \* how many tasks may be executed at the same time, a number

VARIABLES
    pending,  \* tasks handed over and not started, in order
    running,  \* tasks being executed
    finished  \* tasks whose execution has ended

vars == <<pending, running, finished>>

Queued == {pending[i] : i \in 1..Len(pending)}

Init ==
    /\ pending = <<>>
    /\ running = {}
    /\ finished = {}

(* A caller hands over a task it never handed over before.                  *)
Submit(k) ==
    /\ k \notin Queued \cup running \cup finished
    /\ pending' = Append(pending, k)
    /\ UNCHANGED <<running, finished>>

(* The oldest queued task starts, if there is room for it.                  *)
Start ==
    /\ pending # <<>>
    /\ Cardinality(running) < Width
    /\ running' = running \cup {Head(pending)}
    /\ pending' = Tail(pending)
    /\ UNCHANGED finished

Finish(k) ==
    /\ k \in running
    /\ running' = running \ {k}
    /\ finished' = finished \cup {k}
    /\ UNCHANGED pending

Next ==
    \/ \E k \in Task : Submit(k) \/ Finish(k)
    \/ Start

Spec == Init /\ [][Next]_vars
=============================================================================
