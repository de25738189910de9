---------------------------- MODULE MCThreadPoll ----------------------------
(* Instances of ThreadPoll for TLC: symmetry only; constants are in the     *)
(* .cfg files.  Thread has room for the threads of the constructor and one  *)
(* more per task, so growth is never held back by a lack of ids.            *)
EXTENDS ThreadPoll, TLC

ASSUME EnoughThreads ==
    \/ maxThreadnum = minThreadnum /\ Cardinality(Thread) >= minThreadnum
    \/ Cardinality(Thread) >= minThreadnum + Cardinality(Task)

Symmetry == Permutations(Thread) \cup Permutations(Task)
=============================================================================
