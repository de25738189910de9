------------------------------ MODULE MCRWLock ------------------------------
(* Instances of RWLock for TLC: two processes, one of two threads.          *)
EXTENDS RWLock, TLC

CONSTANTS p1, p2, t1, t2, t3

MCProcOf == t1 :> p1 @@ t2 :> p1 @@ t3 :> p2
=============================================================================
