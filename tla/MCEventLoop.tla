---------------------------- MODULE MCEventLoop ----------------------------
(* Instances of EventLoop for TLC: model values for the tasks and channels.  *)
EXTENDS EventLoop

CONSTANTS k1, k2, k3, c1
=============================================================================
