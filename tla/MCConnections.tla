---------------------------- MODULE MCConnections ---------------------------
(* Instances of Connections for TLC: model values for connections,           *)
(* descriptors and messages, which Connections treats alike.                 *)
EXTENDS Connections, TLC

CONSTANTS c1, c2, f1, f2, m1, m2

Symmetry == Permutations({c1, c2}) \cup Permutations({f1, f2}) \cup Permutations({m1, m2})
=============================================================================
