------------------------------ MODULE MCLogger ------------------------------
(* Instances of Logger for TLC: lines of length 1, but for l4, whose length  *)
(* LongLen is the capacity of a buffer or exceeds it; l2 has a level of its  *)
(* own.                                                                      *)
EXTENDS Logger, TLC

CONSTANTS l1, l2, l3, l4, LongLen, t1, t2

MCLineLen == [l \in Line |-> IF l = l4 THEN LongLen ELSE 1]
MCLevel == [l \in Line |-> IF l = l2 THEN 3 ELSE 1]
=============================================================================
