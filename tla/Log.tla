-------------------------------- MODULE Log ---------------------------------
(***************************************************************************)
(* What an asynchronous log promises to those who record lines in it, with  *)
(* no buffers and no threads: a line recorded waits, unless it is refused;  *)
(* lines leave the front of those that wait, in the order in which they     *)
(* were recorded; a beginning of what leaves at once goes behind the end of *)
(* the file, the rest of it is missing for ever.  Nothing else is ever      *)
(* written, nothing is written twice, and what is in the file stays there.  *)
(*                                                                          *)
(* AsyncLogger.tla is shown to implement this specification.                *)
(***************************************************************************)
EXTENDS Naturals, Sequences

CONSTANT Line    \* lines to be recorded, each at most once

VARIABLES
    recorded,    \* all lines recorded, in order
    waiting,     \* those still to be written, in order
    file,        \* what has been written
    missing      \* lines refused or given up

vars == <<recorded, waiting, file, missing>>

(* The elements of a piece of a sequence.                                   *)
Piece(s, first, last) == {s[i] : i \in first..last}

Init ==
    /\ recorded = <<>>
    /\ waiting = <<>>
    /\ file = <<>>
    /\ missing = {}

Recorded(l) ==
    /\ l \notin Piece(recorded, 1, Len(recorded))
    /\ recorded' = Append(recorded, l)
    /\ UNCHANGED file

Accept(l) ==
    /\ Recorded(l)
    /\ waiting' = Append(waiting, l)
    /\ UNCHANGED missing

Refuse(l) ==
    /\ Recorded(l)
    /\ missing' = missing \cup {l}
    /\ UNCHANGED waiting

(* The first n lines that wait are written, the next m - n are given up.    *)
Write(n, m) ==
    /\ file' = file \o SubSeq(waiting, 1, n)
    /\ missing' = missing \cup Piece(waiting, n + 1, m)
    /\ waiting' = SubSeq(waiting, m + 1, Len(waiting))
    /\ UNCHANGED recorded

Next ==
    \/ \E l \in Line : Accept(l) \/ Refuse(l)
    \/ \E m \in 0..Len(waiting) : \E n \in 0..m : Write(n, m)

Spec == Init /\ [][Next]_vars
=============================================================================
