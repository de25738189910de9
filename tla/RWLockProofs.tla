---------------------------- MODULE RWLockProofs ----------------------------
(* Proofs about RWLock: no lock call ever returns, however many processes   *)
(* and threads there are, and whenever sessions end.                        *)
EXTENDS RWLock, TLAPS

(* What the proof of NeverHeld needs: a thread that lists the children of a *)
(* live session finds its own node among them.                              *)
IInv ==
    /\ pc \in [Thread -> {"idle", "list", "get", "wait", "held"}]
    /\ mine \in [Thread -> [kind : Kinds, seq : Nat, proc : Proc] \cup {NoNode}]
    /\ seq \in Nat
    /\ \A t \in Thread : pc[t] \in {"list", "get"} =>
         mine[t] \in [kind : Kinds, seq : Nat, proc : {ProcOf[t]}]
    /\ OwnNodeThere
    /\ NeverHeld

(* Whatever the numbers are, a child's name lacks the slash of the own one. *)
LEMMA NobodyIsSelf == \A t, n : ~IsSelf(t, n)
BY DEF IsSelf, ChildName, SelfName

LEMMA InitInv == Init => IInv
BY DEF Init, IInv, OwnNodeThere, NeverHeld

(* The node of a reader stops the search at cc:139-148.                     *)
LEMMA ReaderStops ==
    ASSUME NEW t, mine[t] \in nodes, mine[t].kind = "read"
    PROVE  Stops(t) # {}
BY DEF Stops

LEMMA ListStep ==
    ASSUME ProcOf \in [Thread -> Proc], IInv, NEW t \in Thread, List(t)
    PROVE  IInv'
<1>1. CASE ListFails(t)
  BY <1>1 DEF ListFails, Exit, IInv, OwnNodeThere, NeverHeld
<1>2. ASSUME ~ListFails(t)
      PROVE  /\ pc' \in [Thread -> {"idle", "list", "get", "wait", "held"}]
             /\ pc' = [pc EXCEPT ![t] = "get"]
             /\ UNCHANGED <<nodes, seq, ended, mine>>
  <2>1. pc[t] = "list"
    BY DEF List
  <2>2. CASE ListWrite(t)
    BY <2>2, NobodyIsSelf DEF ListWrite, Choose, Go, IInv
  <2>3. CASE mine[t].kind = "read" /\ ListRead(t)
    <3>1. mine[t] \in nodes
      BY <2>1, <2>3 DEF IInv, OwnNodeThere, ListRead
    <3>2. Stops(t) # {}
      BY <2>3, <3>1, ReaderStops
    <3>. QED
      BY <2>3, <3>2, NobodyIsSelf DEF ListRead, Choose, Go, IInv
  <2>. QED
    BY <1>2, <2>2, <2>3 DEF List
<1>. QED
  BY <1>1, <1>2 DEF List, IInv, OwnNodeThere, NeverHeld

LEMMA CreateStep ==
    ASSUME ProcOf \in [Thread -> Proc], IInv, NEW t \in Thread,
           NEW kind \in Kinds, CreateNode(t, kind)
    PROVE  IInv'
<1>1. CASE ProcOf[t] \in ended
  BY <1>1 DEF CreateNode, Exit, IInv, OwnNodeThere, NeverHeld
<1>2. CASE ProcOf[t] \notin ended
  <2> DEFINE n == [kind |-> kind, seq |-> seq, proc |-> ProcOf[t]]
  <2>1. /\ nodes' = nodes \cup {n}
        /\ mine' = [mine EXCEPT ![t] = n]
        /\ pc' = [pc EXCEPT ![t] = "list"]
        /\ seq' = seq + 1
        /\ ended' = ended
    BY <1>2 DEF CreateNode, Go
  <2>2. n \in [kind : Kinds, seq : Nat, proc : {ProcOf[t]}]
    BY DEF IInv
  <2>3. ProcOf[t] \in Proc
    OBVIOUS
  <2>. QED
    BY <2>1, <2>2, <2>3 DEF IInv, OwnNodeThere, NeverHeld
<1>. QED
  BY <1>1, <1>2

LEMMA GetStep ==
    ASSUME IInv, NEW t \in Thread, Get(t)
    PROVE  IInv'
BY DEF Get, Exit, Go, IInv, OwnNodeThere, NeverHeld

(* No thread gets as far as an unlock.                                      *)
LEMMA UnlockStep ==
    ASSUME IInv, NEW t \in Thread, Unlock(t)
    PROVE  FALSE
BY DEF Unlock, IInv, NeverHeld

LEMMA SessionStep ==
    ASSUME IInv, NEW p \in Proc, SessionEnds(p)
    PROVE  IInv'
<1>1. UNCHANGED <<pc, mine, seq>> /\ ended' = ended \cup {p}
      /\ nodes' = {n \in nodes : n.proc # p}
  BY DEF SessionEnds
<1>2. OwnNodeThere'
  <2>1. SUFFICES ASSUME NEW t \in Thread, pc[t] \in {"list", "get"},
                        ProcOf[t] \notin ended \cup {p}
                 PROVE  mine[t] \in nodes /\ mine[t].proc # p
    BY <1>1 DEF OwnNodeThere
  <2>. QED
    BY <2>1 DEF IInv, OwnNodeThere
<1>. QED
  BY <1>1, <1>2 DEF IInv, NeverHeld

LEMMA TypeStep ==
    ASSUME ProcOf \in [Thread -> Proc], IInv, TypeOK, [Next]_vars
    PROVE  TypeOK'
<1>1. ASSUME NEW t \in Thread, NEW kind \in Kinds, CreateNode(t, kind)
      PROVE  TypeOK'
  BY <1>1 DEF TypeOK, CreateNode, Exit, Go
<1>2. ASSUME NEW t \in Thread, List(t) PROVE TypeOK'
  BY <1>2 DEF TypeOK, List, ListFails, ListWrite, ListRead, SetWriteLock, Choose, Exit, Go
<1>3. ASSUME NEW t \in Thread, Get(t) PROVE TypeOK'
  BY <1>3 DEF TypeOK, Get, Exit, Go
<1>4. ASSUME NEW t \in Thread, Unlock(t) PROVE TypeOK'
  BY <1>4, UnlockStep
<1>5. ASSUME NEW p \in Proc, SessionEnds(p) PROVE TypeOK'
  BY <1>5 DEF TypeOK, SessionEnds
<1>6. CASE UNCHANGED vars
  BY <1>6 DEF TypeOK, vars
<1>. QED
  BY <1>1, <1>2, <1>3, <1>4, <1>5, <1>6 DEF Next

LEMMA IInvHolds ==
    ASSUME ProcOf \in [Thread -> Proc]
    PROVE  Spec => []IInv
<1>1. IInv /\ [Next]_vars => IInv'
  <2>1. CASE UNCHANGED vars
    BY <2>1 DEF vars, IInv, OwnNodeThere, NeverHeld
  <2>. QED
    BY <2>1, CreateStep, ListStep, GetStep, UnlockStep, SessionStep DEF Next
<1>. QED
  BY <1>1, InitInv, PTL DEF Spec

(* Type correctness of the lock's model.                                    *)
THEOREM TypeCorrect ==
    ASSUME ProcOf \in [Thread -> Proc]
    PROVE  Spec => []TypeOK
<1>1. Init => TypeOK
  BY DEF Init, TypeOK
<1>2. IInv /\ TypeOK /\ [Next]_vars => TypeOK'
  BY TypeStep
<1>. QED
  BY <1>1, <1>2, IInvHolds, PTL DEF Spec

(* No lock_read and no lock_write ever returns (cc:48-167): no thread of    *)
(* any process ever holds the lock, whatever sessions do.                   *)
THEOREM LockNeverHeld ==
    ASSUME ProcOf \in [Thread -> Proc]
    PROVE  Spec => []NeverHeld
<1>1. IInv => NeverHeld
  BY DEF IInv
<1>. QED
  BY <1>1, IInvHolds, PTL
=============================================================================
