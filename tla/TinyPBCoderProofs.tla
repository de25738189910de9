------------------------- MODULE TinyPBCoderProofs --------------------------
(***************************************************************************)
(* Theorems about TinyPBCoder and the ids of MsgIdUtil, for any messages,   *)
(* lengths of ids and bytes behind the buffer: ids count up, their index    *)
(* stays in the string until fresh digits are drawn again, and decode makes *)
(* of the frames that begin a buffer, whatever follows, and of those that   *)
(* lie whole in it, unless pieces of others mislead it, the messages they   *)
(* were made of.                                                            *)
(***************************************************************************)
EXTENDS TinyPBCoder, SequenceLemmas

-----------------------------------------------------------------------------
(* Ids                                                                       *)

IdInv ==
    /\ t_max_msg_id_no \in Nat
    /\ \/ t_msg_id_no = <<>> /\ t_max_msg_id_no = 0
       \/ t_msg_id_no \in Ids /\ t_max_msg_id_no >= g_msg_id_length
    /\ msg_id \in Ids \cup {<<>>}
    /\ outOfString => t_max_msg_id_no > g_msg_id_length

LEMMA IdsAreSeqs ==
  ASSUME NEW id \in Ids
  PROVE  /\ id \in Seq(0..Nine) /\ Len(id) = g_msg_id_length /\ id # <<>>
         /\ DOMAIN id = 1..g_msg_id_length /\ \A i \in 1..g_msg_id_length : id[i] \in 0..Nine
<1>1. g_msg_id_length \in Nat \ {0}
  BY IdAssumption
<1>2. id \in [1..g_msg_id_length -> 0..Nine]
  BY DEF Ids, Index
<1>3. id \in Seq(0..Nine) /\ Len(id) = g_msg_id_length
  BY <1>1, <1>2, FunctionIsSeq
<1>4. id # <<>>
  BY <1>1, <1>3
<1> QED BY <1>2, <1>3, <1>4

(* A set of numbers that are small enough has a greatest one.                *)
LEMMA GreatestNat ==
  ASSUME NEW n \in Nat, NEW T \in SUBSET (1..n), T # {}
  PROVE  /\ Max(T) \in T /\ \A i \in T : i <= Max(T)
<1> DEFINE U == {n - i : i \in T}
<1>0. \A i \in T : i \in 1..n /\ n - i \in Nat
  OBVIOUS
<1>1. U \in SUBSET Nat /\ U # {}
  BY <1>0
<1>2. PICK m \in U : \A k \in U : m <= k
  BY <1>1, LeastNat
<1>3. PICK x \in T : m = n - x
  BY <1>2
<1>4. ASSUME NEW y \in T PROVE x >= y
  <2>1. n - y \in U
    OBVIOUS
  <2>2. n - x <= n - y /\ x \in Nat /\ y \in Nat
    BY <1>0, <1>2, <1>3, <2>1
  <2> QED BY <2>2
<1> QED BY <1>0, <1>3, <1>4 DEF Max

LEMMA LastNotNine ==
  ASSUME IdInv, ~Exhausted, NotNine # {}
  PROVE  /\ t_msg_id_no \in Ids /\ Max(NotNine) \in 1..g_msg_id_length
         /\ t_msg_id_no[Max(NotNine)] \in 0..Nine - 1
         /\ \A j \in 1..g_msg_id_length : j > Max(NotNine) => t_msg_id_no[j] = Nine
<1>1. t_msg_id_no \in Ids
  BY DEF IdInv, Exhausted
<1>2. /\ NotNine \in SUBSET (1..g_msg_id_length)
      /\ \A j \in 1..g_msg_id_length : t_msg_id_no[j] \in 0..Nine
  BY <1>1, IdsAreSeqs DEF NotNine
<1>3. g_msg_id_length \in Nat /\ Nine \in Nat
  BY IdAssumption
<1>4. Max(NotNine) \in NotNine /\ \A i \in NotNine : i <= Max(NotNine)
  BY <1>2, <1>3, GreatestNat
<1>5. t_msg_id_no[Max(NotNine)] # Nine /\ Max(NotNine) \in 1..g_msg_id_length
  BY <1>2, <1>4 DEF NotNine
<1>6. t_msg_id_no[Max(NotNine)] \in 0..Nine - 1
  BY <1>2, <1>3, <1>5
<1>7. ASSUME NEW j \in 1..g_msg_id_length, j > Max(NotNine) PROVE t_msg_id_no[j] = Nine
  <2>1. j \notin NotNine
    BY <1>2, <1>3, <1>4, <1>5, <1>7
  <2>2. DOMAIN t_msg_id_no = 1..g_msg_id_length
    BY <1>1, IdsAreSeqs
  <2> QED BY <2>1, <2>2 DEF NotNine
<1> QED BY <1>1, <1>5, <1>6, <1>7

LEMMA NextIdInv ==
  ASSUME IdInv, GenMsgID
  PROVE  IdInv'
<1>0. g_msg_id_length \in Nat \ {0} /\ Nine \in Nat
  BY IdAssumption
<1>1. CASE Regenerate
  BY <1>0, <1>1 DEF IdInv, Regenerate
<1>2. CASE RandomFails
  BY <1>2 DEF IdInv, RandomFails
<1>3. CASE Increment
  <2>1. PICK i : i = Max(NotNine)
    OBVIOUS
  <2>2. /\ t_msg_id_no \in Ids /\ i \in 1..g_msg_id_length /\ t_msg_id_no[i] \in 0..Nine - 1
        /\ \A j \in 1..g_msg_id_length : t_msg_id_no[j] \in 0..Nine
    BY <1>3, <2>1, LastNotNine, IdsAreSeqs DEF Increment
  <2>3. Successor(t_msg_id_no, i) \in Ids
    BY <1>0, <2>2 DEF Successor, Ids, Index
  <2>4. t_msg_id_no' \in Ids /\ msg_id' = t_msg_id_no'
    BY <1>3, <2>1, <2>3 DEF Increment
  <2> QED BY <1>3, <2>2, <2>4, IdsAreSeqs DEF IdInv, Increment
<1>4. CASE Wrap
  <2>1. t_msg_id_no \in Ids /\ t_msg_id_no # [i \in 1..t_max_msg_id_no |-> Nine]
        /\ t_max_msg_id_no >= g_msg_id_length /\ t_max_msg_id_no \in Nat
    BY <1>4 DEF IdInv, Wrap, Exhausted
  <2>2. t_msg_id_no = [i \in 1..g_msg_id_length |-> Nine]
    BY <1>4, <2>1 DEF Wrap, NotNine, Ids, Index
  <2>3. t_max_msg_id_no > g_msg_id_length
    <3>1. t_max_msg_id_no # g_msg_id_length
      BY <2>1, <2>2
    <3> QED BY <1>0, <2>1, <3>1
  <2>4. t_msg_id_no' \in Ids /\ msg_id' \in Ids
    BY <1>0, <1>4 DEF Wrap, Ids, Index
  <2> QED BY <1>4, <2>1, <2>3, <2>4 DEF IdInv, Wrap
<1> QED BY <1>1, <1>2, <1>3, <1>4 DEF GenMsgID

LEMMA StepIdInv ==
  ASSUME IdInv, [Next]_vars
  PROVE  IdInv' /\ (GenMsgID \/ UNCHANGED idVars)
<1>1. GenMsgID \/ UNCHANGED idVars
  BY DEF Next, vars, DrawId, Send, Receive, DecodeStep, Finish, Skip, Take
<1>2. CASE UNCHANGED idVars
  BY <1>2 DEF IdInv, idVars
<1> QED BY <1>1, <1>2, NextIdInv

LEMMA InitIdInv == Init => IdInv
BY DEF Init, IdInit, IdInv

(* The inductive invariant of the ids.                                       *)
THEOREM IdInvHolds == Spec => []IdInv
BY InitIdInv, StepIdInv, PTL DEF Spec

(* The index of cc:33 leaves the string only after fresh digits have been    *)
(* drawn a second time, for ids of any length (msg_id_util.cc:16-41).        *)
THEOREM IndexStaysInString == Spec => []FirstRoundStaysInString
<1>1. IdInv => FirstRoundStaysInString
  BY DEF IdInv, FirstRoundStaysInString
<1> QED BY <1>1, IdInvHolds, PTL

(* Horner's scheme.                                                          *)
UpTo(f, id, n) == f = [i \in 0..n |-> IF i = 0 THEN 0 ELSE (Nine + 1) * f[i - 1] + id[i]]

LEMMA UpToExists ==
  ASSUME NEW id, NEW n \in Nat
  PROVE  \E f : UpTo(f, id, n)
<1> DEFINE T == {k \in Nat : \E f : UpTo(f, id, k)}
<1>1. 0 \in T
  <2>1. UpTo([i \in 0..0 |-> 0], id, 0)
    BY DEF UpTo
  <2> QED BY <2>1
<1>2. ASSUME NEW k \in Nat, k \in T PROVE k + 1 \in T
  <2>1. PICK f : UpTo(f, id, k)
    BY <1>2
  <2> DEFINE g == [i \in 0..k+1 |-> IF i <= k THEN f[i] ELSE (Nine + 1) * f[i - 1] + id[i]]
  <2>2. ASSUME NEW i \in 0..k+1
        PROVE  g[i] = IF i = 0 THEN 0 ELSE (Nine + 1) * g[i - 1] + id[i]
    <3>1. CASE i <= k
      <4>1. i \in 0..k /\ g[i] = f[i] /\ (i # 0 => g[i-1] = f[i-1])
        BY <3>1
      <4>2. f[i] = IF i = 0 THEN 0 ELSE (Nine + 1) * f[i - 1] + id[i]
        BY <2>1, <4>1, Zenon DEF UpTo
      <4> QED BY <4>1, <4>2, Zenon
    <3>2. CASE i = k + 1
      <4>1. i # 0 /\ g[i] = (Nine + 1) * f[i - 1] + id[i] /\ g[i-1] = f[i-1]
        BY <3>2
      <4> QED BY <4>1, Zenon
    <3> QED BY <3>1, <3>2
  <2>3. UpTo(g, id, k + 1)
    <3> HIDE DEF g
    <3>1. g = [i \in 0..k+1 |-> g[i]]
      BY DEF g
    <3> QED BY <2>2, <3>1, Zenon DEF UpTo
  <2> QED BY <2>3
<1> HIDE DEF T
<1>3. \A k \in Nat : k \in T
  BY <1>1, <1>2, Induction
<1> QED BY <1>3 DEF T

LEMMA ValueUpTo ==
  ASSUME NEW id \in Ids
  PROVE  \E f : UpTo(f, id, g_msg_id_length) /\ Value(id) = f[g_msg_id_length]
<1>1. Len(id) = g_msg_id_length /\ g_msg_id_length \in Nat
  BY IdsAreSeqs, IdAssumption
<1>2. \E f : f = [i \in 0..Len(id) |-> IF i = 0 THEN 0 ELSE (Nine + 1) * f[i - 1] + id[i]]
  BY <1>1, UpToExists DEF UpTo
<1> DEFINE f == CHOOSE f : f = [i \in 0..Len(id) |->
                                  IF i = 0 THEN 0 ELSE (Nine + 1) * f[i - 1] + id[i]]
<1>3. f = [i \in 0..Len(id) |-> IF i = 0 THEN 0 ELSE (Nine + 1) * f[i - 1] + id[i]]
  BY <1>2, Zenon
<1>4. Value(id) = f[Len(id)]
  BY Zenon DEF Value
<1> QED BY <1>1, <1>3, <1>4, Zenon DEF UpTo

LEMMA UpToStep ==
  ASSUME NEW id \in Ids, NEW f, UpTo(f, id, g_msg_id_length)
  PROVE  /\ f[0] = 0
         /\ \A i \in 0..g_msg_id_length - 1 : f[i + 1] = (Nine + 1) * f[i] + id[i + 1]
         /\ \A i \in 0..g_msg_id_length : f[i] \in Nat
<1>0. g_msg_id_length \in Nat /\ Nine \in Nat /\ \A i \in 1..g_msg_id_length : id[i] \in Nat
  BY IdsAreSeqs, IdAssumption
<1>1. f[0] = 0
  <2>1. 0 \in 0..g_msg_id_length
    BY <1>0
  <2> QED BY <2>1, Zenon DEF UpTo
<1>2. ASSUME NEW i \in 0..g_msg_id_length - 1
      PROVE  f[i + 1] = (Nine + 1) * f[i] + id[i + 1]
  <2>1. i + 1 \in 0..g_msg_id_length /\ i + 1 # 0 /\ (i + 1) - 1 = i
    BY <1>0
  <2> QED BY <2>1, Zenon DEF UpTo
<1> DEFINE T == {i \in Nat : i \in 0..g_msg_id_length => f[i] \in Nat}
<1>3. 0 \in T
  BY <1>1
<1>4. ASSUME NEW i \in Nat, i \in T PROVE i + 1 \in T
  <2> SUFFICES ASSUME i + 1 \in 0..g_msg_id_length PROVE f[i + 1] \in Nat
    OBVIOUS
  <2>1. i \in 0..g_msg_id_length - 1 /\ i + 1 \in 1..g_msg_id_length
    BY <1>0
  <2>2. f[i] \in Nat /\ id[i + 1] \in Nat
    BY <1>0, <1>4, <2>1
  <2> QED BY <1>0, <1>2, <2>1, <2>2
<1> HIDE DEF T
<1>5. \A i \in Nat : i \in T
  BY <1>3, <1>4, Induction
<1> QED BY <1>0, <1>1, <1>2, <1>5 DEF T

(* Counting up the last digit that is no nine, and setting those behind it   *)
(* to zero, counts up the number.                                            *)
LEMMA CarryCounts ==
  ASSUME NEW id \in Ids, NEW i \in 1..g_msg_id_length, id[i] \in 0..Nine - 1,
         \A j \in 1..g_msg_id_length : j > i => id[j] = Nine
  PROVE  Value(Successor(id, i)) = Value(id) + 1
<1>0. /\ g_msg_id_length \in Nat /\ Nine \in Nat
      /\ \A j \in 1..g_msg_id_length : id[j] \in 0..Nine
  BY IdsAreSeqs, IdAssumption
<1>1. PICK s \in Ids : s = Successor(id, i)
  <2>1. \A j \in 1..g_msg_id_length :
          (IF j < i THEN id[j] ELSE IF j = i THEN id[j] + 1 ELSE 0) \in 0..Nine
    BY <1>0
  <2> QED BY <2>1 DEF Successor, Ids, Index
<1>2. \A j \in 1..g_msg_id_length :
        s[j] = IF j < i THEN id[j] ELSE IF j = i THEN id[j] + 1 ELSE 0
  BY <1>1 DEF Successor, Index
<1>3. PICK f : UpTo(f, id, g_msg_id_length) /\ Value(id) = f[g_msg_id_length]
  BY ValueUpTo
<1>4. PICK g : UpTo(g, s, g_msg_id_length) /\ Value(s) = g[g_msg_id_length]
  BY ValueUpTo
<1>5. /\ f[0] = 0 /\ g[0] = 0
      /\ \A j \in 0..g_msg_id_length - 1 : f[j + 1] = (Nine + 1) * f[j] + id[j + 1]
      /\ \A j \in 0..g_msg_id_length - 1 : g[j + 1] = (Nine + 1) * g[j] + s[j + 1]
      /\ \A j \in 0..g_msg_id_length : f[j] \in Nat /\ g[j] \in Nat
  BY <1>3, <1>4, UpToStep
<1> DEFINE T == {j \in Nat : j \in 0..g_msg_id_length =>
                               g[j] = IF j < i THEN f[j] ELSE f[j] + 1}
<1>6. 0 \in T
  BY <1>5
<1>7. ASSUME NEW j \in Nat, j \in T PROVE j + 1 \in T
  <2> SUFFICES ASSUME j + 1 \in 0..g_msg_id_length
               PROVE  g[j + 1] = IF j + 1 < i THEN f[j + 1] ELSE f[j + 1] + 1
    OBVIOUS
  <2>1. j \in 0..g_msg_id_length - 1 /\ j \in 0..g_msg_id_length /\ j + 1 \in 1..g_msg_id_length
    BY <1>0
  <2>2. /\ f[j + 1] = (Nine + 1) * f[j] + id[j + 1] /\ g[j + 1] = (Nine + 1) * g[j] + s[j + 1]
        /\ f[j] \in Nat /\ g[j] \in Nat /\ id[j + 1] \in Nat
        /\ g[j] = IF j < i THEN f[j] ELSE f[j] + 1
    BY <1>0, <1>5, <1>7, <2>1
  <2>3. CASE j + 1 < i
    BY <1>2, <2>1, <2>2, <2>3
  <2>4. CASE j + 1 = i
    <3>1. s[j + 1] = id[j + 1] + 1 /\ g[j] = f[j] /\ ~(j + 1 < i)
      BY <1>2, <2>1, <2>2, <2>4
    <3> QED BY <1>0, <2>2, <3>1
  <2>5. CASE j + 1 > i
    <3>1. s[j + 1] = 0 /\ id[j + 1] = Nine /\ g[j] = f[j] + 1 /\ ~(j + 1 < i)
      BY <1>2, <2>1, <2>2, <2>5
    <3>2. (Nine + 1) * (f[j] + 1) = (Nine + 1) * f[j] + (Nine + 1)
      BY <1>0, <2>2
    <3> QED BY <1>0, <2>2, <3>1, <3>2
  <2> QED BY <2>3, <2>4, <2>5
<1> HIDE DEF T
<1>8. \A j \in Nat : j \in T
  BY <1>6, <1>7, Induction
<1>9. g[g_msg_id_length] = f[g_msg_id_length] + 1
  BY <1>0, <1>8 DEF T
<1> QED BY <1>1, <1>3, <1>4, <1>9

LEMMA ZerosAreZero == Value([j \in Index |-> 0]) = 0
<1>0. g_msg_id_length \in Nat /\ Nine \in Nat
  BY IdAssumption
<1>1. PICK s \in Ids : s = [j \in Index |-> 0]
  <2>1. 0 \in 0..Nine
    BY <1>0
  <2> QED BY <2>1 DEF Ids
<1>2. PICK f : UpTo(f, s, g_msg_id_length) /\ Value(s) = f[g_msg_id_length]
  BY ValueUpTo
<1>3. f[0] = 0 /\ \A j \in 0..g_msg_id_length - 1 : f[j + 1] = (Nine + 1) * f[j] + s[j + 1]
  BY <1>2, UpToStep
<1> DEFINE T == {j \in Nat : j \in 0..g_msg_id_length => f[j] = 0}
<1>4. 0 \in T
  BY <1>3
<1>5. ASSUME NEW j \in Nat, j \in T PROVE j + 1 \in T
  <2> SUFFICES ASSUME j + 1 \in 0..g_msg_id_length PROVE f[j + 1] = 0
    OBVIOUS
  <2>1. j \in 0..g_msg_id_length - 1 /\ j \in 0..g_msg_id_length /\ j + 1 \in 1..g_msg_id_length
    BY <1>0
  <2>2. s[j + 1] = 0 /\ f[j] = 0
    BY <1>1, <1>5, <2>1 DEF Index
  <2> QED BY <1>0, <1>3, <2>1, <2>2
<1> HIDE DEF T
<1>6. \A j \in Nat : j \in T
  BY <1>4, <1>5, Induction
<1> QED BY <1>0, <1>1, <1>2, <1>6 DEF T

(* Ids count up by one until fresh digits are drawn, carries included, for   *)
(* ids of any length (msg_id_util.cc:32-41): none of a round is drawn twice. *)
THEOREM IdsAreCounted == Spec => IdsCountUp
<1> DEFINE Counts ==
      t_max_msg_id_no' = t_max_msg_id_no
         => \/ t_msg_id_no' = t_msg_id_no
            \/ Value(t_msg_id_no') = Value(t_msg_id_no) + 1
            \/ NotNine = {} /\ Value(t_msg_id_no') = 0
<1>1. IdInv /\ [Next]_vars => [Counts]_idVars
  <2> SUFFICES ASSUME IdInv, GenMsgID PROVE Counts
    BY StepIdInv
  <2>1. CASE Regenerate
    BY <2>1, IdAssumption DEF Regenerate, IdInv
  <2>2. CASE RandomFails
    BY <2>2 DEF RandomFails
  <2>3. CASE Increment
    BY <2>3, LastNotNine, CarryCounts DEF Increment
  <2>4. CASE Wrap
    BY <2>4, ZerosAreZero DEF Wrap
  <2> QED BY <2>1, <2>2, <2>3, <2>4 DEF GenMsgID
<1> QED BY <1>1, IdInvHolds, PTL DEF Spec, IdsCountUp

-----------------------------------------------------------------------------
(* What encode writes                                                        *)

(* x stands in s behind the first o elements.                                *)
Holds(s, o, x) == \A i \in 1..Len(x) : s[o + i] = x[i]

LEMMA TwoParts ==
  ASSUME NEW S, NEW s \in Seq(S), NEW t \in Seq(S)
  PROVE  /\ s \o t \in Seq(S) /\ Len(s \o t) = Len(s) + Len(t)
         /\ Holds(s \o t, 0, s) /\ Holds(s \o t, Len(s), t)
<1>1. Len(s) \in Nat /\ Len(t) \in Nat
  BY LenProperties
<1>2. PICK u : u = s \o t
  OBVIOUS
<1>3. /\ u \in Seq(S) /\ Len(u) = Len(s) + Len(t)
      /\ \A i \in 1..Len(s) + Len(t) : u[i] = IF i <= Len(s) THEN s[i] ELSE t[i - Len(s)]
  BY <1>2, ConcatProperties
<1>4. Holds(u, 0, s)
  BY <1>1, <1>3 DEF Holds
<1>5. ASSUME NEW i \in 1..Len(t) PROVE u[Len(s) + i] = t[i]
  <2>1. /\ Len(s) + i \in 1..Len(s) + Len(t) /\ ~(Len(s) + i <= Len(s))
        /\ (Len(s) + i) - Len(s) = i
    BY <1>1
  <2> QED BY <1>3, <2>1
<1>6. Holds(u, Len(s), t)
  BY <1>5 DEF Holds
<1> QED BY <1>2, <1>3, <1>4, <1>6

LEMMA HoldsInside ==
  ASSUME NEW x, NEW y, NEW z, NEW o \in Nat, NEW p \in Nat, Len(x) \in Nat, Len(y) \in Nat,
         Holds(y, o, x), o + Len(x) <= Len(y), Holds(z, p, y)
  PROVE  Holds(z, p + o, x)
<1> SUFFICES ASSUME NEW i \in 1..Len(x) PROVE z[(p + o) + i] = x[i]
  BY DEF Holds
<1>1. o + i \in 1..Len(y) /\ p + (o + i) = (p + o) + i
  OBVIOUS
<1> QED BY <1>1 DEF Holds

LEMMA HoldsPart ==
  ASSUME NEW S, NEW s \in Seq(S), NEW x \in Seq(S), NEW o \in Nat, Holds(s, o, x),
         o + Len(x) <= Len(s)
  PROVE  SubSeq(s, o + 1, o + Len(x)) = x
<1>1. Len(s) \in Nat /\ Len(x) \in Nat
  BY LenProperties
<1>2. \A i \in o + 1..o + Len(x) : s[i] \in S
  BY <1>1, ElementOfSeq
<1>3. PICK u : u = SubSeq(s, o + 1, o + Len(x))
  OBVIOUS
<1>4. /\ u \in Seq(S)
      /\ Len(u) = IF o + 1 <= o + Len(x) THEN (o + Len(x)) - (o + 1) + 1 ELSE 0
      /\ \A i \in 1..(o + Len(x)) - (o + 1) + 1 : u[i] = s[(o + 1) + i - 1]
  BY <1>1, <1>2, <1>3, SubSeqProperties
<1>5. Len(u) = Len(x)
  BY <1>1, <1>4
<1>6. ASSUME NEW i \in 1..Len(x) PROVE u[i] = x[i]
  <2>1. i \in 1..(o + Len(x)) - (o + 1) + 1 /\ (o + 1) + i - 1 = o + i
    BY <1>1
  <2> QED BY <1>4, <2>1 DEF Holds
<1> QED BY <1>3, <1>4, <1>5, <1>6, SeqEqual

LEMMA TextIsBytes ==
  ASSUME NEW x \in Text
  PROVE  x \in Seq(Byte) /\ \A i \in 1..Len(x) : x[i] \in 1..255
<1>1. Len(x) \in Nat /\ \A i \in 1..Len(x) : x[i] \in 1..255
  BY LenProperties, ElementOfSeq DEF Text
<1>2. x \in [1..Len(x) -> 1..255]
  BY LenProperties DEF Text
<1>3. PICK n \in Nat : x \in [1..n -> 1..255]
  BY <1>1, <1>2, Zenon
<1>4. x \in [1..n -> Byte]
  BY <1>3 DEF Byte
<1>5. x \in Seq(Byte)
  BY <1>4, FunctionIsSeq
<1> QED BY <1>1, <1>5

LEMMA Int32Bytes ==
  ASSUME NEW n \in Nat, n <= MaxInt
  PROVE  /\ Int32(n) \in Seq(Byte) /\ Len(Int32(n)) = 4
         /\ Signed(Int32(n)[1]) * 2^24 + Int32(n)[2] * 2^16 + Int32(n)[3] * 2^8 + Int32(n)[4] = n
<1>1. n \div 2^24 \in 0..255 /\ n \div 2^24 < 128
  BY SMT DEF MaxInt
<1>2. (n \div 2^16) % 256 \in 0..255 /\ (n \div 2^8) % 256 \in 0..255 /\ n % 256 \in 0..255
  BY SMT
<1>3. (n \div 2^24) * 2^24 + ((n \div 2^16) % 256) * 2^16 + ((n \div 2^8) % 256) * 2^8
        + (n % 256) = n
  BY SMT
<1>4. PICK a, b, c, d : /\ a = n \div 2^24 /\ b = (n \div 2^16) % 256
                        /\ c = (n \div 2^8) % 256 /\ d = n % 256
  OBVIOUS
<1>5. Int32(n) = <<a, b, c, d>>
  BY <1>4, Zenon DEF Int32
<1>6. a \in Byte /\ b \in Byte /\ c \in Byte /\ d \in Byte
  BY <1>1, <1>2, <1>4, Zenon DEF Byte
<1>7. a * 2^24 + b * 2^16 + c * 2^8 + d = n
  BY <1>3, <1>4, Zenon
<1>8. <<a, b, c, d>> \in Seq(Byte) /\ Len(<<a, b, c, d>>) = 4
  BY <1>6
<1>9. PICK w : w = <<a, b, c, d>>
  OBVIOUS
<1>10. w[1] = a /\ w[2] = b /\ w[3] = c /\ w[4] = d
  BY <1>9
<1>11. Signed(a) = a
  BY <1>1, <1>4, Zenon DEF Signed
<1> QED BY <1>5, <1>7, <1>8, <1>9, <1>10, <1>11, Zenon

LEMMA CountedBytes ==
  ASSUME NEW x \in Seq(Byte), Len(x) <= MaxInt
  PROVE  /\ Counted(x) \in Seq(Byte) /\ Len(Counted(x)) = 4 + Len(x)
         /\ Holds(Counted(x), 0, Int32(Len(x))) /\ Holds(Counted(x), 4, x)
<1>1. Int32(Len(x)) \in Seq(Byte) /\ Len(Int32(Len(x))) = 4
  BY Int32Bytes, LenProperties
<1>2. PICK w : w = Int32(Len(x)) /\ w \in Seq(Byte) /\ Len(w) = 4
  BY <1>1
<1>3. /\ w \o x \in Seq(Byte) /\ Len(w \o x) = Len(w) + Len(x)
      /\ Holds(w \o x, 0, w) /\ Holds(w \o x, Len(w), x)
  BY <1>2, TwoParts
<1>4. Counted(x) = w \o x
  BY <1>2, Zenon DEF Counted
<1> QED BY <1>2, <1>3, <1>4, Zenon

(* e is nine sequences, one after the other, as cc:146-198 writes them.     *)
InLine(e, a, b, c, d, f, g, h, k, l) ==
    e = a \o b \o c \o d \o f \o g \o h \o k \o l

LEMMA NineParts ==
  ASSUME NEW S, NEW e, NEW a, NEW b, NEW c, NEW d, NEW f, NEW g, NEW h, NEW k, NEW l,
         InLine(e, a, b, c, d, f, g, h, k, l),
         a \in Seq(S), b \in Seq(S), c \in Seq(S), d \in Seq(S), f \in Seq(S), g \in Seq(S),
         h \in Seq(S), k \in Seq(S), l \in Seq(S)
  PROVE  /\ e \in Seq(S)
         /\ Len(e) = Len(a) + Len(b) + Len(c) + Len(d) + Len(f) + Len(g) + Len(h) + Len(k) + Len(l)
         /\ Holds(e, 0, a)
         /\ Holds(e, Len(a), b)
         /\ Holds(e, Len(a) + Len(b), c)
         /\ Holds(e, Len(a) + Len(b) + Len(c), d)
         /\ Holds(e, Len(a) + Len(b) + Len(c) + Len(d), f)
         /\ Holds(e, Len(a) + Len(b) + Len(c) + Len(d) + Len(f), g)
         /\ Holds(e, Len(a) + Len(b) + Len(c) + Len(d) + Len(f) + Len(g), h)
         /\ Holds(e, Len(a) + Len(b) + Len(c) + Len(d) + Len(f) + Len(g) + Len(h) + Len(k), l)
<1> DEFINE Follow(s, t, u) == /\ s \in Seq(S) /\ Len(s) = Len(t) + Len(u)
                              /\ Holds(s, 0, t) /\ Holds(s, Len(t), u)
<1>0. \A s, t \in Seq(S) : Follow(s \o t, s, t)
  BY TwoParts
<1>1. PICK p2 : p2 = a \o b /\ Follow(p2, a, b)
  BY <1>0
<1>2. PICK p3 : p3 = p2 \o c /\ Follow(p3, p2, c)
  BY <1>0, <1>1
<1>3. PICK p4 : p4 = p3 \o d /\ Follow(p4, p3, d)
  BY <1>0, <1>2
<1>4. PICK p5 : p5 = p4 \o f /\ Follow(p5, p4, f)
  BY <1>0, <1>3
<1>5. PICK p6 : p6 = p5 \o g /\ Follow(p6, p5, g)
  BY <1>0, <1>4
<1>6. PICK p7 : p7 = p6 \o h /\ Follow(p7, p6, h)
  BY <1>0, <1>5
<1>7. PICK p8 : p8 = p7 \o k /\ Follow(p8, p7, k)
  BY <1>0, <1>6
<1>8. e = p8 \o l /\ Follow(e, p8, l)
  <2>1. p3 = a \o b \o c
    BY <1>1, <1>2, Zenon
  <2>2. p4 = a \o b \o c \o d
    BY <1>3, <2>1, Zenon
  <2>3. p5 = a \o b \o c \o d \o f
    BY <1>4, <2>2, Zenon
  <2>4. p6 = a \o b \o c \o d \o f \o g
    BY <1>5, <2>3, Zenon
  <2>5. p7 = a \o b \o c \o d \o f \o g \o h
    BY <1>6, <2>4, Zenon
  <2>6. p8 = a \o b \o c \o d \o f \o g \o h \o k
    BY <1>7, <2>5, Zenon
  <2>7. e = p8 \o l
    BY <2>6, Zenon DEF InLine
  <2>8. PICK q : q = p8 \o l /\ Follow(q, p8, l)
    BY <1>0, <1>7
  <2>9. q = e
    BY <2>7, <2>8, Zenon
  <2> QED BY <2>8, <2>9
<1>9. /\ Len(a) \in Nat /\ Len(b) \in Nat /\ Len(c) \in Nat /\ Len(d) \in Nat /\ Len(f) \in Nat
      /\ Len(g) \in Nat /\ Len(h) \in Nat /\ Len(k) \in Nat /\ Len(l) \in Nat
      /\ Len(p2) \in Nat /\ Len(p3) \in Nat /\ Len(p4) \in Nat /\ Len(p5) \in Nat
      /\ Len(p6) \in Nat /\ Len(p7) \in Nat /\ Len(p8) \in Nat /\ Len(e) \in Nat
  BY <1>1, <1>2, <1>3, <1>4, <1>5, <1>6, <1>7, <1>8, LenProperties
<1>10. ASSUME NEW s, NEW t, NEW u, NEW v, Follow(s, t, u), Holds(v, 0, s),
              Len(s) \in Nat, Len(t) \in Nat, Len(u) \in Nat
       PROVE  Holds(v, 0, t) /\ Holds(v, Len(t), u)
  <2>1. /\ Holds(s, 0, t) /\ Holds(s, Len(t), u) /\ 0 + Len(t) <= Len(s)
        /\ Len(t) + Len(u) <= Len(s) /\ 0 \in Nat
    BY <1>10
  <2>2. Holds(v, 0 + 0, t) /\ Holds(v, 0 + Len(t), u)
    BY <1>10, <2>1, HoldsInside
  <2>3. 0 + 0 = 0 /\ 0 + Len(t) = Len(t)
    BY <1>10
  <2> QED BY <2>2, <2>3
<1>11. /\ Len(p2) = Len(a) + Len(b) /\ Len(p3) = Len(p2) + Len(c) /\ Len(p4) = Len(p3) + Len(d)
       /\ Len(p5) = Len(p4) + Len(f) /\ Len(p6) = Len(p5) + Len(g) /\ Len(p7) = Len(p6) + Len(h)
       /\ Len(p8) = Len(p7) + Len(k) /\ Len(e) = Len(p8) + Len(l)
  BY <1>1, <1>2, <1>3, <1>4, <1>5, <1>6, <1>7, <1>8
<1>12. e \in Seq(S) /\ Holds(e, 0, p8) /\ Holds(e, Len(p8), l)
  BY <1>8
<1> HIDE DEF Follow
<1>13. Holds(e, 0, p7)
  BY <1>7, <1>9, <1>10, <1>12
<1>14. Holds(e, 0, p6) /\ Holds(e, Len(p6), h)
  BY <1>6, <1>9, <1>10, <1>13
<1>15. Holds(e, 0, p5) /\ Holds(e, Len(p5), g)
  BY <1>5, <1>9, <1>10, <1>14
<1>16. Holds(e, 0, p4) /\ Holds(e, Len(p4), f)
  BY <1>4, <1>9, <1>10, <1>15
<1>17. Holds(e, 0, p3) /\ Holds(e, Len(p3), d)
  BY <1>3, <1>9, <1>10, <1>16
<1>18. Holds(e, 0, p2) /\ Holds(e, Len(p2), c)
  BY <1>2, <1>9, <1>10, <1>17
<1>19. Holds(e, 0, a) /\ Holds(e, Len(a), b)
  BY <1>1, <1>9, <1>10, <1>18
<1> QED BY <1>11, <1>12, <1>14, <1>15, <1>16, <1>17, <1>18, <1>19, Zenon

(* Behind the first i bytes of s stands the frame of m.                      *)
FrameAt(s, i, m) ==
    LET nameLenAt == i + 9 + Len(m.msg_id)
        errCodeAt == nameLenAt + 4 + Len(m.method_name)
        dataAt    == errCodeAt + 8 + Len(m.err_info)
    IN  /\ s[i + 1] = PB_START /\ s[i + PkLen(m)] = PB_END
        /\ Holds(s, i + 1, Int32(PkLen(m)))
        /\ Holds(s, i + 5, Int32(Len(m.msg_id)))
        /\ Holds(s, i + 9, m.msg_id)
        /\ Holds(s, nameLenAt, Int32(Len(m.method_name)))
        /\ Holds(s, nameLenAt + 4, m.method_name)
        /\ Holds(s, errCodeAt, Int32(m.err_code))
        /\ Holds(s, errCodeAt + 4, Int32(Len(m.err_info)))
        /\ Holds(s, errCodeAt + 8, m.err_info)
        /\ Holds(s, dataAt, m.pb_data)

LEMMA MessageParts ==
  ASSUME NEW m \in Messages
  PROVE  /\ m.msg_id \in Text /\ m.method_name \in Text /\ m.err_info \in Text
         /\ m.msg_id \in Seq(Byte) /\ m.method_name \in Seq(Byte) /\ m.err_info \in Seq(Byte)
         /\ m.pb_data \in Seq(Byte) /\ m.err_code \in Nat /\ m.err_code <= MaxInt
         /\ Len(m.msg_id) \in Nat /\ Len(m.method_name) \in Nat /\ Len(m.err_info) \in Nat
         /\ Len(m.pb_data) \in Nat
         /\ PkLen(m) = 26 + Len(m.msg_id) + Len(m.method_name) + Len(m.err_info) + Len(m.pb_data)
         /\ PkLen(m) \in Nat /\ PkLen(m) <= MaxInt
         /\ Len(m.msg_id) < IdArray /\ Len(m.method_name) < TextArray /\ Len(m.err_info) < TextArray
<1>0. \A x \in 0..MaxInt : x \in Nat /\ x <= MaxInt
  OBVIOUS
<1>1. /\ m \in [msg_id : Text, method_name : Text, err_code : Int, err_info : Text,
                pb_data : Seq(Byte)]
      /\ m.err_code \in Nat /\ m.err_code <= MaxInt /\ PkLen(m) <= MaxInt
      /\ Len(m.msg_id) < IdArray /\ Len(m.method_name) < TextArray /\ Len(m.err_info) < TextArray
  BY <1>0, Zenon DEF Messages, Readable
<1>2. /\ m.msg_id \in Text /\ m.method_name \in Text /\ m.err_info \in Text
      /\ m.pb_data \in Seq(Byte) /\ m.err_code \in Nat
  BY <1>1
<1>3. m.msg_id \in Seq(Byte) /\ m.method_name \in Seq(Byte) /\ m.err_info \in Seq(Byte)
  BY <1>2, TextIsBytes, Zenon
<1>4. /\ Len(m.msg_id) \in Nat /\ Len(m.method_name) \in Nat /\ Len(m.err_info) \in Nat
      /\ Len(m.pb_data) \in Nat
  BY <1>2, <1>3, LenProperties, Zenon
<1>5. PkLen(m) = 26 + Len(m.msg_id) + Len(m.method_name) + Len(m.err_info) + Len(m.pb_data)
  BY Zenon DEF PkLen
<1>6. PkLen(m) \in Nat
  <2>1. PICK p, q, r, s \in Nat : PkLen(m) = 26 + p + q + r + s
    BY <1>4, <1>5, Zenon
  <2> QED BY <2>1
<1> QED BY <1>1, <1>2, <1>3, <1>4, <1>5, <1>6, Zenon

LEMMA FrameLayout ==
  ASSUME NEW m \in Messages
  PROVE  /\ encodeTinyPB(m) \in Seq(Byte) /\ Len(encodeTinyPB(m)) = PkLen(m)
         /\ FrameAt(encodeTinyPB(m), 0, m)
<1> DEFINE e == encodeTinyPB(m)
<1>0. PICK L1, L2, L3, L4 \in Nat, n \in Nat :
        /\ L1 = Len(m.msg_id) /\ L2 = Len(m.method_name)
        /\ L3 = Len(m.err_info) /\ L4 = Len(m.pb_data) /\ n = PkLen(m)
  BY MessageParts, Zenon
<1>1. n = 26 + L1 + L2 + L3 + L4 /\ n <= MaxInt
  BY <1>0, MessageParts, Zenon
<1>2. L1 <= MaxInt /\ L2 <= MaxInt /\ L3 <= MaxInt
  BY <1>1, SMT DEF MaxInt
<1>3. PICK a : a = <<PB_START>> /\ a \in Seq(Byte) /\ Len(a) = 1 /\ a[1] = PB_START
  <2>1. PB_START \in Byte
    BY SMT DEF PB_START, Byte
  <2>2. \A x \in Byte : <<x>> \in Seq(Byte) /\ Len(<<x>>) = 1 /\ <<x>>[1] = x
    OBVIOUS
  <2> QED BY <2>1, <2>2, Zenon
<1>4. PICK l : l = <<PB_END>> /\ l \in Seq(Byte) /\ Len(l) = 1 /\ l[1] = PB_END
  <2>1. PB_END \in Byte
    BY SMT DEF PB_END, Byte
  <2>2. \A x \in Byte : <<x>> \in Seq(Byte) /\ Len(<<x>>) = 1 /\ <<x>>[1] = x
    OBVIOUS
  <2> QED BY <2>1, <2>2, Zenon
<1>5. PICK b : b = Int32(n) /\ b \in Seq(Byte) /\ Len(b) = 4
  BY <1>1, Int32Bytes
<1>6. PICK f : f = Int32(m.err_code) /\ f \in Seq(Byte) /\ Len(f) = 4
  BY MessageParts, Int32Bytes
<1>7. PICK k : k = Int32(1) /\ k \in Seq(Byte) /\ Len(k) = 4
  <2>1. 1 \in Nat /\ 1 <= MaxInt
    BY SMT DEF MaxInt
  <2> QED BY <2>1, Int32Bytes
<1>8. PICK c : /\ c = Counted(m.msg_id) /\ c \in Seq(Byte) /\ Len(c) = 4 + L1
               /\ Holds(c, 0, Int32(L1)) /\ Holds(c, 4, m.msg_id)
  BY <1>0, <1>2, MessageParts, CountedBytes, Zenon
<1>9. PICK d : /\ d = Counted(m.method_name) /\ d \in Seq(Byte) /\ Len(d) = 4 + L2
               /\ Holds(d, 0, Int32(L2)) /\ Holds(d, 4, m.method_name)
  BY <1>0, <1>2, MessageParts, CountedBytes, Zenon
<1>10. PICK g : /\ g = Counted(m.err_info) /\ g \in Seq(Byte) /\ Len(g) = 4 + L3
                /\ Holds(g, 0, Int32(L3)) /\ Holds(g, 4, m.err_info)
  BY <1>0, <1>2, MessageParts, CountedBytes, Zenon
<1>11. PICK h : h = m.pb_data /\ h \in Seq(Byte) /\ Len(h) = L4
  BY <1>0, MessageParts, Zenon
<1>12. InLine(e, a, b, c, d, f, g, h, k, l)
  BY <1>3, <1>4, <1>5, <1>6, <1>7, <1>8, <1>9, <1>10, <1>11, <1>0, Zenon DEF encodeTinyPB, InLine
<1> HIDE DEF e
<1>13. /\ e \in Seq(Byte)
       /\ Len(e) = Len(a) + Len(b) + Len(c) + Len(d) + Len(f) + Len(g) + Len(h) + Len(k) + Len(l)
       /\ Holds(e, 0, a)
       /\ Holds(e, Len(a), b)
       /\ Holds(e, Len(a) + Len(b), c)
       /\ Holds(e, Len(a) + Len(b) + Len(c), d)
       /\ Holds(e, Len(a) + Len(b) + Len(c) + Len(d), f)
       /\ Holds(e, Len(a) + Len(b) + Len(c) + Len(d) + Len(f), g)
       /\ Holds(e, Len(a) + Len(b) + Len(c) + Len(d) + Len(f) + Len(g), h)
       /\ Holds(e, Len(a) + Len(b) + Len(c) + Len(d) + Len(f) + Len(g) + Len(h) + Len(k), l)
  <2>1. /\ a \in Seq(Byte) /\ b \in Seq(Byte) /\ c \in Seq(Byte) /\ d \in Seq(Byte)
        /\ f \in Seq(Byte) /\ g \in Seq(Byte) /\ h \in Seq(Byte) /\ k \in Seq(Byte)
        /\ l \in Seq(Byte)
    BY <1>3, <1>4, <1>5, <1>6, <1>7, <1>8, <1>9, <1>10, <1>11, Zenon
  <2> QED BY <1>12, <2>1, NineParts, SMTT(60)
<1>14. /\ Len(a) = 1 /\ Len(a) + Len(b) = 5 /\ Len(a) + Len(b) + Len(c) = 9 + L1
       /\ Len(a) + Len(b) + Len(c) + Len(d) = 13 + L1 + L2
       /\ Len(a) + Len(b) + Len(c) + Len(d) + Len(f) = 17 + L1 + L2
       /\ Len(a) + Len(b) + Len(c) + Len(d) + Len(f) + Len(g) = 21 + L1 + L2 + L3
       /\ Len(a) + Len(b) + Len(c) + Len(d) + Len(f) + Len(g) + Len(h) + Len(k)
            = 25 + L1 + L2 + L3 + L4
       /\ Len(a) + Len(b) + Len(c) + Len(d) + Len(f) + Len(g) + Len(h) + Len(k) + Len(l)
            = 26 + L1 + L2 + L3 + L4
  <2>1. /\ Len(a) = 1 /\ Len(b) = 4 /\ Len(c) = 4 + L1 /\ Len(d) = 4 + L2 /\ Len(f) = 4
        /\ Len(g) = 4 + L3 /\ Len(h) = L4 /\ Len(k) = 4 /\ Len(l) = 1
    BY <1>3, <1>4, <1>5, <1>6, <1>7, <1>8, <1>9, <1>10, <1>11, Zenon
  <2> QED BY <2>1
<1>15. /\ Len(e) = n
       /\ Holds(e, 0, a) /\ Holds(e, 1, b) /\ Holds(e, 5, c) /\ Holds(e, 9 + L1, d)
       /\ Holds(e, 13 + L1 + L2, f) /\ Holds(e, 17 + L1 + L2, g)
       /\ Holds(e, 21 + L1 + L2 + L3, h) /\ Holds(e, 25 + L1 + L2 + L3 + L4, l)
  BY <1>1, <1>13, <1>14, Zenon
<1>16. e[1] = PB_START
  <2>1. 1 \in 1..Len(a) /\ 0 + 1 = 1
    BY <1>3
  <2>2. Holds(e, 0, a)
    BY <1>15, Zenon
  <2> QED BY <1>3, <2>1, <2>2, Zenon DEF Holds
<1>17. e[n] = PB_END
  <2>1. 1 \in 1..Len(l) /\ (25 + L1 + L2 + L3 + L4) + 1 = n
    BY <1>1, <1>4
  <2>2. e[(25 + L1 + L2 + L3 + L4) + 1] = l[1]
    BY <1>15, <2>1, Zenon DEF Holds
  <2> QED BY <1>4, <2>1, <2>2, Zenon
<1>18. ASSUME NEW o \in Nat, NEW x, NEW j \in Nat, Len(x) = 4 + j, Holds(e, o, x),
              NEW y, Len(y) = j, Holds(x, 0, Int32(j)), Holds(x, 4, y), j <= MaxInt
       PROVE  Holds(e, o, Int32(j)) /\ Holds(e, o + 4, y)
  <2>1. PICK w : w = Int32(j) /\ Len(w) = 4
    BY <1>18, Int32Bytes
  <2>2. Holds(e, o + 0, Int32(j))
    <3>1. /\ Holds(x, 0, w) /\ 0 + Len(w) <= Len(x) /\ Len(w) \in Nat /\ Len(x) \in Nat
          /\ 0 \in Nat
      BY <1>18, <2>1
    <3> QED BY <1>18, <2>1, <3>1, HoldsInside, Zenon
  <2>3. Holds(e, o + 4, y)
    BY <1>18, HoldsInside
  <2>4. o + 0 = o
    OBVIOUS
  <2> QED BY <2>2, <2>3, <2>4, Zenon
<1>19. Holds(e, 5, Int32(L1)) /\ Holds(e, 9, m.msg_id)
  <2>0. 5 \in Nat
    OBVIOUS
  <2>1. Holds(e, 5, Int32(L1)) /\ Holds(e, 5 + 4, m.msg_id)
    BY <1>0, <1>2, <1>8, <1>15, <1>18, <2>0, Zenon
  <2> QED BY <2>1
<1>20. Holds(e, 9 + L1, Int32(L2)) /\ Holds(e, 9 + L1 + 4, m.method_name)
  <2>1. 9 + L1 \in Nat
    BY <1>1
  <2> QED BY <1>0, <1>2, <1>9, <1>15, <1>18, <2>1, Zenon
<1>21. Holds(e, 17 + L1 + L2, Int32(L3)) /\ Holds(e, 17 + L1 + L2 + 4, m.err_info)
  <2>1. 17 + L1 + L2 \in Nat
    BY <1>1
  <2> QED BY <1>0, <1>2, <1>10, <1>15, <1>18, <2>1, Zenon
<1>22. /\ 0 + 1 = 1 /\ 0 + 5 = 5 /\ 0 + 9 = 9 /\ 0 + 9 + L1 = 9 + L1
       /\ 9 + L1 + 4 + L2 = 13 + L1 + L2
       /\ 13 + L1 + L2 + 4 = 17 + L1 + L2
       /\ 13 + L1 + L2 + 8 = 17 + L1 + L2 + 4
       /\ 13 + L1 + L2 + 8 + L3 = 21 + L1 + L2 + L3
       /\ 0 + n = n
  BY <1>1
<1>23. FrameAt(e, 0, m)
    <2>1. e[0 + 1] = PB_START /\ e[0 + n] = PB_END
    BY <1>16, <1>17, <1>22, Zenon
  <2>2. /\ Holds(e, 0 + 1, Int32(n)) /\ Holds(e, 0 + 5, Int32(L1))
        /\ Holds(e, 0 + 9, m.msg_id)
    BY <1>5, <1>15, <1>19, <1>22, Zenon
  <2>3. /\ Holds(e, 0 + 9 + L1, Int32(L2)) /\ Holds(e, 0 + 9 + L1 + 4, m.method_name)
    BY <1>20, <1>22, Zenon
  <2>4. /\ Holds(e, 0 + 9 + L1 + 4 + L2, Int32(m.err_code))
        /\ Holds(e, 0 + 9 + L1 + 4 + L2 + 4, Int32(L3))
        /\ Holds(e, 0 + 9 + L1 + 4 + L2 + 8, m.err_info)
        /\ Holds(e, 0 + 9 + L1 + 4 + L2 + 8 + L3, m.pb_data)
    BY <1>6, <1>11, <1>15, <1>21, <1>22, Zenon
  <2> QED BY <1>0, <2>1, <2>2, <2>3, <2>4, Zenon DEF FrameAt
<1> QED BY <1>0, <1>13, <1>15, <1>23, Zenon DEF e

-----------------------------------------------------------------------------
(* What decode reads                                                         *)

LEMMA FrameInside ==
  ASSUME NEW m \in Messages, NEW e \in Seq(Byte), Len(e) = PkLen(m), FrameAt(e, 0, m),
         NEW z, NEW i \in Nat, Holds(z, i, e)
  PROVE  FrameAt(z, i, m)
<1>0. PICK L1, L2, L3, L4 \in Nat, n \in Nat :
        /\ L1 = Len(m.msg_id) /\ L2 = Len(m.method_name)
        /\ L3 = Len(m.err_info) /\ L4 = Len(m.pb_data) /\ n = PkLen(m)
  BY MessageParts, Zenon
<1>1. n = 26 + L1 + L2 + L3 + L4 /\ n <= MaxInt
  BY <1>0, MessageParts, Zenon
<1>2. L1 <= MaxInt /\ L2 <= MaxInt /\ L3 <= MaxInt
  BY <1>1, SMT DEF MaxInt
<1>3. \A j \in 1..n : z[i + j] = e[j]
  BY <1>0, Zenon DEF Holds
<1>4. ASSUME NEW o \in Nat, NEW x, NEW k \in Nat, Len(x) = k, o + k <= n, Holds(e, o, x)
      PROVE  Holds(z, i + o, x)
  <2> SUFFICES ASSUME NEW j \in 1..k PROVE z[(i + o) + j] = x[j]
    BY <1>4 DEF Holds
  <2>1. o + j \in 1..n /\ i + (o + j) = (i + o) + j
    BY <1>4
  <2>2. e[o + j] = x[j]
    BY <1>4, Zenon DEF Holds
  <2>3. z[i + (o + j)] = e[o + j]
    BY <1>3, <2>1, Zenon
  <2> QED BY <2>1, <2>2, <2>3, Zenon
<1>5. ASSUME NEW o \in Nat, NEW k \in Nat, k <= MaxInt, o + 4 <= n, Holds(e, o, Int32(k))
      PROVE  Holds(z, i + o, Int32(k))
  <2>1. Len(Int32(k)) = 4 /\ 4 \in Nat
    BY <1>5, Int32Bytes
  <2> QED BY <1>4, <1>5, <2>1, Zenon
<1>6. /\ e[0 + 1] = PB_START /\ e[0 + n] = PB_END
      /\ Holds(e, 0 + 1, Int32(n)) /\ Holds(e, 0 + 5, Int32(L1)) /\ Holds(e, 0 + 9, m.msg_id)
      /\ Holds(e, 0 + 9 + L1, Int32(L2)) /\ Holds(e, 0 + 9 + L1 + 4, m.method_name)
      /\ Holds(e, 0 + 9 + L1 + 4 + L2, Int32(m.err_code))
      /\ Holds(e, 0 + 9 + L1 + 4 + L2 + 4, Int32(L3))
      /\ Holds(e, 0 + 9 + L1 + 4 + L2 + 8, m.err_info)
      /\ Holds(e, 0 + 9 + L1 + 4 + L2 + 8 + L3, m.pb_data)
  BY <1>0, Zenon DEF FrameAt
<1>7. /\ 0 + 1 = 1 /\ 0 + 5 = 5 /\ 0 + 9 = 9 /\ 0 + n = n
      /\ 0 + 9 + L1 = 9 + L1 /\ 0 + 9 + L1 + 4 = 13 + L1
      /\ 0 + 9 + L1 + 4 + L2 = 13 + L1 + L2 /\ 0 + 9 + L1 + 4 + L2 + 4 = 17 + L1 + L2
      /\ 0 + 9 + L1 + 4 + L2 + 8 = 21 + L1 + L2
      /\ 0 + 9 + L1 + 4 + L2 + 8 + L3 = 21 + L1 + L2 + L3
  OBVIOUS
<1>8. /\ e[1] = PB_START /\ e[n] = PB_END
      /\ Holds(e, 1, Int32(n)) /\ Holds(e, 5, Int32(L1)) /\ Holds(e, 9, m.msg_id)
      /\ Holds(e, 9 + L1, Int32(L2)) /\ Holds(e, 13 + L1, m.method_name)
      /\ Holds(e, 13 + L1 + L2, Int32(m.err_code)) /\ Holds(e, 17 + L1 + L2, Int32(L3))
      /\ Holds(e, 21 + L1 + L2, m.err_info) /\ Holds(e, 21 + L1 + L2 + L3, m.pb_data)
  BY <1>6, <1>7, Zenon
<1>9. /\ 1 \in Nat /\ 5 \in Nat /\ 9 \in Nat /\ 9 + L1 \in Nat /\ 13 + L1 \in Nat
      /\ 13 + L1 + L2 \in Nat /\ 17 + L1 + L2 \in Nat /\ 21 + L1 + L2 \in Nat
      /\ 21 + L1 + L2 + L3 \in Nat
      /\ 1 + 4 <= n /\ 5 + 4 <= n /\ 9 + L1 <= n /\ 9 + L1 + 4 <= n /\ 13 + L1 + L2 <= n
      /\ 13 + L1 + L2 + 4 <= n /\ 17 + L1 + L2 + 4 <= n /\ 21 + L1 + L2 + L3 <= n
      /\ 21 + L1 + L2 + L3 + L4 <= n
      /\ 1 \in 1..n /\ n \in 1..n
  BY <1>1
<1>10. z[i + 1] = PB_START /\ z[i + n] = PB_END
  BY <1>3, <1>8, <1>9, Zenon
<1>11. Holds(z, i + 1, Int32(n)) /\ Holds(z, i + 5, Int32(L1)) /\ Holds(z, i + (9 + L1), Int32(L2))
  BY <1>1, <1>2, <1>5, <1>8, <1>9, Zenon
<1>12. Holds(z, i + (13 + L1 + L2), Int32(m.err_code)) /\ Holds(z, i + (17 + L1 + L2), Int32(L3))
  BY <1>2, <1>5, <1>8, <1>9, MessageParts, Zenon
<1>13. /\ Holds(z, i + 9, m.msg_id) /\ Holds(z, i + (13 + L1), m.method_name)
       /\ Holds(z, i + (21 + L1 + L2), m.err_info)
       /\ Holds(z, i + (21 + L1 + L2 + L3), m.pb_data)
  BY <1>0, <1>4, <1>8, <1>9, Zenon
<1>14. /\ i + (9 + L1) = i + 9 + L1 /\ i + (13 + L1) = i + 9 + L1 + 4
       /\ i + (13 + L1 + L2) = i + 9 + L1 + 4 + L2
       /\ i + (17 + L1 + L2) = i + 9 + L1 + 4 + L2 + 4
       /\ i + (21 + L1 + L2) = i + 9 + L1 + 4 + L2 + 8
       /\ i + (21 + L1 + L2 + L3) = i + 9 + L1 + 4 + L2 + 8 + L3
  OBVIOUS
<1> QED BY <1>0, <1>10, <1>11, <1>12, <1>13, <1>14, Zenon DEF FrameAt

LEMMA MemoryHoldsBuffer ==
  ASSUME buffer \in Seq(Byte), slack \in Byte
  PROVE  /\ Memory \in Seq(Byte) /\ Size \in Nat /\ Len(Memory) = Size + 4
         /\ Holds(Memory, 0, buffer)
<1>1. PICK t : t = <<0, slack, slack, slack>> /\ t \in Seq(Byte) /\ Len(t) = 4
  <2>1. 0 \in Byte
    BY SMT DEF Byte
  <2>2. \A x \in Byte : <<0, x, x, x>> \in Seq(Byte) /\ Len(<<0, x, x, x>>) = 4
    BY <2>1
  <2> QED BY <2>2, Zenon
<1>2. Memory = buffer \o t
  BY <1>1, Zenon DEF Memory
<1>3. /\ buffer \o t \in Seq(Byte) /\ Len(buffer \o t) = Len(buffer) + Len(t)
      /\ Holds(buffer \o t, 0, buffer)
  BY <1>1, TwoParts
<1> QED BY <1>1, <1>2, <1>3, LenProperties, Zenon DEF Size

LEMMA ReadInt ==
  ASSUME NEW n \in Nat, n <= MaxInt, NEW k \in 0..Size-1, Holds(Memory, k, Int32(n))
  PROVE  Int32At[k] = n
<1>1. /\ Len(Int32(n)) = 4
      /\ Signed(Int32(n)[1]) * 2^24 + Int32(n)[2] * 2^16 + Int32(n)[3] * 2^8 + Int32(n)[4] = n
  BY Int32Bytes
<1>2. 1 \in 1..4 /\ 2 \in 1..4 /\ 3 \in 1..4 /\ 4 \in 1..4
  OBVIOUS
<1>3. /\ Memory[k + 1] = Int32(n)[1] /\ Memory[k + 2] = Int32(n)[2]
      /\ Memory[k + 3] = Int32(n)[3] /\ Memory[k + 4] = Int32(n)[4]
  BY <1>1, <1>2, Zenon DEF Holds
<1>4. Int32At[k] = Signed(Memory[k + 1]) * 2^24 + Memory[k + 2] * 2^16
                        + Memory[k + 3] * 2^8 + Memory[k + 4]
  BY Zenon DEF Int32At
<1> QED BY <1>1, <1>3, <1>4, Zenon

LEMMA ReadBytes ==
  ASSUME Memory \in Seq(Byte), NEW x \in Seq(Byte), NEW k \in Nat, Holds(Memory, k, x),
         k + Len(x) <= Len(Memory)
  PROVE  Bytes(k, Len(x)) = x
BY HoldsPart, Zenon DEF Bytes

LEMMA ReadText ==
  ASSUME Memory \in Seq(Byte), NEW x \in Text, NEW k \in Nat, Holds(Memory, k, x),
         k + Len(x) <= Len(Memory)
  PROVE  CString(k, Len(x)) = x
<1>1. x \in Seq(Byte) /\ \A j \in 1..Len(x) : x[j] \in 1..255
  BY TextIsBytes
<1>2. \A j \in 1..Len(x) : Memory[k + j] # 0
  <2>1. \A j \in 1..Len(x) : Memory[k + j] = x[j]
    BY Zenon DEF Holds
  <2>2. \A y \in 1..255 : y # 0
    BY SMT
  <2> QED BY <1>1, <2>1, <2>2, Zenon
<1>3. {j \in 1..Len(x) : Memory[k + j] = 0} = {}
  BY <1>2
<1>4. CString(k, Len(x)) = Bytes(k, Len(x))
  BY <1>3, Zenon DEF CString
<1> QED BY <1>1, <1>4, ReadBytes, Zenon

(* A frame in the buffer is found, and read as the message it was made of.   *)
LEMMA FrameIsRead ==
  ASSUME NEW m \in Messages, buffer \in Seq(Byte), slack \in Byte, NEW i \in Nat,
         FrameAt(Memory, i, m), i + PkLen(m) <= Size
  PROVE  /\ i \in 0..Size-1 /\ LooksLikeFrame(i) /\ WellFormed(i) /\ ~Overrun(i)
         /\ EndOf(i) = i + PkLen(m) - 1 /\ DataLen(i) = Len(m.pb_data)
         /\ MessageAt(i) = m
<1>0. PICK L1, L2, L3, L4 \in Nat, n \in Nat :
        /\ L1 = Len(m.msg_id) /\ L2 = Len(m.method_name)
        /\ L3 = Len(m.err_info) /\ L4 = Len(m.pb_data) /\ n = PkLen(m)
  BY MessageParts, Zenon
<1>1. n = 26 + L1 + L2 + L3 + L4 /\ n <= MaxInt
  BY <1>0, MessageParts, Zenon
<1>2. L1 <= MaxInt /\ L2 <= MaxInt /\ L3 <= MaxInt
  BY <1>1, SMT DEF MaxInt
<1>3. PICK sz \in Nat : sz = Size /\ i + n <= sz
  BY <1>0, MemoryHoldsBuffer, Zenon
<1>4. Memory \in Seq(Byte) /\ Len(Memory) = sz + 4
  BY <1>3, MemoryHoldsBuffer, Zenon
<1>5. /\ Memory[i + 1] = PB_START /\ Memory[i + n] = PB_END
      /\ Holds(Memory, i + 1, Int32(n)) /\ Holds(Memory, i + 5, Int32(L1))
      /\ Holds(Memory, i + 9, m.msg_id)
      /\ Holds(Memory, i + 9 + L1, Int32(L2)) /\ Holds(Memory, i + 9 + L1 + 4, m.method_name)
      /\ Holds(Memory, i + 9 + L1 + 4 + L2, Int32(m.err_code))
      /\ Holds(Memory, i + 9 + L1 + 4 + L2 + 4, Int32(L3))
      /\ Holds(Memory, i + 9 + L1 + 4 + L2 + 8, m.err_info)
      /\ Holds(Memory, i + 9 + L1 + 4 + L2 + 8 + L3, m.pb_data)
  BY <1>0, Zenon DEF FrameAt
<1>6. /\ i \in 0..sz-1 /\ i + 1 \in 0..sz-1 /\ i + 5 \in 0..sz-1 /\ i + 9 + L1 \in 0..sz-1
      /\ i + 9 + L1 + 4 + L2 \in 0..sz-1 /\ i + 9 + L1 + 4 + L2 + 4 \in 0..sz-1
      /\ i + n - 1 \in 0..sz-1 /\ (i + n - 1) + 1 = i + n /\ i + 1 < sz
  BY <1>1, <1>3
<1>7. Int32At[i + 1] = n /\ Int32At[i + 5] = L1 /\ Int32At[i + 9 + L1] = L2
  BY <1>1, <1>2, <1>3, <1>5, <1>6, ReadInt, Zenon
<1>8. Int32At[i + 9 + L1 + 4 + L2] = m.err_code /\ Int32At[i + 9 + L1 + 4 + L2 + 4] = L3
  BY <1>2, <1>3, <1>5, <1>6, ReadInt, MessageParts, Zenon
<1>9. EndOf(i) = i + n - 1
  BY <1>7, Zenon DEF EndOf
<1>10. LooksLikeFrame(i)
  <2>1. At[i] = PB_START
    BY <1>3, <1>5, <1>6, Zenon DEF At
  <2>2. At[i + n - 1] = PB_END
    BY <1>3, <1>5, <1>6, Zenon DEF At
  <2> QED BY <1>3, <1>6, <1>9, <2>1, <2>2, Zenon DEF LooksLikeFrame
<1>11. /\ i + 1 + 4 = i + 5 /\ i + 5 + 4 = i + 9 /\ i + 5 + 4 + L1 = i + 9 + L1
       /\ i + 9 + L1 + 4 + L2 + 4 + 4 = i + 9 + L1 + 4 + L2 + 8
       /\ (i + n - 1) - (i + 9 + L1 + 4 + L2 + 8 + L3) - 4 = L4
       /\ i + 5 < i + n - 1 /\ i + 9 + L1 < i + n - 1 /\ i + 9 + L1 + 4 + L2 < i + n - 1
       /\ i + 9 + L1 + 4 + L2 + 4 < i + n - 1
  BY <1>1
<1>12. IdLenAt(i) = i + 5
  BY <1>11, Zenon DEF IdLenAt, IntSize
<1>13. NameLenAt(i) = i + 9 + L1
  BY <1>7, <1>11, <1>12, Zenon DEF NameLenAt, IntSize
<1>14. ErrCodeAt(i) = i + 9 + L1 + 4 + L2
  BY <1>7, <1>13, Zenon DEF ErrCodeAt, IntSize
<1>15. InfoLenAt(i) = i + 9 + L1 + 4 + L2 + 4
  BY <1>14, Zenon DEF InfoLenAt, IntSize
<1>16. DataAt(i) = i + 9 + L1 + 4 + L2 + 8 + L3
  BY <1>8, <1>11, <1>15, Zenon DEF DataAt, IntSize
<1>17. DataLen(i) = L4
  BY <1>9, <1>11, <1>16, Zenon DEF DataLen, IntSize
<1>18. WellFormed(i)
  BY <1>9, <1>11, <1>12, <1>13, <1>14, <1>15, Zenon DEF WellFormed
<1>19. /\ i + 9 \in Nat /\ i + 9 + L1 + 4 \in Nat /\ i + 9 + L1 + 4 + L2 + 8 \in Nat
       /\ i + 9 + L1 + 4 + L2 + 8 + L3 \in Nat
       /\ i + 9 + L1 <= sz + 4 /\ i + 9 + L1 + 4 + L2 <= sz + 4
       /\ i + 9 + L1 + 4 + L2 + 8 + L3 <= sz + 4 /\ i + 9 + L1 + 4 + L2 + 8 + L3 + L4 <= sz + 4
  BY <1>1, <1>3
<1>20. MessageAt(i) = m
  <2>1. CString(IdLenAt(i) + IntSize, Int32At[IdLenAt(i)]) = m.msg_id
    <3>1. CString(i + 9, L1) = m.msg_id
      <4>1. PICK x \in Text, k \in Nat : x = m.msg_id /\ k = i + 9
        BY <1>19, MessageParts, Zenon
      <4>2. Len(x) = L1 /\ Holds(Memory, k, x) /\ k + Len(x) <= Len(Memory)
        BY <1>0, <1>4, <1>5, <1>19, <4>1, Zenon
      <4>3. CString(k, Len(x)) = x
        BY <1>4, <4>2, ReadText, Zenon
      <4> QED BY <4>1, <4>2, <4>3, Zenon
    <3> QED BY <1>7, <1>11, <1>12, <3>1, Zenon DEF IntSize
  <2>2. CString(NameLenAt(i) + IntSize, Int32At[NameLenAt(i)]) = m.method_name
    <3>1. CString(i + 9 + L1 + 4, L2) = m.method_name
      <4>1. PICK x \in Text, k \in Nat : x = m.method_name /\ k = i + 9 + L1 + 4
        BY <1>19, MessageParts, Zenon
      <4>2. Len(x) = L2 /\ Holds(Memory, k, x) /\ k + Len(x) <= Len(Memory)
        BY <1>0, <1>4, <1>5, <1>19, <4>1, Zenon
      <4>3. CString(k, Len(x)) = x
        BY <1>4, <4>2, ReadText, Zenon
      <4> QED BY <4>1, <4>2, <4>3, Zenon
    <3> QED BY <1>7, <1>13, <3>1, Zenon DEF IntSize
  <2>3. CString(InfoLenAt(i) + IntSize, Int32At[InfoLenAt(i)]) = m.err_info
    <3>1. CString(i + 9 + L1 + 4 + L2 + 8, L3) = m.err_info
      <4>1. PICK x \in Text, k \in Nat : x = m.err_info /\ k = i + 9 + L1 + 4 + L2 + 8
        BY <1>19, MessageParts, Zenon
      <4>2. Len(x) = L3 /\ Holds(Memory, k, x) /\ k + Len(x) <= Len(Memory)
        BY <1>0, <1>4, <1>5, <1>19, <4>1, Zenon
      <4>3. CString(k, Len(x)) = x
        BY <1>4, <4>2, ReadText, Zenon
      <4> QED BY <4>1, <4>2, <4>3, Zenon
    <3> QED BY <1>8, <1>11, <1>15, <3>1, Zenon DEF IntSize
  <2>4. Int32At[ErrCodeAt(i)] = m.err_code
    BY <1>8, <1>14, Zenon
  <2>5. Bytes(DataAt(i), DataLen(i)) = m.pb_data
    <3>1. m.pb_data \in Seq(Byte)
      BY MessageParts, Zenon
    <3>2. Bytes(i + 9 + L1 + 4 + L2 + 8 + L3, L4) = m.pb_data
      <4>1. PICK x \in Seq(Byte), k \in Nat : x = m.pb_data /\ k = i + 9 + L1 + 4 + L2 + 8 + L3
        BY <1>19, <3>1, Zenon
      <4>2. Len(x) = L4 /\ Holds(Memory, k, x) /\ k + Len(x) <= Len(Memory)
        BY <1>0, <1>4, <1>5, <1>19, <4>1, Zenon
      <4>3. Bytes(k, Len(x)) = x
        BY <1>4, <4>2, ReadBytes, Zenon
      <4> QED BY <4>1, <4>2, <4>3, Zenon
    <3> QED BY <1>16, <1>17, <3>2, Zenon
  <2>6. m \in [msg_id : Text, method_name : Text, err_code : Int, err_info : Text,
               pb_data : Seq(Byte)]
    BY Zenon DEF Messages, Readable
  <2>7. m = [msg_id |-> m.msg_id, method_name |-> m.method_name, err_code |-> m.err_code,
             err_info |-> m.err_info, pb_data |-> m.pb_data]
    BY <2>6
  <2> QED BY <2>1, <2>2, <2>3, <2>4, <2>5, <2>7, Zenon DEF MessageAt
<1>21. L1 \in 0..IdArray-1 /\ L2 \in 0..TextArray-1 /\ L3 \in 0..TextArray-1
  <2>1. L1 < IdArray /\ L2 < TextArray /\ L3 < TextArray
    BY <1>0, MessageParts, Zenon
  <2> QED BY <2>1, SMT DEF IdArray, TextArray
<1>22. ~Overrun(i)
  BY <1>7, <1>8, <1>12, <1>13, <1>15, <1>21, Zenon DEF Overrun
<1> QED BY <1>0, <1>3, <1>6, <1>9, <1>10, <1>17, <1>18, <1>20, <1>22, Zenon

-----------------------------------------------------------------------------
(* Streams                                                                   *)

Frames(ms) == [k \in DOMAIN ms |-> encodeTinyPB(ms[k])]

LEMMA FramesType ==
  ASSUME NEW ms \in Seq(Messages)
  PROVE  /\ Frames(ms) \in Seq(Seq(Byte)) /\ Len(Frames(ms)) = Len(ms)
         /\ \A k \in 1..Len(ms) : Frames(ms)[k] = encodeTinyPB(ms[k])
<1>1. PICK n \in Nat : n = Len(ms) /\ DOMAIN ms = 1..n /\ \A k \in 1..n : ms[k] \in Messages
  BY LenProperties, ElementOfSeq
<1>2. \A k \in 1..n : encodeTinyPB(ms[k]) \in Seq(Byte)
  BY <1>1, FrameLayout, Zenon
<1>3. Frames(ms) = [k \in 1..n |-> encodeTinyPB(ms[k])]
  BY <1>1, Zenon DEF Frames
<1>4. Frames(ms) \in [1..n -> Seq(Byte)]
  BY <1>2, <1>3
<1>5. Frames(ms) \in Seq(Seq(Byte)) /\ Len(Frames(ms)) = n
  BY <1>4, FunctionIsSeq
<1> QED BY <1>1, <1>3, <1>5, Zenon

LEMMA EncodeIsFlat ==
  ASSUME NEW ms \in Seq(Messages)
  PROVE  encode(ms) = FlattenSeq(Frames(ms)) /\ encode(ms) \in Seq(Byte)
<1>1. encode(ms) = FlattenSeq(Frames(ms))
  BY Zenon DEF encode, Frames
<1> QED BY <1>1, FramesType, FlattenType

LEMMA EncodeEmpty == encode(<<>>) = <<>>
<1>1. Frames(<<>>) = <<>>
  <2>1. <<>> \in Seq(Messages) /\ Len(<<>>) = 0
    BY EmptySeq
  <2>2. Frames(<<>>) \in Seq(Seq(Byte)) /\ Len(Frames(<<>>)) = 0
    BY <2>1, FramesType
  <2> QED BY <2>2, EmptySeq
<1>2. <<>> \in Seq(Messages)
  BY EmptySeq
<1> QED BY <1>1, <1>2, EncodeIsFlat, FlattenEmpty, Zenon

LEMMA EncodeConcat ==
  ASSUME NEW s \in Seq(Messages), NEW t \in Seq(Messages)
  PROVE  encode(s \o t) = encode(s) \o encode(t)
<1>1. PICK u \in Seq(Messages) : u = s \o t
  BY ConcatProperties
<1>2. /\ Len(s) \in Nat /\ Len(t) \in Nat /\ Len(u) = Len(s) + Len(t)
      /\ \A i \in 1..Len(s) + Len(t) : u[i] = IF i <= Len(s) THEN s[i] ELSE t[i - Len(s)]
  BY <1>1, ConcatProperties, LenProperties
<1>3. PICK fs \in Seq(Seq(Byte)) : /\ fs = Frames(s) /\ Len(fs) = Len(s)
                                   /\ \A k \in 1..Len(s) : fs[k] = encodeTinyPB(s[k])
  BY FramesType
<1>4. PICK ft \in Seq(Seq(Byte)) : /\ ft = Frames(t) /\ Len(ft) = Len(t)
                                   /\ \A k \in 1..Len(t) : ft[k] = encodeTinyPB(t[k])
  BY FramesType
<1>5. PICK fu \in Seq(Seq(Byte)) : /\ fu = Frames(u) /\ Len(fu) = Len(u)
                                   /\ \A k \in 1..Len(u) : fu[k] = encodeTinyPB(u[k])
  BY FramesType
<1>6. PICK g \in Seq(Seq(Byte)) :
        /\ g = fs \o ft /\ Len(g) = Len(fs) + Len(ft)
        /\ \A i \in 1..Len(fs) + Len(ft) : g[i] = IF i <= Len(fs) THEN fs[i] ELSE ft[i - Len(fs)]
  <2>1. PICK g : g = fs \o ft
    OBVIOUS
  <2>2. /\ g \in Seq(Seq(Byte)) /\ Len(g) = Len(fs) + Len(ft)
        /\ \A i \in 1..Len(fs) + Len(ft) : g[i] = IF i <= Len(fs) THEN fs[i] ELSE ft[i - Len(fs)]
    BY <2>1, ConcatProperties
  <2> QED BY <2>1, <2>2
<1>7. ASSUME NEW i \in 1..Len(s) + Len(t) PROVE fu[i] = g[i]
  <2>1. i \in 1..Len(s) \/ (i - Len(s) \in 1..Len(t) /\ ~(i <= Len(s)))
    BY <1>2
  <2>2. fu[i] = encodeTinyPB(u[i])
    BY <1>2, <1>5, Zenon
  <2>3. CASE i \in 1..Len(s)
    <3>1. u[i] = s[i] /\ g[i] = fs[i] /\ fs[i] = encodeTinyPB(s[i])
      BY <1>2, <1>3, <1>4, <1>6, <2>3
    <3> QED BY <2>2, <3>1, Zenon
  <2>4. CASE i - Len(s) \in 1..Len(t) /\ ~(i <= Len(s))
    <3>1. u[i] = t[i - Len(s)] /\ g[i] = ft[i - Len(s)]
      BY <1>2, <1>3, <1>4, <1>6, <2>4
    <3>2. ft[i - Len(s)] = encodeTinyPB(t[i - Len(s)])
      BY <1>4, <2>4, Zenon
    <3> QED BY <2>2, <3>1, <3>2, Zenon
  <2> QED BY <2>1, <2>3, <2>4
<1>8. fu = fs \o ft
  <2>1. Len(fu) = Len(g) /\ \A i \in 1..Len(fu) : fu[i] = g[i]
    BY <1>2, <1>3, <1>4, <1>5, <1>6, <1>7
  <2>2. fu = g
    BY <2>1, SeqEqual
  <2> QED BY <1>6, <2>2
<1>9. FlattenSeq(fs \o ft) = FlattenSeq(fs) \o FlattenSeq(ft)
  BY FlattenConcat
<1> QED BY <1>1, <1>3, <1>4, <1>5, <1>8, <1>9, EncodeIsFlat, Zenon

LEMMA OneElement ==
  ASSUME NEW S, NEW e \in S
  PROVE  <<e>> \in Seq(S) /\ Len(<<e>>) = 1 /\ <<e>>[1] = e
OBVIOUS

LEMMA EncodeOne ==
  ASSUME NEW m \in Messages
  PROVE  <<m>> \in Seq(Messages) /\ encode(<<m>>) = encodeTinyPB(m)
<1>1. PICK w \in Seq(Messages) : w = <<m>> /\ Len(w) = 1 /\ w[1] = m
  BY OneElement, Zenon
<1>2. 1 \in 1..1
  OBVIOUS
<1>3. Len(Frames(w)) = 1 /\ Frames(w)[1] = encodeTinyPB(m)
  BY <1>1, <1>2, FramesType, Zenon
<1>4. FlattenSeq(Frames(w)) = encodeTinyPB(m)
  BY <1>3, FlattenOne, Zenon
<1> QED BY <1>1, <1>4, EncodeIsFlat, Zenon

(* The frames of s, then that of m, then those of t.                         *)
LEMMA EncodeSplit ==
  ASSUME NEW s \in Seq(Messages), NEW m \in Messages, NEW t \in Seq(Messages)
  PROVE  /\ Append(s, m) \in Seq(Messages) /\ <<m>> \o t \in Seq(Messages)
         /\ s \o (<<m>> \o t) = Append(s, m) \o t
         /\ Len(encode(s)) \in Nat /\ Len(encode(Append(s, m))) = Len(encode(s)) + PkLen(m)
         /\ Len(encode(s)) + PkLen(m) <= Len(encode(s \o (<<m>> \o t)))
         /\ Holds(encode(s \o (<<m>> \o t)), Len(encode(s)), encodeTinyPB(m))
<1>1. PICK w \in Seq(Messages) : w = <<m>> /\ encode(w) = encodeTinyPB(m)
  BY EncodeOne, Zenon
<1>2. PICK a \in Seq(Messages) : a = Append(s, m) /\ a = s \o w
  BY <1>1, AppendIsConcat, AppendProperties
<1>3. PICK r \in Seq(Messages) : r = w \o t
  BY ConcatProperties
<1>4. s \o r = a \o t
  BY <1>2, <1>3, ConcatAssociative
<1>5. PICK es \in Seq(Byte) : es = encode(s)
  BY EncodeIsFlat, Zenon
<1>6. PICK et \in Seq(Byte) : et = encode(t)
  BY EncodeIsFlat, Zenon
<1>7. PICK em \in Seq(Byte) : em = encodeTinyPB(m) /\ Len(em) = PkLen(m)
  BY FrameLayout, Zenon
<1>8. PICK ea \in Seq(Byte) : /\ ea = encode(a) /\ ea = es \o em
                              /\ Len(ea) = Len(es) + Len(em) /\ Holds(ea, Len(es), em)
  <2>1. encode(a) = es \o em
    BY <1>1, <1>2, <1>5, <1>7, EncodeConcat, Zenon
  <2> QED BY <2>1, TwoParts
<1>9. PICK e \in Seq(Byte) : /\ e = encode(a \o t) /\ e = ea \o et
                             /\ Len(e) = Len(ea) + Len(et) /\ Holds(e, 0, ea)
  <2>1. encode(a \o t) = ea \o et
    BY <1>6, <1>8, EncodeConcat, Zenon
  <2> QED BY <2>1, TwoParts
<1>10. Len(es) \in Nat /\ Len(em) \in Nat /\ Len(et) \in Nat /\ Len(ea) \in Nat
  BY LenProperties
<1>11. Holds(e, Len(es), em)
  <2>1. 0 \in Nat /\ Len(es) + Len(em) <= Len(ea) /\ 0 + Len(es) = Len(es)
    BY <1>8, <1>10
  <2>2. Holds(e, 0 + Len(es), em)
    BY <1>8, <1>9, <1>10, <2>1, HoldsInside, Zenon
  <2> QED BY <2>1, <2>2, Zenon
<1>12. Len(es) + Len(em) <= Len(e)
  BY <1>8, <1>9, <1>10
<1> QED BY <1>1, <1>2, <1>3, <1>4, <1>5, <1>7, <1>8, <1>9, <1>10, <1>11, <1>12, Zenon

-----------------------------------------------------------------------------
(* Types                                                                     *)

LEMMA LeastOf ==
  ASSUME NEW T \in SUBSET Nat, T # {}
  PROVE  Min(T) \in T /\ \A n \in T : Min(T) <= n
<1>1. \E m \in T : \A n \in T : m <= n
  BY LeastNat
<1> QED BY <1>1 DEF Min

LEMMA IntsRead ==
  ASSUME buffer \in Seq(Byte), slack \in Byte, NEW k \in 0..Size-1
  PROVE  Int32At[k] \in Int
<1>1. PICK sz \in Nat : sz = Size /\ Len(Memory) = sz + 4 /\ Memory \in Seq(Byte)
  BY MemoryHoldsBuffer, Zenon
<1>2. PICK mem \in Seq(Byte) : mem = Memory /\ Len(mem) = sz + 4
  BY <1>1
<1>3. k + 1 \in 1..sz + 4 /\ k + 2 \in 1..sz + 4 /\ k + 3 \in 1..sz + 4 /\ k + 4 \in 1..sz + 4
  BY <1>1
<1>4. mem[k + 1] \in Byte /\ mem[k + 2] \in Byte /\ mem[k + 3] \in Byte /\ mem[k + 4] \in Byte
  BY <1>2, <1>3, ElementOfSeq, Zenon
<1>5. PICK a, b, c, d \in Byte : /\ a = Memory[k + 1] /\ b = Memory[k + 2]
                                 /\ c = Memory[k + 3] /\ d = Memory[k + 4]
  BY <1>2, <1>4, Zenon
<1>6. \A x \in Byte : x \in Int /\ Signed(x) \in Int
  BY SMT DEF Byte, Signed
<1>7. PICK p, q, r, s \in Int : p = Signed(a) /\ q = b /\ r = c /\ s = d
  BY <1>6
<1>8. p * 2^24 + q * 2^16 + r * 2^8 + s \in Int
  BY SMT
<1>9. Int32At[k] = p * 2^24 + q * 2^16 + r * 2^8 + s
  BY <1>5, <1>7, Zenon DEF Int32At
<1> QED BY <1>8, <1>9, Zenon

LEMMA BytesRead ==
  ASSUME Memory \in Seq(Byte), NEW k \in Nat, NEW n \in Nat, k + n <= Len(Memory),
         NEW S, \A j \in 1..n : Memory[k + j] \in S
  PROVE  Bytes(k, n) \in Seq(S)
<1>1. ASSUME NEW i \in k + 1..k + n PROVE Memory[i] \in S
  <2>1. i - k \in 1..n /\ k + (i - k) = i
    OBVIOUS
  <2> QED BY <2>1
<1>2. k + 1 \in Int /\ k + n \in Int
  OBVIOUS
<1>3. SubSeq(Memory, k + 1, k + n) \in Seq(S)
  BY <1>1, <1>2, SubSeqProperties
<1> QED BY <1>3, Zenon DEF Bytes

LEMMA TextRead ==
  ASSUME Memory \in Seq(Byte), NEW k \in Nat, NEW n \in Nat, k + n <= Len(Memory)
  PROVE  CString(k, n) \in Text
<1> DEFINE zeros == {x \in 1..n : Memory[k + x] = 0}
<1>1. \A j \in 1..n : Memory[k + j] \in Byte
  <2>1. PICK mem \in Seq(Byte) : mem = Memory
    OBVIOUS
  <2>2. Len(mem) \in Nat /\ k + n <= Len(mem)
    BY <2>1, LenProperties
  <2>3. \A j \in 1..n : k + j \in 1..Len(mem)
    BY <2>2
  <2> QED BY <2>1, <2>3, ElementOfSeq, Zenon
<1>2. \A x \in Byte : x # 0 => x \in 1..255
  BY SMT DEF Byte
<1>3. ASSUME NEW z \in Nat, z <= n, \A j \in 1..z : Memory[k + j] # 0
      PROVE  Bytes(k, z) \in Text
  <2>1. \A j \in 1..z : j \in 1..n
    BY <1>3
  <2>2. \A j \in 1..z : Memory[k + j] \in 1..255
    BY <1>1, <1>2, <1>3, <2>1, Zenon
  <2>3. k + z <= Len(Memory)
    <3>1. Len(Memory) \in Nat
      BY LenProperties
    <3> QED BY <1>3, <3>1
  <2> QED BY <1>3, <2>2, <2>3, BytesRead, Zenon DEF Text
<1>4. CASE zeros = {}
  <2>1. CString(k, n) = Bytes(k, n)
    BY <1>4, Zenon DEF CString
  <2>2. \A j \in 1..n : Memory[k + j] # 0
    BY <1>4
  <2>3. n <= n
    OBVIOUS
  <2> QED BY <1>3, <2>1, <2>2, <2>3, Zenon
<1>5. CASE zeros # {}
  <2>1. CString(k, n) = Bytes(k, Min(zeros) - 1)
    BY <1>5, Zenon DEF CString
  <2>2. zeros \in SUBSET Nat
    OBVIOUS
  <2>3. PICK T \in SUBSET Nat : T = zeros /\ T # {}
    BY <1>5, <2>2, Zenon
  <2>4. Min(T) \in T /\ \A x \in T : Min(T) <= x
    BY <2>3, LeastOf
  <2>5. PICK z \in 1..n : z = Min(T) /\ \A x \in T : z <= x
    BY <2>3, <2>4
  <2>6. z - 1 \in Nat /\ z - 1 <= n
    OBVIOUS
  <2>7. ASSUME NEW j \in 1..z - 1 PROVE Memory[k + j] # 0
    <3>1. j \in 1..n /\ ~(z <= j)
      OBVIOUS
    <3>2. j \notin T
      BY <2>5, <3>1, Zenon
    <3> QED BY <2>3, <3>1, <3>2
  <2> QED BY <1>3, <2>1, <2>3, <2>5, <2>6, <2>7, Zenon
<1> QED BY <1>4, <1>5

(* What decode takes out of the buffer lies in the buffer.                   *)
LEMMA MessageIsReadable ==
  ASSUME buffer \in Seq(Byte), slack \in Byte, NEW i \in 0..Size-1, LooksLikeFrame(i),
         WellFormed(i), ~Aborts(i)
  PROVE  MessageAt(i) \in Readable /\ EndOf(i) \in 0..Size-1
<1>1. PICK sz \in Nat : sz = Size /\ Len(Memory) = sz + 4 /\ Memory \in Seq(Byte)
  BY MemoryHoldsBuffer, Zenon
<1>2. i + 1 < sz /\ EndOf(i) \in 0..sz-1
  BY <1>1, Zenon DEF LooksLikeFrame
<1>3. PICK e \in 0..sz-1 : e = EndOf(i)
  BY <1>2
<1>4. /\ IdLenAt(i) < e /\ NameLenAt(i) < e /\ ErrCodeAt(i) < e /\ InfoLenAt(i) < e
      /\ ~(DataLen(i) < 0)
      /\ Int32At[IdLenAt(i)] \in 0..IdArray-1 /\ Int32At[NameLenAt(i)] \in 0..TextArray-1
      /\ Int32At[InfoLenAt(i)] \in 0..TextArray-1
  BY <1>3, Zenon DEF WellFormed, Aborts, Overrun
<1>5. (\A x \in 0..IdArray-1 : x \in Nat) /\ (\A x \in 0..TextArray-1 : x \in Nat)
  BY SMT DEF IdArray, TextArray
<1>6. PICK L1, L2, L3 \in Nat : /\ L1 = Int32At[IdLenAt(i)] /\ L2 = Int32At[NameLenAt(i)]
                                /\ L3 = Int32At[InfoLenAt(i)]
  BY <1>4, <1>5, Zenon
<1>7. IdLenAt(i) = i + 1 + 4
  BY Zenon DEF IdLenAt, IntSize
<1>8. NameLenAt(i) = i + 1 + 4 + 4 + L1
  BY <1>6, <1>7, Zenon DEF NameLenAt, IntSize
<1>9. ErrCodeAt(i) = i + 1 + 4 + 4 + L1 + 4 + L2
  BY <1>6, <1>8, Zenon DEF ErrCodeAt, IntSize
<1>10. InfoLenAt(i) = i + 1 + 4 + 4 + L1 + 4 + L2 + 4
  BY <1>9, Zenon DEF InfoLenAt, IntSize
<1>11. DataAt(i) = i + 1 + 4 + 4 + L1 + 4 + L2 + 4 + 4 + L3
  BY <1>6, <1>10, Zenon DEF DataAt, IntSize
<1>12. DataLen(i) = e - (i + 1 + 4 + 4 + L1 + 4 + L2 + 4 + 4 + L3) - 4
  BY <1>3, <1>11, Zenon DEF DataLen, IntSize
<1>13. PICK n \in Nat : /\ n = DataLen(i)
                        /\ e = n + (i + 1 + 4 + 4 + L1 + 4 + L2 + 4 + 4 + L3) + 4
  <2>1. PICK n : n = e - (i + 1 + 4 + 4 + L1 + 4 + L2 + 4 + 4 + L3) - 4
    OBVIOUS
  <2>2. n = DataLen(i) /\ ~(n < 0)
    BY <1>4, <1>12, <2>1, Zenon
  <2>3. n \in Nat /\ e = n + (i + 1 + 4 + 4 + L1 + 4 + L2 + 4 + 4 + L3) + 4
    BY <2>1, <2>2
  <2> QED BY <2>2, <2>3
<1>14. /\ i + 1 + 4 + 4 \in Nat /\ i + 1 + 4 + 4 + L1 + 4 \in Nat
       /\ i + 1 + 4 + 4 + L1 + 4 + L2 + 4 + 4 \in Nat
       /\ i + 1 + 4 + 4 + L1 + 4 + L2 + 4 + 4 + L3 \in Nat
       /\ i + 1 + 4 + 4 + L1 <= sz + 4 /\ i + 1 + 4 + 4 + L1 + 4 + L2 <= sz + 4
       /\ i + 1 + 4 + 4 + L1 + 4 + L2 + 4 + 4 + L3 <= sz + 4
       /\ i + 1 + 4 + 4 + L1 + 4 + L2 + 4 + 4 + L3 + n <= sz + 4
       /\ i + 1 + 4 + 4 + L1 + 4 + L2 \in 0..sz-1
  BY <1>13
<1>15. CString(IdLenAt(i) + IntSize, Int32At[IdLenAt(i)]) \in Text
  <2>1. CString(i + 1 + 4 + 4, L1) \in Text
    BY <1>1, <1>14, TextRead, Zenon
  <2> QED BY <1>6, <1>7, <2>1, Zenon DEF IntSize
<1>16. CString(NameLenAt(i) + IntSize, Int32At[NameLenAt(i)]) \in Text
  <2>1. CString(i + 1 + 4 + 4 + L1 + 4, L2) \in Text
    BY <1>1, <1>14, TextRead, Zenon
  <2> QED BY <1>6, <1>8, <2>1, Zenon DEF IntSize
<1>17. CString(InfoLenAt(i) + IntSize, Int32At[InfoLenAt(i)]) \in Text
  <2>1. CString(i + 1 + 4 + 4 + L1 + 4 + L2 + 4 + 4, L3) \in Text
    BY <1>1, <1>14, TextRead, Zenon
  <2> QED BY <1>6, <1>10, <2>1, Zenon DEF IntSize
<1>18. Int32At[ErrCodeAt(i)] \in Int
  BY <1>1, <1>9, <1>14, IntsRead, Zenon
<1>19. Bytes(DataAt(i), DataLen(i)) \in Seq(Byte)
  <2>1. PICK o \in Nat : o = DataAt(i) /\ o + n <= sz + 4
    BY <1>11, <1>14, Zenon
  <2>2. ASSUME NEW j \in 1..n PROVE Memory[o + j] \in Byte
    <3>1. o + j \in 1..sz + 4
      BY <2>1
    <3>2. PICK mem \in Seq(Byte) : mem = Memory /\ Len(mem) = sz + 4
      BY <1>1
    <3>3. mem[o + j] \in Byte
      BY <3>1, <3>2, ElementOfSeq, Zenon
    <3> QED BY <3>2, <3>3, Zenon
  <2>3. Bytes(o, n) \in Seq(Byte)
    BY <1>1, <2>1, <2>2, BytesRead, Zenon
  <2> QED BY <1>13, <2>1, <2>3, Zenon
<1>20. MessageAt(i) \in Readable
  BY <1>15, <1>16, <1>17, <1>18, <1>19, Zenon DEF MessageAt, Readable
<1> QED BY <1>1, <1>2, <1>20, Zenon

-----------------------------------------------------------------------------
(* The invariant                                                             *)

(* s begins with x.                                                          *)
Leads(x, s) == Len(x) <= Len(s) /\ Holds(s, 0, x)

(* Of the messages ms, whose frames begin the buffer, decode has passed      *)
(* those of u and stands in front of those of v.                             *)
Passed(ms, u, v) ==
    /\ pc = "decode"
    /\ ms = u \o v /\ v # <<>>
    /\ start_index = Len(encode(u)) /\ out_messages = u

(* It has passed all of them; nothing happens behind the last frame if that  *)
(* is the end of the buffer.                                                 *)
AllPassed(ms) ==
    /\ Leads(ms, out_messages)
    /\ buffer = encode(ms) => pc # "aborted" /\ start_index = Size /\ out_messages = ms

(* Until decode is called its locals are as cc:34-37 declares them; then it  *)
(* takes, one by one, the whole frames in front.                             *)
CodecInv ==
    /\ TypeOK
    /\ pc = "idle" => buffer = <<>> /\ start_index = 0 /\ end_index = -1 /\ out_messages = <<>>
    /\ \A ms \in Seq(Messages) :
         pc # "idle" /\ Leads(encode(ms), buffer) =>
           AllPassed(ms) \/ \E u, v \in Seq(Messages) : Passed(ms, u, v)

(* A frame the buffer holds whole, wherever it lies.                         *)
LEMMA HeldFrameIsRead ==
  ASSUME buffer \in Seq(Byte), slack \in Byte, NEW m \in Messages, NEW i \in Nat,
         Holds(buffer, i, encodeTinyPB(m)), i + PkLen(m) <= Size
  PROVE  /\ i \in 0..Size-1 /\ LooksLikeFrame(i) /\ WellFormed(i) /\ ~Overrun(i)
         /\ EndOf(i) = i + PkLen(m) - 1 /\ DataLen(i) = Len(m.pb_data)
         /\ MessageAt(i) = m
<1>1. PICK em \in Seq(Byte) : /\ em = encodeTinyPB(m) /\ Len(em) = PkLen(m)
                              /\ FrameAt(em, 0, m)
  BY FrameLayout, Zenon
<1>2. PICK n, sz \in Nat : n = PkLen(m) /\ sz = Size
  BY MessageParts, MemoryHoldsBuffer, Zenon
<1>3. Holds(Memory, 0, buffer)
  BY MemoryHoldsBuffer, Zenon
<1>4. Holds(Memory, i, em)
  <2>1. Len(em) \in Nat /\ Len(buffer) \in Nat /\ i + Len(em) <= Len(buffer)
    BY <1>1, <1>2, Zenon DEF Size
  <2>2. 0 \in Nat /\ 0 + i = i
    OBVIOUS
  <2>3. Holds(Memory, 0 + i, em)
    BY <1>1, <1>3, <2>1, <2>2, HoldsInside, Zenon
  <2> QED BY <2>2, <2>3, Zenon
<1>5. FrameAt(Memory, i, m)
  BY <1>1, <1>4, FrameInside, Zenon
<1> QED BY <1>5, FrameIsRead, Zenon

(* Behind whole frames, the next one is found and taken.                     *)
LEMMA NextFrame ==
  ASSUME TypeOK, NEW u \in Seq(Messages), NEW m \in Messages, NEW v \in Seq(Messages),
         Leads(encode(u \o (<<m>> \o v)), buffer), start_index = Len(encode(u))
  PROVE  /\ Candidates # {} /\ Min(Candidates) = start_index
         /\ WellFormed(start_index) /\ ~Aborts(start_index) /\ MessageAt(start_index) = m
         /\ EndOf(start_index) + 1 = Len(encode(Append(u, m)))
<1>1. buffer \in Seq(Byte) /\ slack \in Byte
  BY Zenon DEF TypeOK
<1>2. PICK em \in Seq(Byte) : /\ em = encodeTinyPB(m) /\ Len(em) = PkLen(m)
                              /\ FrameAt(em, 0, m)
  BY FrameLayout, Zenon
<1>3. PICK i \in Nat : /\ i = start_index /\ Len(encode(Append(u, m))) = i + PkLen(m)
                       /\ i + PkLen(m) <= Size /\ Holds(buffer, i, em)
  <2>1. PICK x \in Seq(Byte) : x = encode(u \o (<<m>> \o v))
    BY EncodeSplit, ConcatProperties, EncodeIsFlat, Zenon
  <2>2. PICK i \in Nat : /\ i = start_index /\ Len(encode(Append(u, m))) = i + PkLen(m)
                         /\ i + PkLen(m) <= Len(x) /\ Holds(x, i, em)
    BY <1>2, <2>1, EncodeSplit, Zenon
  <2>3. Len(x) <= Size /\ Holds(buffer, 0, x)
    BY <2>1, Zenon DEF Leads, Size
  <2>4. PICK n \in Nat : n = PkLen(m)
    BY MessageParts, Zenon
  <2>5. Len(x) \in Nat /\ Size \in Nat /\ Len(em) \in Nat
    BY <1>1, LenProperties DEF Size
  <2>6. i + PkLen(m) <= Size /\ 0 \in Nat /\ 0 + i = i
    BY <2>2, <2>3, <2>4, <2>5
  <2>7. i + Len(em) <= Len(x)
    BY <1>2, <2>2, Zenon
  <2>8. Holds(buffer, 0 + i, em)
    BY <2>2, <2>3, <2>5, <2>6, <2>7, HoldsInside, Zenon
  <2> QED BY <2>2, <2>6, <2>8, Zenon
<1>4. PICK n, L4 \in Nat : n = PkLen(m) /\ L4 = Len(m.pb_data)
  BY MessageParts, Zenon
<1>5. PICK sz \in Nat : sz = Size
  BY <1>1, MemoryHoldsBuffer, Zenon
<1>6. /\ i \in 0..Size-1 /\ LooksLikeFrame(i) /\ WellFormed(i) /\ ~Overrun(i)
      /\ EndOf(i) = i + PkLen(m) - 1 /\ DataLen(i) = Len(m.pb_data)
      /\ MessageAt(i) = m
  BY <1>1, <1>2, <1>3, HeldFrameIsRead, Zenon
<1>7. i \in Candidates /\ \A k \in Candidates : i <= k
  BY <1>3, <1>5, <1>6 DEF Candidates
<1>8. Candidates # {} /\ Min(Candidates) = i
  <2>1. PICK T : T = Candidates
    OBVIOUS
  <2>2. i \in T /\ (\A k \in T : i <= k) /\ T \subseteq Int
    <3>1. Candidates \subseteq Int
      BY <1>3, <1>5 DEF Candidates
    <3> QED BY <1>7, <2>1, <3>1, Zenon
  <2>3. \A x \in T : (\A y \in T : x <= y) => x = i
    BY <2>2
  <2>4. Min(T) = i
    BY <2>2, <2>3 DEF Min
  <2> QED BY <2>1, <2>2, <2>4
<1>9. ~AstrayBefore(i)
  <2>1. \A k \in start_index..i - 1 : FALSE
    BY <1>3
  <2> QED BY <2>1, Zenon DEF AstrayBefore
<1>10. ~(L4 < 0) /\ (i + n - 1) + 1 = i + n
  OBVIOUS
<1>11. ~Aborts(i)
  BY <1>4, <1>6, <1>9, <1>10, Zenon DEF Aborts
<1> QED BY <1>3, <1>4, <1>6, <1>8, <1>10, <1>11, Zenon

LEMMA AtTheEnd ==
  ASSUME TypeOK, start_index = Size
  PROVE  Candidates = {} /\ ~AstrayBefore(Size)
<1>1. PICK sz \in Nat : sz = Size /\ start_index = sz
  BY MemoryHoldsBuffer, Zenon DEF TypeOK, Size
<1>2. start_index..Size - 1 = {}
  BY <1>1
<1> QED BY <1>2, Zenon DEF Candidates, AstrayBefore

LEMMA HeadAndTail ==
  ASSUME NEW S, NEW s \in Seq(S), s # <<>>
  PROVE  \E e \in S, t \in Seq(S) : s = <<e>> \o t
<1>1. /\ Head(s) \in S /\ Tail(s) \in Seq(S) /\ Len(Tail(s)) = Len(s) - 1
      /\ \A i \in 1..Len(Tail(s)) : Tail(s)[i] = s[i + 1]
  BY HeadTailProperties
<1>2. PICK e \in S, t \in Seq(S) : /\ e = Head(s) /\ Len(t) = Len(s) - 1
                                  /\ \A i \in 1..Len(t) : t[i] = s[i + 1]
  BY <1>1, Zenon
<1>3. PICK w \in Seq(S) : w = <<e>> /\ Len(w) = 1 /\ w[1] = e
  BY OneElement, Zenon
<1>4. PICK q : q = w \o t
  OBVIOUS
<1>5. /\ q \in Seq(S) /\ Len(q) = Len(w) + Len(t)
      /\ \A i \in 1..Len(w) + Len(t) : q[i] = IF i <= Len(w) THEN w[i] ELSE t[i - Len(w)]
  BY <1>4, ConcatProperties
<1>6. Len(s) \in Nat /\ Len(t) \in Nat /\ s[1] = e
  BY <1>2, LenProperties
<1>7. ASSUME NEW i \in 1..Len(s) PROVE q[i] = s[i]
  <2>1. i \in 1..Len(w) + Len(t)
    BY <1>2, <1>3, <1>6
  <2>2. CASE i = 1
    BY <1>3, <1>5, <1>6, <2>1, <2>2
  <2>3. CASE i # 1
    <3>1. q[i] = t[i - 1] /\ i - 1 \in 1..Len(t) /\ (i - 1) + 1 = i
      BY <1>2, <1>3, <1>5, <1>6, <2>1, <2>3
    <3>2. t[i - 1] = s[(i - 1) + 1]
      BY <1>2, <3>1, Zenon
    <3> QED BY <3>1, <3>2
  <2> QED BY <2>2, <2>3
<1>8. Len(q) = Len(s)
  BY <1>2, <1>3, <1>5, <1>6
<1>9. q = s
  BY <1>5, <1>7, <1>8, SeqEqual
<1> QED BY <1>3, <1>4, <1>9

(* If not all are passed, a frame is next.                                   *)
LEMMA FrameIsNext ==
  ASSUME TypeOK, NEW ms \in Seq(Messages), NEW u \in Seq(Messages), NEW v \in Seq(Messages),
         Passed(ms, u, v), Leads(encode(ms), buffer)
  PROVE  \E m \in Messages, w \in Seq(Messages) :
           /\ v = <<m>> \o w /\ Append(u, m) \in Seq(Messages) /\ ms = Append(u, m) \o w
           /\ Candidates # {} /\ Min(Candidates) = start_index
           /\ WellFormed(start_index) /\ ~Aborts(start_index) /\ MessageAt(start_index) = m
           /\ EndOf(start_index) + 1 = Len(encode(Append(u, m)))
<1>1. ms = u \o v /\ v # <<>> /\ start_index = Len(encode(u))
  BY Zenon DEF Passed
<1>2. PICK m \in Messages, w \in Seq(Messages) : v = <<m>> \o w
  BY <1>1, HeadAndTail
<1>3. /\ Append(u, m) \in Seq(Messages) /\ ms = Append(u, m) \o w
  BY <1>1, <1>2, EncodeSplit, Zenon
<1>4. Leads(encode(u \o (<<m>> \o w)), buffer)
  BY <1>1, <1>2, Zenon
<1>5. /\ Candidates # {} /\ Min(Candidates) = start_index
      /\ WellFormed(start_index) /\ ~Aborts(start_index) /\ MessageAt(start_index) = m
      /\ EndOf(start_index) + 1 = Len(encode(Append(u, m)))
  BY <1>1, <1>4, NextFrame, Zenon
<1> QED BY <1>2, <1>3, <1>5, Zenon

LEMMA LeadsItself ==
  ASSUME NEW S, NEW s \in Seq(S)
  PROVE  Leads(s, s)
<1>1. Len(s) \in Nat /\ \A i \in 1..Len(s) : 0 + i = i
  BY LenProperties
<1> QED BY <1>1 DEF Leads, Holds

LEMMA LeadsLonger ==
  ASSUME NEW S, NEW x, Len(x) \in Nat, NEW s \in Seq(S), NEW e \in S, Leads(x, s)
  PROVE  Leads(x, Append(s, e))
<1>1. PICK t : t = Append(s, e)
  OBVIOUS
<1>2. Len(t) = Len(s) + 1 /\ Len(s) \in Nat /\ \A i \in 1..Len(s) : t[i] = s[i]
  BY <1>1, AppendProperties
<1>3. Len(x) <= Len(s) /\ \A i \in 1..Len(x) : s[0 + i] = x[i]
  BY DEF Leads, Holds
<1>4. ASSUME NEW i \in 1..Len(x) PROVE t[0 + i] = x[i]
  <2>1. i \in 1..Len(s) /\ 0 + i = i
    BY <1>2, <1>3
  <2> QED BY <1>2, <1>3, <2>1
<1>5. Len(x) <= Len(t)
  BY <1>2, <1>3
<1> QED BY <1>1, <1>4, <1>5, Zenon DEF Leads, Holds

LEMMA LeadsIsPrefix ==
  ASSUME NEW S, NEW x \in Seq(S), NEW T, NEW s \in Seq(T)
  PROVE  Leads(x, s) <=> IsPrefix(x, s)
<1>1. Len(x) \in Nat /\ Len(s) \in Nat
  BY LenProperties
<1> SUFFICES ASSUME Len(x) <= Len(s)
             PROVE  Holds(s, 0, x) <=> SubSeq(x, 1, Len(x)) = SubSeq(s, 1, Len(x))
  BY Zenon DEF Leads, IsPrefix
<1>2. ASSUME NEW R, NEW q \in Seq(R), Len(x) <= Len(q), Len(q) \in Nat
      PROVE  \E y \in Seq(R) : /\ y = SubSeq(q, 1, Len(x)) /\ Len(y) = Len(x)
                               /\ \A i \in 1..Len(x) : y[i] = q[i]
  <2>1. \A i \in 1..Len(x) : i \in 1..Len(q)
    BY <1>1, <1>2
  <2>2. 1 \in Int /\ Len(x) \in Int /\ \A i \in 1..Len(x) : q[i] \in R
    <3>1. \A i \in 1..Len(x) : q[i] \in R
      BY <2>1, ElementOfSeq, Zenon
    <3> QED BY <1>1, <3>1
  <2>3. PICK y : y = SubSeq(q, 1, Len(x))
    OBVIOUS
  <2>4. /\ y \in Seq(R) /\ Len(y) = Len(x)
        /\ \A i \in 1..Len(x) : y[i] = q[1 + i - 1]
    BY <1>1, <2>2, <2>3, SubSeqProperties
  <2>5. ASSUME NEW i \in 1..Len(x) PROVE y[i] = q[i]
    BY <2>4
  <2> QED BY <2>3, <2>4, <2>5, Zenon
<1>4. PICK y \in Seq(S) : /\ y = SubSeq(x, 1, Len(x)) /\ Len(y) = Len(x)
                          /\ \A i \in 1..Len(x) : y[i] = x[i]
  <2>1. Len(x) <= Len(x)
    BY <1>1
  <2> QED BY <1>1, <1>2, <2>1, Zenon
<1>5. PICK z \in Seq(T) : /\ z = SubSeq(s, 1, Len(x)) /\ Len(z) = Len(x)
                          /\ \A i \in 1..Len(x) : z[i] = s[i]
  BY <1>1, <1>2, Zenon
<1>6. \A i \in 1..Len(x) : 0 + i = i
  BY <1>1
<1>7. CASE Holds(s, 0, x)
  <2>1. \A i \in 1..Len(y) : y[i] = z[i]
    BY <1>4, <1>5, <1>6, <1>7 DEF Holds
  <2>2. y \in Seq(S \cup T) /\ z \in Seq(S \cup T)
    OBVIOUS
  <2>3. y = z
    BY <1>4, <1>5, <2>1, <2>2, SeqEqual
  <2> QED BY <1>4, <1>5, <1>7, <2>3
<1>8. CASE y = z
  BY <1>4, <1>5, <1>6, <1>8 DEF Holds
<1> QED BY <1>4, <1>5, <1>7, <1>8

LEMMA DigitChars == \A y \in 0..9 : 48 + y \in 1..255
OBVIOUS

(* A message that fits its arrays has a frame that fits an int.              *)
LEMMA OutgoingIsMessage ==
  ASSUME IdInv, NEW m \in Outgoing
  PROVE  WithId(m) \in Messages
<1>0. PICK p \in Request \cup ErrorReply : \E id \in {<<>>, Digits(msg_id)} : m = Message(p, id)
  BY Zenon DEF Outgoing
<1>1. PICK id \in {<<>>, Digits(msg_id)} : m = Message(p, id)
  BY <1>0
<1>2. /\ p.method_name \in Text /\ Len(p.method_name) < TextArray
      /\ p.err_info \in Text /\ Len(p.err_info) < TextArray
      /\ p.err_code \in Nat /\ p.err_code <= MaxInt
      /\ p.pb_data \in Seq(Byte) /\ Len(p.pb_data) <= MaxInt - 26 - IdArray - 2 * TextArray
  BY CodecAssumption, Zenon
<1>3. PICK name, info \in Text, data \in Seq(Byte), code \in Nat :
        /\ name = p.method_name /\ info = p.err_info /\ data = p.pb_data /\ code = p.err_code
  BY <1>2, Zenon
<1>4. Len(name) \in Nat /\ Len(info) \in Nat /\ Len(data) \in Nat
  BY <1>3, LenProperties DEF Text
<1>5. ASSUME NEW x \in Text, Len(x) < IdArray
      PROVE  [msg_id |-> x, method_name |-> name, err_code |-> code, err_info |-> info,
              pb_data |-> data] \in Messages
  <2>1. PICK r : r = [msg_id |-> x, method_name |-> name, err_code |-> code, err_info |-> info,
                      pb_data |-> data]
    OBVIOUS
  <2>2. /\ r.msg_id = x /\ r.method_name = name /\ r.err_code = code /\ r.err_info = info
        /\ r.pb_data = data
    BY <2>1
  <2>3. r \in Readable
    <3>1. code \in Int
      OBVIOUS
    <3> QED BY <2>1, <3>1 DEF Readable
  <2>4. PICK a, b, c, d \in Nat : a = Len(x) /\ b = Len(name) /\ c = Len(info) /\ d = Len(data)
    <3>1. Len(x) \in Nat
      BY LenProperties DEF Text
    <3> QED BY <1>4, <3>1, Zenon
  <2>5. PkLen(r) = 26 + a + b + c + d
    BY <2>2, <2>4, Zenon DEF PkLen
  <2>6. /\ a < IdArray /\ b < TextArray /\ c < TextArray /\ code <= MaxInt
        /\ d <= MaxInt - 26 - IdArray - 2 * TextArray
    BY <1>2, <1>3, <1>5, <2>4, Zenon
  <2>7. 26 + a + b + c + d <= MaxInt
    BY <2>6, SMT DEF MaxInt, IdArray, TextArray
  <2>8. PICK max \in Nat : max = MaxInt /\ code <= max
    <3>1. MaxInt \in Nat
      BY SMT DEF MaxInt
    <3> QED BY <2>6, <3>1, Zenon
  <2>9. code \in 0..max
    BY <2>8
  <2> QED BY <2>1, <2>2, <2>3, <2>4, <2>5, <2>6, <2>7, <2>8, <2>9, Zenon DEF Messages
<1>6. m = [msg_id |-> id, method_name |-> name, err_code |-> code, err_info |-> info,
           pb_data |-> data]
  BY <1>1, <1>3, Zenon DEF Message
<1>7. CASE id # <<>>
  <2>1. msg_id \in Ids
    <3>1. \A i \in DOMAIN <<>> : FALSE
      OBVIOUS
    <3>2. Digits(<<>>) = <<>>
      BY <3>1 DEF Digits
    <3> QED BY <1>1, <1>7, <3>2, Zenon DEF IdInv
  <2>2. /\ DOMAIN msg_id = 1..g_msg_id_length
        /\ \A i \in 1..g_msg_id_length : msg_id[i] \in 0..Nine
    BY <2>1, IdsAreSeqs, Zenon
  <2>3. g_msg_id_length \in Nat /\ Nine \in 0..9 /\ g_msg_id_length < IdArray
    BY IdAssumption, CodecAssumption
  <2>4. \A i \in 1..g_msg_id_length : 48 + msg_id[i] \in 1..255
    <3> TAKE i \in 1..g_msg_id_length
    <3>1. msg_id[i] \in 0..Nine
      BY <2>2
    <3>2. msg_id[i] \in 0..9
      BY <2>3, <3>1
    <3> QED BY <3>2, DigitChars, Zenon
  <2>5. id = [i \in 1..g_msg_id_length |-> 48 + msg_id[i]]
    BY <1>1, <1>7, <2>2, Zenon DEF Digits
  <2>6. id \in [1..g_msg_id_length -> 1..255]
    BY <2>4, <2>5
  <2>7. id \in Text /\ Len(id) < IdArray
    BY <2>3, <2>6, FunctionIsSeq DEF Text
  <2>8. WithId(m) = m
    <3>1. m.msg_id = id
      BY <1>6
    <3> QED BY <1>7, <3>1, Zenon DEF WithId
  <2> QED BY <1>5, <1>6, <2>7, <2>8, Zenon
<1>8. CASE id = <<>>
  <2>1. PICK x : x = [i \in 1..9 |-> 48 + i]
    OBVIOUS
  <2>2. x \in [1..9 -> 1..255]
    <3>1. \A i \in 1..9 : 48 + i \in 1..255
      BY SMT
    <3> QED BY <2>1, <3>1, Zenon
  <2>3. x \in Text /\ Len(x) = 9
    <3>1. PICK n \in Nat : n = 9
      OBVIOUS
    <3>2. x \in [1..n -> 1..255]
      BY <2>2, <3>1
    <3>3. x \in Seq(1..255) /\ Len(x) = n
      <4>1. PICK R : R = 1..255
        OBVIOUS
      <4>2. x \in [1..n -> R]
        BY <3>2, <4>1, Zenon
      <4>3. x \in Seq(R) /\ Len(x) = n
        BY <4>2, FunctionIsSeq, Zenon
      <4> QED BY <4>1, <4>3, Zenon
    <3> QED BY <3>1, <3>3, Zenon DEF Text
  <2>4. Len(x) < IdArray
    BY <2>3, SMT DEF IdArray
  <2>5. m.msg_id = <<>>
    BY <1>6, <1>8
  <2>6. WithId(m) = [m EXCEPT !.msg_id = x]
    BY <2>1, <2>5, Zenon DEF WithId
  <2>7. [m EXCEPT !.msg_id = x] = [msg_id |-> x, method_name |-> name, err_code |-> code,
                                   err_info |-> info, pb_data |-> data]
    BY <1>6
  <2> QED BY <1>5, <2>3, <2>4, <2>6, <2>7, Zenon
<1> QED BY <1>7, <1>8

LEMMA CodecInit == Init => CodecInv
<1> SUFFICES ASSUME Init PROVE CodecInv
  OBVIOUS
<1>1. pc = "idle" /\ buffer = <<>> /\ slack = 0 /\ start_index = 0 /\ end_index = -1
      /\ out_messages = <<>> /\ sent = <<>>
  BY DEF Init
<1>2. /\ sent \in Seq(Messages) /\ buffer \in Seq(Byte) /\ out_messages \in Seq(Readable)
      /\ Size = 0
  BY <1>1, EmptySeq DEF Size
<1>3. slack \in Byte
  BY <1>1, SMT DEF Byte
<1>4. TypeOK
  BY <1>1, <1>2, <1>3 DEF TypeOK
<1> QED BY <1>1, <1>4 DEF CodecInv

LEMMA SendInv ==
  ASSUME IdInv, CodecInv, NEW m \in Outgoing, Send(m)
  PROVE  CodecInv'
<1>1. /\ pc = "idle" /\ sent' = Append(sent, WithId(m))
      /\ buffer' = buffer /\ slack' = slack /\ start_index' = start_index
      /\ end_index' = end_index /\ out_messages' = out_messages /\ pc' = pc
  BY DEF Send
<1>2. TypeOK /\ buffer = <<>> /\ start_index = 0 /\ end_index = -1 /\ out_messages = <<>>
  BY <1>1 DEF CodecInv
<1>3. sent' \in Seq(Messages)
  <2>1. WithId(m) \in Messages
    BY OutgoingIsMessage
  <2> QED BY <1>1, <1>2, <2>1, AppendProperties, Zenon DEF TypeOK
<1>4. TypeOK'
  BY <1>1, <1>2, <1>3, Zenon DEF TypeOK, Size
<1> QED BY <1>1, <1>2, <1>4, Zenon DEF CodecInv

LEMMA ReceiveInv ==
  ASSUME CodecInv, Receive
  PROVE  CodecInv'
<1>1. /\ pc = "idle" /\ pc' = "decode" /\ sent' = sent /\ slack' \in SlackByte
      /\ start_index' = start_index /\ end_index' = end_index /\ out_messages' = out_messages
      /\ \E f \in 1..Len(encode(sent)) : \E l \in f..Len(encode(sent)) :
           buffer' = SubSeq(encode(sent), f, l)
  BY Zenon DEF Receive
<1>2. TypeOK /\ start_index = 0 /\ end_index = -1 /\ out_messages = <<>>
  BY <1>1, Zenon DEF CodecInv
<1>3. sent \in Seq(Messages)
  BY <1>2, Zenon DEF TypeOK
<1>4. PICK e \in Seq(Byte) : e = encode(sent)
  BY <1>3, EncodeIsFlat, Zenon
<1>5. PICK f \in 1..Len(e), l \in 1..Len(e) : buffer' = SubSeq(e, f, l)
  <2>1. Len(e) \in Nat
    BY LenProperties
  <2>2. \A f \in 1..Len(e) : \A l \in f..Len(e) : l \in 1..Len(e)
    BY <2>1
  <2> QED BY <1>1, <1>4, <2>2, Zenon
<1>6. buffer' \in Seq(Byte)
  <2>1. Len(e) \in Nat
    BY LenProperties
  <2>2. \A i \in f..l : e[i] \in Byte
    BY <2>1, ElementOfSeq
  <2>3. f \in Int /\ l \in Int
    BY <2>1
  <2> QED BY <1>5, <2>2, <2>3, SubSeqProperties, Zenon
<1>7. PICK b \in Seq(Byte) : b = buffer' /\ Len(b) \in Nat
  BY <1>6, LenProperties
<1>8. /\ start_index' \in Nat /\ start_index' <= Len(b) /\ end_index' \in Int
      /\ end_index' < Len(b)
  BY <1>1, <1>2, <1>7
<1>9. slack' \in Byte
  BY <1>1, CodecAssumption
<1>10. TypeOK'
  BY <1>1, <1>2, <1>3, <1>6, <1>7, <1>8, <1>9, Zenon DEF TypeOK, Size
<1>11. ASSUME NEW ms \in Seq(Messages)
       PROVE  AllPassed(ms)' \/ \E u, v \in Seq(Messages) : Passed(ms, u, v)'
  <2>1. <<>> \in Seq(Messages) /\ <<>> \o ms = ms
    BY EmptySeq, ConcatEmptySeq
  <2>2. encode(<<>>) = <<>> /\ Len(encode(<<>>)) = 0
    BY EncodeEmpty
  <2>3. CASE ms = <<>>
    <3>1. Leads(ms, ms)
      BY LeadsItself
    <3>2. buffer' = encode(ms) => Len(buffer') = 0
      BY <2>2, <2>3, Zenon
    <3>3. AllPassed(ms)'
      BY <1>1, <1>2, <2>3, <3>1, <3>2, Zenon DEF AllPassed, Size
    <3> QED BY <3>3
  <2>4. CASE ms # <<>>
    <3>1. Passed(ms, <<>>, ms)'
      BY <1>1, <1>2, <2>1, <2>2, <2>4, Zenon DEF Passed
    <3> QED BY <2>1, <3>1, Zenon
  <2> QED BY <2>3, <2>4
<1> QED BY <1>1, <1>10, <1>11, Zenon DEF CodecInv

LEMMA FinishInv ==
  ASSUME CodecInv, Finish
  PROVE  CodecInv'
<1>1. /\ pc = "decode" /\ Candidates = {}
      /\ pc' = IF AstrayBefore(Size) THEN "aborted" ELSE "done"
      /\ sent' = sent /\ buffer' = buffer /\ slack' = slack /\ start_index' = start_index
      /\ end_index' = end_index /\ out_messages' = out_messages
  BY Zenon DEF Finish
<1>2. TypeOK
  BY Zenon DEF CodecInv
<1>3. pc' = "aborted" \/ pc' = "done"
  BY <1>1, Zenon
<1>4. TypeOK'
  BY <1>1, <1>2, <1>3, Zenon DEF TypeOK, Size
<1>5. ASSUME NEW ms \in Seq(Messages), Leads(encode(ms), buffer)
      PROVE  AllPassed(ms)'
  <2>1. AllPassed(ms)
    <3>1. pc # "idle"
      BY <1>1
    <3>2. ASSUME NEW u \in Seq(Messages), NEW v \in Seq(Messages), Passed(ms, u, v) PROVE FALSE
      BY <1>1, <1>2, <1>5, <3>2, FrameIsNext, Zenon
    <3> QED BY <1>5, <3>1, <3>2, Zenon DEF CodecInv
  <2>2. ASSUME buffer = encode(ms) PROVE pc' # "aborted"
    <3>1. start_index = Size
      BY <2>1, <2>2, Zenon DEF AllPassed
    <3>2. ~AstrayBefore(Size)
      BY <1>2, <3>1, AtTheEnd
    <3>3. pc' = "done"
      BY <1>1, <3>2, Zenon
    <3> QED BY <3>3
  <2> QED BY <1>1, <2>1, <2>2, Zenon DEF AllPassed, Size
<1>6. pc' # "idle"
  BY <1>3
<1> QED BY <1>1, <1>4, <1>5, <1>6, Zenon DEF CodecInv

(* The scan of cc:43-60 stops in the buffer, and so does the frame.         *)
LEMMA FirstCandidate ==
  ASSUME TypeOK, Candidates # {}
  PROVE  /\ Min(Candidates) \in 0..Size-1 /\ LooksLikeFrame(Min(Candidates))
         /\ EndOf(Min(Candidates)) \in 0..Size-1
<1>1. start_index \in Nat /\ Size \in Nat
  BY MemoryHoldsBuffer, Zenon DEF TypeOK
<1>2. PICK T : T = Candidates
  OBVIOUS
<1>3. T \in SUBSET Nat /\ T # {} /\ \A k \in T : k \in 0..Size-1 /\ LooksLikeFrame(k)
  BY <1>1, <1>2 DEF Candidates
<1>4. Min(T) \in T
  BY <1>3, LeastOf
<1>5. Min(T) \in 0..Size-1 /\ LooksLikeFrame(Min(T))
  BY <1>3, <1>4, Zenon
<1>6. EndOf(Min(T)) \in 0..Size-1
  BY <1>5, Zenon DEF LooksLikeFrame
<1> QED BY <1>2, <1>5, <1>6, Zenon

LEMMA SkipInv ==
  ASSUME CodecInv, Skip
  PROVE  CodecInv'
<1>1. PICK i : /\ i = Min(Candidates) /\ Candidates # {}
               /\ ~WellFormed(i) /\ start_index' = i /\ end_index' = EndOf(i)
               /\ sent' = sent /\ buffer' = buffer /\ slack' = slack /\ pc' = pc
               /\ out_messages' = out_messages /\ pc = "decode"
  BY Zenon DEF Skip
<1>2. TypeOK
  BY Zenon DEF CodecInv
<1>3. i \in 0..Size-1 /\ EndOf(i) \in 0..Size-1
  BY <1>1, <1>2, FirstCandidate, Zenon
<1>4. Size \in Nat
  BY <1>2, MemoryHoldsBuffer, Zenon DEF TypeOK
<1>5. i \in Nat /\ i <= Size /\ EndOf(i) \in Int /\ EndOf(i) < Size
  BY <1>3, <1>4
<1>6. TypeOK'
  BY <1>1, <1>2, <1>5, Zenon DEF TypeOK, Size
<1>7. ASSUME NEW ms \in Seq(Messages), Leads(encode(ms), buffer)
      PROVE  AllPassed(ms)'
  <2>1. AllPassed(ms)
    <3>1. pc # "idle"
      BY <1>1
    <3>2. ASSUME NEW u \in Seq(Messages), NEW v \in Seq(Messages), Passed(ms, u, v) PROVE FALSE
      BY <1>1, <1>2, <1>7, <3>2, FrameIsNext, Zenon
    <3> QED BY <1>7, <3>1, <3>2, Zenon DEF CodecInv
  <2>2. buffer # encode(ms)
    BY <1>1, <1>2, <2>1, AtTheEnd, Zenon DEF AllPassed
  <2> QED BY <1>1, <2>1, <2>2, Zenon DEF AllPassed
<1>8. pc' # "idle"
  BY <1>1
<1> QED BY <1>1, <1>6, <1>7, <1>8, Zenon DEF CodecInv

LEMMA TakeInv ==
  ASSUME CodecInv, Take
  PROVE  CodecInv'
<1>1. PICK i : /\ i = Min(Candidates) /\ Candidates # {}
               /\ sent' = sent /\ buffer' = buffer /\ slack' = slack /\ pc = "decode"
               /\ \/ /\ Aborts(i) /\ pc' = "aborted" /\ start_index' = start_index
                     /\ end_index' = end_index /\ out_messages' = out_messages
                  \/ /\ ~Aborts(i) /\ WellFormed(i) /\ pc' = pc
                     /\ start_index' = EndOf(i) + 1 /\ end_index' = EndOf(i)
                     /\ out_messages' = Append(out_messages, MessageAt(i))
  BY Zenon DEF Take, Advance
<1>2. TypeOK
  BY Zenon DEF CodecInv
<1>3. i \in 0..Size-1 /\ LooksLikeFrame(i) /\ EndOf(i) \in 0..Size-1
  BY <1>1, <1>2, FirstCandidate, Zenon
<1>4. Size \in Nat /\ buffer \in Seq(Byte) /\ slack \in Byte
  BY <1>2, MemoryHoldsBuffer, Zenon DEF TypeOK
<1>5. ASSUME NEW ms \in Seq(Messages), AllPassed(ms)
      PROVE  Leads(ms, out_messages) /\ buffer # encode(ms)
  BY <1>1, <1>2, <1>5, AtTheEnd, Zenon DEF AllPassed
<1>6. ASSUME NEW ms \in Seq(Messages), Leads(encode(ms), buffer), ~AllPassed(ms)
      PROVE  \E u \in Seq(Messages), m \in Messages, w \in Seq(Messages) :
               /\ Append(u, m) \in Seq(Messages) /\ ms = Append(u, m) \o w
               /\ out_messages = u /\ MessageAt(i) = m /\ ~Aborts(i)
               /\ EndOf(i) + 1 = Len(encode(Append(u, m)))
  <2>1. PICK u, v \in Seq(Messages) : Passed(ms, u, v)
    <3>1. pc # "idle"
      BY <1>1
    <3> QED BY <1>6, <3>1, Zenon DEF CodecInv
  <2>2. out_messages = u
    BY <2>1, Zenon DEF Passed
  <2>3. PICK m \in Messages, w \in Seq(Messages) :
          /\ v = <<m>> \o w /\ Append(u, m) \in Seq(Messages) /\ ms = Append(u, m) \o w
          /\ Candidates # {} /\ Min(Candidates) = start_index
          /\ WellFormed(start_index) /\ ~Aborts(start_index) /\ MessageAt(start_index) = m
          /\ EndOf(start_index) + 1 = Len(encode(Append(u, m)))
    BY <1>2, <1>6, <2>1, FrameIsNext, Zenon
  <2>4. i = start_index
    BY <1>1, <2>3, Zenon
  <2> QED BY <2>2, <2>3, <2>4, Zenon
<1>7. CASE Aborts(i)
  <2>0. /\ pc' = "aborted" /\ start_index' = start_index
        /\ end_index' = end_index /\ out_messages' = out_messages
    BY <1>1, <1>7, Zenon
  <2>1. TypeOK'
    BY <1>1, <1>2, <2>0, Zenon DEF TypeOK, Size
  <2>2. ASSUME NEW ms \in Seq(Messages), Leads(encode(ms), buffer) PROVE AllPassed(ms)'
    <3>1. AllPassed(ms)
      BY <1>6, <1>7, <2>2, Zenon
    <3> QED BY <1>1, <1>5, <2>0, <3>1, Zenon DEF AllPassed
  <2>3. pc' # "idle"
    BY <2>0
  <2> QED BY <1>1, <2>1, <2>2, <2>3, Zenon DEF CodecInv
<1>8. CASE ~Aborts(i)
  <2>1. /\ WellFormed(i) /\ pc' = pc /\ start_index' = EndOf(i) + 1 /\ end_index' = EndOf(i)
        /\ out_messages' = Append(out_messages, MessageAt(i))
    BY <1>1, <1>8, Zenon
  <2>2. MessageAt(i) \in Readable
    BY <1>3, <1>4, <1>8, <2>1, MessageIsReadable, Zenon
  <2>3. out_messages' \in Seq(Readable)
    BY <1>2, <2>1, <2>2, AppendProperties, Zenon DEF TypeOK
  <2>4. EndOf(i) + 1 \in Nat /\ EndOf(i) + 1 <= Size /\ EndOf(i) \in Int /\ EndOf(i) < Size
    BY <1>3, <1>4
  <2>5. TypeOK'
    BY <1>1, <1>2, <2>1, <2>3, <2>4, Zenon DEF TypeOK, Size
  <2>6. pc' = "decode" /\ pc' # "idle" /\ pc' # "aborted"
    BY <1>1, <2>1
  <2>7. ASSUME NEW ms \in Seq(Messages), Leads(encode(ms), buffer), AllPassed(ms)
        PROVE  AllPassed(ms)'
    <3>1. Len(ms) \in Nat /\ out_messages \in Seq(Readable)
      BY <1>2, LenProperties DEF TypeOK
    <3>2. Leads(ms, Append(out_messages, MessageAt(i)))
      BY <1>5, <2>2, <2>7, <3>1, LeadsLonger, Zenon
    <3> QED BY <1>1, <1>5, <2>1, <2>7, <3>2, Zenon DEF AllPassed
  <2>8. ASSUME NEW ms \in Seq(Messages), Leads(encode(ms), buffer), ~AllPassed(ms)
        PROVE  AllPassed(ms)' \/ \E u, v \in Seq(Messages) : Passed(ms, u, v)'
    <3>1. PICK u \in Seq(Messages), m \in Messages, w \in Seq(Messages) :
             /\ Append(u, m) \in Seq(Messages) /\ ms = Append(u, m) \o w
             /\ out_messages = u /\ MessageAt(i) = m
             /\ EndOf(i) + 1 = Len(encode(Append(u, m)))
      BY <1>6, <2>8, Zenon
    <3>2. start_index' = Len(encode(Append(u, m))) /\ out_messages' = Append(u, m)
      BY <2>1, <3>1, Zenon
    <3>3. CASE w = <<>>
      <4>1. ms = Append(u, m)
        BY <3>1, <3>3, ConcatEmptySeq
      <4>2. Leads(ms, ms)
        BY LeadsItself
      <4>3. AllPassed(ms)'
        BY <1>1, <2>6, <3>2, <4>1, <4>2, Zenon DEF AllPassed, Size
      <4> QED BY <4>3
    <3>4. CASE w # <<>>
      <4>1. Passed(ms, Append(u, m), w)'
        BY <2>6, <3>1, <3>2, <3>4, Zenon DEF Passed
      <4> QED BY <3>1, <4>1, Zenon
    <3> QED BY <3>3, <3>4
  <2> QED BY <1>1, <2>5, <2>6, <2>7, <2>8, Zenon DEF CodecInv
<1> QED BY <1>7, <1>8

LEMMA CodecStep == IdInv /\ CodecInv /\ [Next]_vars => CodecInv'
<1> SUFFICES ASSUME IdInv, CodecInv, [Next]_vars PROVE CodecInv'
  OBVIOUS
<1>1. ASSUME UNCHANGED codecVars PROVE CodecInv'
  <2>1. /\ sent' = sent /\ buffer' = buffer /\ slack' = slack /\ start_index' = start_index
        /\ end_index' = end_index /\ out_messages' = out_messages /\ pc' = pc
    BY <1>1, Zenon DEF codecVars
  <2>2. TypeOK'
    BY <2>1, Zenon DEF CodecInv, TypeOK, Size
  <2> QED BY <2>1, <2>2, Zenon DEF CodecInv, AllPassed, Passed, Size
<1>2. CASE DrawId
  BY <1>1, <1>2, Zenon DEF DrawId
<1>3. CASE \E m \in Outgoing : Send(m)
  BY <1>3, SendInv, Zenon
<1>4. CASE Receive
  BY <1>4, ReceiveInv
<1>5. CASE Finish
  BY <1>5, FinishInv
<1>6. CASE Skip
  BY <1>6, SkipInv
<1>7. CASE Take
  BY <1>7, TakeInv
<1>8. CASE UNCHANGED vars
  BY <1>1, <1>8, Zenon DEF vars
<1> QED BY <1>2, <1>3, <1>4, <1>5, <1>6, <1>7, <1>8, Zenon DEF Next, DecodeStep

(* The inductive invariant of the stream's sender and of decode.            *)
THEOREM CodecInvHolds == Spec => []CodecInv
<1>1. Init => CodecInv
  BY CodecInit
<1> QED BY <1>1, IdInvHolds, CodecStep, PTL DEF Spec

(* The codec's state has its type: whatever part of the stream the buffer    *)
(* holds, the indices of decode (tinypb_coder.cc:33-137) stay in the buffer, *)
(* and what it returns, it has read there: texts without a NUL, and bytes.   *)
THEOREM TypeCorrect == Spec => []TypeOK
<1>1. CodecInv => TypeOK
  BY Zenon DEF CodecInv
<1> QED BY <1>1, CodecInvHolds, PTL

(* The frames that begin a buffer are decoded (cc:33-137) into the messages  *)
(* they were encoded from (cc:10-30, 140-209), for messages of any bytes and *)
(* whatever follows; if nothing follows, decode neither throws nor reads or  *)
(* copies out of bounds, and makes nothing else of them.                     *)
THEOREM EncodedIsDecoded == Spec => []FramesInFrontDecoded
<1>1. ASSUME CodecInv PROVE FramesInFrontDecoded
  <2> SUFFICES ASSUME NEW a \in DOMAIN sent, NEW b \in a..Len(sent),
                      NEW ms, ms = SubSeq(sent, a, b)
               PROVE  /\ IsPrefix(encode(ms), buffer) /\ pc \in {"done", "aborted"}
                           => IsPrefix(ms, out_messages)
                      /\ buffer = encode(ms) /\ pc # "idle"
                           => pc # "aborted" /\ (pc = "done" => out_messages = ms)
    BY Zenon DEF FramesInFrontDecoded
  <2>1. TypeOK /\ sent \in Seq(Messages)
    BY <1>1, Zenon DEF CodecInv, TypeOK
  <2>2. ms \in Seq(Messages)
    <3>1. Len(sent) \in Nat /\ DOMAIN sent = 1..Len(sent)
      BY <2>1, LenProperties
    <3>2. a \in Int /\ b \in Int /\ \A i \in a..b : i \in 1..Len(sent)
      BY <3>1
    <3>3. \A i \in a..b : sent[i] \in Messages
      BY <2>1, <3>2, ElementOfSeq, Zenon
    <3> QED BY <3>2, <3>3, SubSeqProperties, Zenon
  <2>3. encode(ms) \in Seq(Byte) /\ buffer \in Seq(Byte) /\ out_messages \in Seq(Readable)
    BY <2>1, <2>2, EncodeIsFlat, Zenon DEF TypeOK
  <2>4. ASSUME Leads(encode(ms), buffer), pc \in {"done", "aborted"} PROVE AllPassed(ms)
    <3>1. pc # "idle" /\ pc # "decode"
      BY <2>4
    <3> QED BY <1>1, <2>2, <2>4, <3>1, Zenon DEF CodecInv, Passed
  <2>5. ASSUME IsPrefix(encode(ms), buffer), pc \in {"done", "aborted"}
        PROVE  IsPrefix(ms, out_messages)
    <3>1. Leads(ms, out_messages)
      BY <2>3, <2>4, <2>5, LeadsIsPrefix, Zenon DEF AllPassed
    <3> QED BY <2>2, <2>3, <3>1, LeadsIsPrefix, Zenon
  <2>6. ASSUME buffer = encode(ms), pc \in {"done", "aborted"}
        PROVE  pc # "aborted" /\ out_messages = ms
    <3>1. Leads(encode(ms), buffer)
      BY <2>3, <2>6, LeadsItself
    <3> QED BY <2>4, <2>6, <3>1, Zenon DEF AllPassed
  <2> QED BY <2>5, <2>6
<1> QED BY <1>1, CodecInvHolds, PTL

-----------------------------------------------------------------------------
(* Any part of the stream                                                    *)

LEMMA PartGrows ==
  ASSUME NEW S, NEW s \in Seq(S), NEW a \in 1..Len(s), NEW k \in a-1..Len(s)
  PROVE  /\ SubSeq(s, a, k) \in Seq(S) /\ Len(SubSeq(s, a, k)) = k + 1 - a
         /\ \A i \in 1..k + 1 - a : SubSeq(s, a, k)[i] = s[a + i - 1]
         /\ k = a - 1 => SubSeq(s, a, k) = <<>>
         /\ k # a - 1 => SubSeq(s, a, k) = Append(SubSeq(s, a, k - 1), s[k])
<1>1. Len(s) \in Nat
  BY LenProperties
<1>2. ASSUME NEW n \in a-1..Len(s)
      PROVE  /\ SubSeq(s, a, n) \in Seq(S) /\ Len(SubSeq(s, a, n)) = n + 1 - a
             /\ \A i \in 1..n + 1 - a : SubSeq(s, a, n)[i] = s[a + i - 1]
  <2>1. a \in Int /\ n \in Int /\ \A i \in a..n : i \in 1..Len(s)
    BY <1>1
  <2>2. \A i \in a..n : s[i] \in S
    BY <2>1, ElementOfSeq, Zenon
  <2>3. PICK y : y = SubSeq(s, a, n)
    OBVIOUS
  <2>4. /\ y \in Seq(S) /\ Len(y) = (IF a <= n THEN n - a + 1 ELSE 0)
        /\ \A i \in 1..n - a + 1 : y[i] = s[a + i - 1]
    BY <2>1, <2>2, <2>3, SubSeqProperties
  <2>5. Len(y) = n + 1 - a /\ n - a + 1 = n + 1 - a
    BY <1>1, <2>4
  <2> QED BY <2>3, <2>4, <2>5
<1>3. k = a - 1 => SubSeq(s, a, k) = <<>>
  BY <1>1, <1>2, EmptySeq
<1>4. CASE k # a - 1
  <2>1. k - 1 \in a-1..Len(s) /\ k \in 1..Len(s)
    BY <1>1, <1>4
  <2>2. PICK x \in Seq(S) : /\ x = SubSeq(s, a, k) /\ Len(x) = k + 1 - a
                            /\ \A i \in 1..k + 1 - a : x[i] = s[a + i - 1]
    BY <1>2, Zenon
  <2>3. PICK y \in Seq(S) : /\ y = SubSeq(s, a, k - 1) /\ Len(y) = (k - 1) + 1 - a
                            /\ \A i \in 1..(k - 1) + 1 - a : y[i] = s[a + i - 1]
    BY <1>2, <2>1, Zenon
  <2>4. PICK e \in S : e = s[k]
    BY <2>1, ElementOfSeq
  <2>5. PICK z \in Seq(S) : /\ z = Append(y, e) /\ Len(z) = Len(y) + 1
                            /\ z[Len(y) + 1] = e /\ \A i \in 1..Len(y) : z[i] = y[i]
    <3>1. PICK z : z = Append(y, e)
      OBVIOUS
    <3>2. /\ z \in Seq(S) /\ Len(z) = Len(y) + 1
          /\ z[Len(y) + 1] = e /\ \A i \in 1..Len(y) : z[i] = y[i]
      BY <3>1, AppendProperties
    <3> QED BY <3>1, <3>2, Zenon
  <2>6. Len(y) = k - a /\ k - a + 1 = k + 1 - a /\ a + (k - a + 1) - 1 = k
    BY <1>1, <2>3
  <2>7. ASSUME NEW i \in 1..Len(x) PROVE x[i] = z[i]
    <3>1. i \in 1..Len(y) \/ i = k - a + 1
      BY <1>1, <2>2, <2>6
    <3>2. CASE i \in 1..Len(y)
      BY <1>1, <2>2, <2>3, <2>5, <2>6, <3>2
    <3>3. CASE i = k - a + 1
      BY <1>1, <2>2, <2>4, <2>5, <2>6, <3>3
    <3> QED BY <3>1, <3>2, <3>3
  <2>8. Len(x) = Len(z)
    BY <1>1, <2>2, <2>5, <2>6
  <2>9. x = z
    BY <2>7, <2>8, SeqEqual
  <2> QED BY <1>2, <1>4, <2>2, <2>3, <2>4, <2>5, <2>9
<1> QED BY <1>2, <1>3, <1>4

LEMMA NoPart ==
  ASSUME NEW S, NEW s \in Seq(S)
  PROVE  SubSeq(s, 1, 0) = <<>>
<1>1. \A i \in 1..0 : s[i] \in S
  BY SMT
<1>2. PICK u : u = SubSeq(s, 1, 0)
  OBVIOUS
<1>3. u \in Seq(S) /\ Len(u) = 0
  BY <1>1, <1>2, SubSeqProperties
<1> QED BY <1>2, <1>3, EmptySeq

(* Where the frames of the stream lie.                                       *)
LEMMA FrameEnds ==
  ASSUME sent \in Seq(Messages), NEW k \in 1..Len(sent)
  PROVE  /\ sent[k] \in Messages /\ FrameEnd(k - 1) \in Nat
         /\ FrameEnd(k) = FrameEnd(k - 1) + PkLen(sent[k])
         /\ FrameEnd(k) <= Len(encode(sent))
         /\ Holds(encode(sent), FrameEnd(k - 1), encodeTinyPB(sent[k]))
<1>1. /\ Len(sent) \in Nat /\ k - 1 \in 0..Len(sent) /\ k \in 0..Len(sent)
      /\ 1 \in 1..Len(sent) /\ k - 1 \in 1-1..Len(sent) /\ k \in 1-1..Len(sent) /\ k # 1 - 1
  BY LenProperties
<1>2. PICK m \in Messages : m = sent[k]
  BY ElementOfSeq
<1>3. PICK s \in Seq(Messages) : s = SubSeq(sent, 1, k - 1)
  BY <1>1, PartGrows, Zenon
<1>4. SubSeq(sent, 1, k) = Append(s, m)
  BY <1>1, <1>2, <1>3, PartGrows, Zenon
<1>5. PICK t \in Seq(Messages) : Append(s, m) \o t = sent
  BY <1>1, <1>4, SplitAt, Zenon
<1>6. /\ s \o (<<m>> \o t) = sent
      /\ Len(encode(s)) \in Nat /\ Len(encode(Append(s, m))) = Len(encode(s)) + PkLen(m)
      /\ Len(encode(s)) + PkLen(m) <= Len(encode(sent))
      /\ Holds(encode(sent), Len(encode(s)), encodeTinyPB(m))
  BY <1>5, EncodeSplit, Zenon
<1>7. FrameEnd(k - 1) = Len(encode(s)) /\ FrameEnd(k) = Len(encode(Append(s, m)))
  BY <1>3, <1>4, Zenon DEF FrameEnd
<1> QED BY <1>2, <1>6, <1>7, Zenon

LEMMA FrameEndsGrow ==
  ASSUME sent \in Seq(Messages)
  PROVE  /\ \A k \in 0..Len(sent) : FrameEnd(k) \in Nat
         /\ \A j \in 0..Len(sent) : \A k \in j..Len(sent) : FrameEnd(j) <= FrameEnd(k)
<1>1. PICK n \in Nat : n = Len(sent)
  BY LenProperties
<1>2. ASSUME NEW k \in 0..n PROVE FrameEnd(k) \in Nat
  <2>1. CASE k = 0
    <3>1. encode(SubSeq(sent, 1, 0)) = <<>>
      BY NoPart, EncodeEmpty, Zenon
    <3> QED BY <2>1, <3>1, EmptySeq DEF FrameEnd
  <2>2. CASE k \in 1..n
    <3>1. PICK p, q \in Nat : FrameEnd(k) = p + q
      BY <1>1, <2>2, FrameEnds, MessageParts, Zenon
    <3> QED BY <3>1
  <2> QED BY <2>1, <2>2
<1> DEFINE T == {d \in Nat : \A j \in 0..n : j + d <= n => FrameEnd(j) <= FrameEnd(j + d)}
<1>3. 0 \in T
  BY <1>2
<1>4. ASSUME NEW d \in Nat, d \in T PROVE d + 1 \in T
  <2> SUFFICES ASSUME NEW j \in 0..n, j + (d + 1) <= n
               PROVE  FrameEnd(j) <= FrameEnd(j + (d + 1))
    OBVIOUS
  <2>1. /\ j + d \in 0..n /\ j + (d + 1) \in 1..n /\ (j + (d + 1)) - 1 = j + d
        /\ j + d <= n
    OBVIOUS
  <2>2. FrameEnd(j) <= FrameEnd(j + d)
    BY <1>4, <2>1
  <2>3. PICK p \in Nat : FrameEnd(j + (d + 1)) = FrameEnd(j + d) + p
    BY <1>1, <2>1, FrameEnds, MessageParts, Zenon
  <2>4. PICK x, y \in Nat : x = FrameEnd(j) /\ y = FrameEnd(j + d)
    BY <1>2, <2>1, Zenon
  <2>5. x <= y /\ x <= y + p
    BY <2>2, <2>4
  <2> QED BY <2>3, <2>4, <2>5
<1>5. \A d \in Nat : d \in T
  <2> HIDE DEF T
  <2> QED BY <1>3, <1>4, Induction
<1>6. ASSUME NEW j \in 0..n, NEW k \in j..n PROVE FrameEnd(j) <= FrameEnd(k)
  <2>1. k - j \in Nat /\ j + (k - j) = k /\ k <= n
    OBVIOUS
  <2>2. k - j \in T
    BY <1>5, <2>1
  <2> QED BY <2>1, <2>2
<1> QED BY <1>1, <1>2, <1>6

(* The whole frames follow each other.                                       *)
LEMMA WholeIsRange ==
  ASSUME sent \in Seq(Messages), first \in Nat, last \in Nat, Whole # {}
  PROVE  /\ Min(Whole) \in 1..Len(sent) /\ Max(Whole) \in Min(Whole)..Len(sent)
         /\ \A k \in Min(Whole)..Max(Whole) : k \in Whole
         /\ \A k \in Whole : k \in Min(Whole)..Max(Whole)
<1>1. PICK n \in Nat : n = Len(sent) /\ DOMAIN sent = 1..n
  BY LenProperties
<1>2. PICK W : W = Whole
  OBVIOUS
<1>3. /\ W \in SUBSET Nat /\ W \in SUBSET (1..n)
      /\ \A k \in 1..n : k \in W <=> first <= FrameEnd(k - 1) + 1 /\ FrameEnd(k) <= last
  BY <1>1, <1>2 DEF Whole
<1>4. PICK a \in W : a = Min(W) /\ \A k \in W : a <= k
  BY <1>2, <1>3, LeastOf
<1>5. PICK b \in W : b = Max(W) /\ \A k \in W : k <= b
  BY <1>2, <1>3, GreatestNat
<1>6. a \in 1..n /\ b \in a..n
  BY <1>3, <1>4, <1>5
<1>7. ASSUME NEW k \in a..b PROVE k \in W
  <2>1. k \in 1..n /\ a - 1 \in 0..n /\ k - 1 \in a - 1..n /\ b \in k..n /\ k \in 0..n /\ k - 1 \in 0..n
    BY <1>6
  <2>2. FrameEnd(a - 1) <= FrameEnd(k - 1) /\ FrameEnd(k) <= FrameEnd(b)
    BY <1>1, <2>1, FrameEndsGrow, Zenon
  <2>3. first <= FrameEnd(a - 1) + 1 /\ FrameEnd(b) <= last
    BY <1>3, <1>6
  <2>4. PICK w, x, y, z \in Nat : /\ w = FrameEnd(a - 1) /\ x = FrameEnd(k - 1)
                                  /\ y = FrameEnd(k) /\ z = FrameEnd(b)
    BY <1>1, <1>6, <2>1, FrameEndsGrow
  <2>5. first <= x + 1 /\ y <= last
    BY <2>2, <2>3, <2>4, SMTT(20)
  <2> QED BY <1>3, <2>1, <2>4, <2>5
<1>8. \A k \in W : k \in a..b
  BY <1>3, <1>4, <1>5, <1>6
<1> QED BY <1>1, <1>2, <1>4, <1>5, <1>6, <1>7, <1>8

(* The buffer is a part of the stream, as Receive takes it.                  *)
Fits ==
    /\ first \in 1..Len(encode(sent)) /\ last \in first..Len(encode(sent))
    /\ buffer = SubSeq(encode(sent), first, last)

(* The first and the last frame that arrived whole, 1 and 0 if none did.     *)
Lo == IF Whole = {} THEN 1 ELSE Min(Whole)
Hi == IF Whole = {} THEN 0 ELSE Max(Whole)

(* The index of the buffer where frame k begins, and whether i lies in it.   *)
BeginAt(k) == FrameEnd(k - 1) + 1 - first
Covers(k, i) == first + i \in FrameEnd(k - 1) + 1 .. FrameEnd(k)

LEMMA WholeFrames ==
  ASSUME sent \in Seq(Messages), Fits
  PROVE  /\ first \in Nat /\ last \in Nat /\ Size \in Nat /\ Size = last + 1 - first
         /\ \A i \in 1..Size : buffer[i] = encode(sent)[first + i - 1]
         /\ Lo \in Nat \ {0} /\ Hi \in Nat /\ Hi >= Lo - 1 /\ Hi <= Len(sent)
         /\ \A k : k \in Whole <=> k \in Lo..Hi
<1>1. PICK s \in Seq(Byte), n \in Nat : s = encode(sent) /\ n = Len(s)
  BY EncodeIsFlat, LenProperties, Zenon
<1>2. first \in 1..n /\ last \in first..n /\ buffer = SubSeq(s, first, last)
  BY <1>1, Zenon DEF Fits
<1>3. /\ first \in Nat /\ last \in Nat /\ first \in 1..Len(s)
      /\ last \in first - 1..Len(s)
  BY <1>1, <1>2
<1>4. /\ Len(SubSeq(s, first, last)) = last + 1 - first
      /\ \A i \in 1..last + 1 - first : SubSeq(s, first, last)[i] = s[first + i - 1]
  <2>0. PICK f, l : f = first /\ l = last
    OBVIOUS
  <2>1. f \in 1..Len(s) /\ l \in f - 1..Len(s)
    BY <1>3, <2>0, Zenon
  <2>2. /\ Len(SubSeq(s, f, l)) = l + 1 - f
        /\ \A i \in 1..l + 1 - f : SubSeq(s, f, l)[i] = s[f + i - 1]
    BY <2>1, PartGrows, Zenon
  <2> QED BY <2>0, <2>2, Zenon
<1>5. Size = last + 1 - first /\ \A i \in 1..Size : buffer[i] = s[first + i - 1]
  BY <1>2, <1>4, Zenon DEF Size
<1>6. Size \in Nat
  BY <1>2, <1>5
<1>7. PICK l \in Nat : l = Len(sent)
  BY LenProperties
<1>8. CASE Whole = {}
  <2>1. Lo = 1 /\ Hi = 0
    BY <1>8, Zenon DEF Lo, Hi
  <2> QED BY <1>1, <1>3, <1>5, <1>6, <1>7, <1>8, <2>1
<1>9. CASE Whole # {}
  <2>1. Lo = Min(Whole) /\ Hi = Max(Whole)
    BY <1>9, Zenon DEF Lo, Hi
  <2>2. /\ Lo \in 1..l /\ Hi \in Lo..l
        /\ \A k \in Lo..Hi : k \in Whole
        /\ \A k \in Whole : k \in Lo..Hi
    BY <1>3, <1>7, <1>9, <2>1, WholeIsRange, Zenon
  <2>3. Lo \in Nat \ {0} /\ Hi \in Nat /\ Hi >= Lo - 1 /\ Hi <= l
    BY <2>2
  <2> QED BY <1>1, <1>3, <1>5, <1>6, <1>7, <2>2, <2>3, Zenon
<1> QED BY <1>8, <1>9

(* A frame that arrived whole lies in the buffer.                            *)
LEMMA FrameHeld ==
  ASSUME sent \in Seq(Messages), Fits, NEW k \in Whole
  PROVE  /\ sent[k] \in Messages /\ BeginAt(k) \in Nat /\ PkLen(sent[k]) \in Nat
         /\ BeginAt(k) + PkLen(sent[k]) <= Size
         /\ FrameEnd(k - 1) \in Nat /\ FrameEnd(k) = FrameEnd(k - 1) + PkLen(sent[k])
         /\ Holds(buffer, BeginAt(k), encodeTinyPB(sent[k]))
<1>1. k \in 1..Len(sent) /\ first <= FrameEnd(k - 1) + 1 /\ FrameEnd(k) <= last
  <2>1. DOMAIN sent = 1..Len(sent)
    BY LenProperties
  <2> QED BY <2>1, Zenon DEF Whole
<1>2. PICK m \in Messages, n \in Nat : /\ m = sent[k] /\ n = PkLen(m)
                                      /\ FrameEnd(k) = FrameEnd(k - 1) + n
                                      /\ FrameEnd(k - 1) \in Nat
                                      /\ Holds(encode(sent), FrameEnd(k - 1), encodeTinyPB(m))
  BY <1>1, FrameEnds, MessageParts, Zenon
<1>3. PICK e \in Seq(Byte) : e = encodeTinyPB(m) /\ Len(e) = n
  BY <1>2, FrameLayout, Zenon
<1>4. PICK f \in Nat, b \in Nat, z \in Nat :
        /\ f = FrameEnd(k - 1) /\ b = BeginAt(k) /\ b = f + 1 - first /\ z = Size
        /\ first \in Nat /\ b + n <= z
  <2>1. first \in Nat /\ last \in Nat /\ Size \in Nat /\ Size = last + 1 - first
    BY WholeFrames, Zenon
  <2>2. BeginAt(k) = FrameEnd(k - 1) + 1 - first
    BY Zenon DEF BeginAt
  <2> QED BY <1>1, <1>2, <2>1, <2>2
<1>5. PICK s : s = encode(sent)
  OBVIOUS
<1>6. ASSUME NEW i \in 1..n PROVE buffer[b + i] = e[i]
  <2>1. b + i \in 1..z /\ first + (b + i) - 1 = f + i
    <3>1. b = f + 1 - first /\ first \in Nat /\ b + n <= z
      BY <1>4, Zenon
    <3> QED BY <3>1
  <2>2. buffer[b + i] = s[f + i]
    BY <1>4, <1>5, <2>1, WholeFrames, Zenon
  <2>3. s[f + i] = e[i]
    BY <1>2, <1>3, <1>4, <1>5, Zenon DEF Holds
  <2> QED BY <2>2, <2>3
<1>7. Holds(buffer, b, e)
  BY <1>3, <1>6, Zenon DEF Holds
<1> QED BY <1>2, <1>3, <1>4, <1>7, Zenon

(* Behind frame k, decode has nothing left but the frames that follow it and *)
(* pieces of cut ones.                                                       *)
Reached(k) ==
    /\ \A i \in start_index..Size-1 :
         i \in CutPart \/ \E j \in Whole : j > k /\ Covers(j, i)
    /\ \A j \in Whole : j > k => start_index <= BeginAt(j)

Decoded(k) == out_messages = SubSeq(sent, Lo, k) /\ Reached(k)

CutInv ==
    pc # "idle" =>
      /\ Fits
      /\ \/ Misled
         \/ pc = "decode" /\ \E k \in Lo-1..Hi : Decoded(k)
         \/ pc = "done" /\ out_messages = SubSeq(sent, Lo, Hi)

(* Behind the last of the whole frames the scan finds nothing.               *)
LEMMA NoMore ==
  ASSUME TypeOK, Fits, ~Misled, Reached(Hi)
  PROVE  Candidates = {} /\ ~AstrayBefore(Size)
<1>1. sent \in Seq(Messages) /\ start_index \in Nat
  BY Zenon DEF TypeOK
<1>2. Hi \in Nat /\ Lo \in Nat /\ \A k : k \in Whole <=> k \in Lo..Hi
  BY <1>1, WholeFrames, Zenon
<1>3. \A j \in Whole : ~(j > Hi)
  BY <1>2
<1>4. \A i \in start_index..Size-1 : ~Astray(i) /\ ~LooksLikeFrame(i)
  BY <1>3, Zenon DEF Reached, Misled
<1> QED BY <1>4, Zenon DEF Candidates, AstrayBefore

(* Before it, the next whole frame is the first the scan finds.              *)
LEMMA NextWhole ==
  ASSUME TypeOK, Fits, ~Misled, NEW k \in Lo-1..Hi, k # Hi, Reached(k)
  PROVE  /\ k + 1 \in Lo..Hi /\ Candidates # {} /\ Min(Candidates) = BeginAt(k + 1)
         /\ WellFormed(BeginAt(k + 1)) /\ ~Aborts(BeginAt(k + 1))
         /\ MessageAt(BeginAt(k + 1)) = sent[k + 1]
         /\ EndOf(BeginAt(k + 1)) + 1 = FrameEnd(k + 1) + 1 - first
<1>1. sent \in Seq(Messages) /\ start_index \in Nat /\ buffer \in Seq(Byte) /\ slack \in Byte
  BY Zenon DEF TypeOK
<1>2. /\ first \in Nat /\ Lo \in Nat \ {0} /\ Hi \in Nat
      /\ \A j : j \in Whole <=> j \in Lo..Hi
  BY <1>1, WholeFrames, Zenon
<1>3. PICK h : h = k + 1
  OBVIOUS
<1>4. h \in Lo..Hi /\ h > k /\ h - 1 = k /\ h \in Int /\ h \in Whole
  BY <1>2, <1>3
<1>5. PICK m \in Messages, b, n, z, f \in Nat :
        /\ m = sent[h] /\ b = BeginAt(h) /\ n = PkLen(m) /\ z = Size /\ b + n <= z
        /\ f = FrameEnd(h - 1) /\ FrameEnd(h) = f + n
        /\ Holds(buffer, b, encodeTinyPB(m))
  BY <1>1, <1>4, FrameHeld, WholeFrames, Zenon
<1>6. b = f + 1 - first
  BY <1>5, Zenon DEF BeginAt
<1>7. /\ b \in 0..Size-1 /\ LooksLikeFrame(b) /\ WellFormed(b) /\ ~Overrun(b)
      /\ EndOf(b) = b + n - 1 /\ DataLen(b) = Len(m.pb_data) /\ MessageAt(b) = m
  BY <1>1, <1>5, HeldFrameIsRead, Zenon
<1>8. start_index <= b
  BY <1>4, <1>5, Zenon DEF Reached
<1>9. ASSUME NEW i \in start_index..b-1 PROVE ~Astray(i) /\ ~LooksLikeFrame(i)
  <2>1. i \in start_index..Size-1 /\ i \in Nat
    BY <1>1, <1>5, <1>7
  <2>2. ASSUME NEW j \in Whole, j > k, Covers(j, i) PROVE FALSE
    <3>1. /\ j \in Lo..Hi /\ j - 1 \in 0..Len(sent) /\ h - 1 \in 0..Len(sent)
          /\ j - 1 \in h - 1..Len(sent)
      <4>1. Hi <= Len(sent) /\ Len(sent) \in Nat
        BY <1>1, WholeFrames, LenProperties, Zenon
      <4> QED BY <1>2, <1>4, <2>2, <4>1
    <3>2. f <= FrameEnd(j - 1) /\ FrameEnd(j - 1) \in Nat
      BY <1>1, <1>5, <3>1, FrameEndsGrow, Zenon
    <3>3. FrameEnd(j - 1) + 1 <= first + i
      <4>1. PICK p \in Nat, q \in Nat : p = FrameEnd(j - 1) /\ q = FrameEnd(j)
        <5>1. PICK q : q = FrameEnd(j)
          OBVIOUS
        <5>2. PICK p, r \in Nat : p = FrameEnd(j - 1) /\ q = p + r
          BY <1>1, <2>2, <3>2, <5>1, FrameHeld, Zenon
        <5> QED BY <5>1, <5>2
      <4>2. first + i \in p + 1 .. q
        BY <2>2, <4>1, Zenon DEF Covers
      <4> QED BY <1>2, <2>1, <4>1, <4>2
    <3> QED BY <1>2, <1>6, <2>1, <3>2, <3>3
  <2>3. i \in CutPart
    BY <2>1, <2>2, Zenon DEF Reached
  <2> QED BY <2>3, Zenon DEF Misled
<1>10. Candidates # {} /\ Min(Candidates) = b
  <2>1. PICK T : T = Candidates
    OBVIOUS
  <2>2. b \in T /\ T \subseteq Nat /\ \A i \in T : i >= start_index /\ LooksLikeFrame(i)
    <3>1. /\ b \in start_index..Size-1
          /\ \A i \in start_index..Size-1 : i \in Nat /\ i >= start_index
      BY <1>1, <1>7, <1>8
    <3> QED BY <1>7, <2>1, <3>1, Zenon DEF Candidates
  <2>3. \A i \in T : b <= i
    <3> SUFFICES ASSUME NEW i \in T, ~(b <= i) PROVE FALSE
      OBVIOUS
    <3>1. i \in start_index..b-1
      BY <1>1, <2>2
    <3> QED BY <1>9, <2>2, <3>1, Zenon
  <2>4. \A x \in T : (\A y \in T : x <= y) => x = b
    BY <2>2, <2>3
  <2>5. Min(T) = b
    BY <2>2, <2>3, <2>4 DEF Min
  <2> QED BY <2>1, <2>2, <2>5
<1>11. ~Aborts(b)
  <2>1. ~AstrayBefore(b)
    BY <1>9, Zenon DEF AstrayBefore
  <2>2. PICK d \in Nat : d = Len(m.pb_data)
    BY MessageParts, Zenon
  <2>3. ~(DataLen(b) < 0)
    BY <1>7, <2>2
  <2> QED BY <1>7, <2>1, <2>3, Zenon DEF Aborts
<1>12. EndOf(b) + 1 = FrameEnd(h) + 1 - first
  <2>1. (b + n - 1) + 1 = (f + n) + 1 - first
    <3>1. first \in Nat
      BY <1>2, Zenon
    <3> QED BY <1>6, <3>1
  <2> QED BY <1>5, <1>7, <2>1, Zenon
<1> QED BY <1>3, <1>4, <1>5, <1>7, <1>10, <1>11, <1>12, Zenon

(* decode and the sender's ids leave the buffer alone.                       *)
LEMMA BufferStays ==
  ASSUME sent' = sent, first' = first, last' = last, buffer' = buffer, slack' = slack
  PROVE  /\ Whole' = Whole /\ CutPart' = CutPart /\ Lo' = Lo /\ Hi' = Hi /\ Size' = Size
         /\ (Fits' <=> Fits) /\ (Misled' <=> Misled)
         /\ \A k : BeginAt(k)' = BeginAt(k)
         /\ \A k, i : Covers(k, i)' <=> Covers(k, i)
<1>1. \A k : FrameEnd(k)' = FrameEnd(k)
  BY Zenon DEF FrameEnd
<1>2. Size' = Size /\ Memory' = Memory
  BY Zenon DEF Size, Memory
<1>3. Whole' = Whole
  BY <1>1 DEF Whole
<1>4. CutPart' = CutPart
  <2>1. \A k : (FrameEnd(k - 1) + 1 .. FrameEnd(k))' = FrameEnd(k - 1) + 1 .. FrameEnd(k)
    BY <1>1, Zenon
  <2>2. {(FrameEnd(k - 1) + 1 .. FrameEnd(k))' : k \in Whole'}
          = {FrameEnd(k - 1) + 1 .. FrameEnd(k) : k \in Whole}
    BY <1>3, <2>1
  <2> QED BY <1>2, <2>2, Zenon DEF CutPart
<1>5. Lo' = Lo /\ Hi' = Hi
  BY <1>3, Zenon DEF Lo, Hi
<1>6. Fits' <=> Fits
  BY Zenon DEF Fits
<1>7. At' = At
  BY <1>2, Zenon DEF At
<1>8. Int32At' = Int32At
  BY <1>2, Zenon DEF Int32At
<1>9. \A i : (Astray(i)' <=> Astray(i)) /\ (LooksLikeFrame(i)' <=> LooksLikeFrame(i))
  <2>1. \A i : EndOf(i)' = EndOf(i)
    BY <1>8, Zenon DEF EndOf
  <2> QED BY <1>2, <1>7, <2>1, Zenon DEF Astray, LooksLikeFrame
<1>10. Misled' <=> Misled
  BY <1>4, <1>9, Zenon DEF Misled
<1>11. /\ \A k : BeginAt(k)' = BeginAt(k)
       /\ \A k, i : Covers(k, i)' <=> Covers(k, i)
  BY <1>1, Zenon DEF BeginAt, Covers
<1> QED BY <1>2, <1>3, <1>4, <1>5, <1>6, <1>10, <1>11, Zenon

LEMMA AnyPartReceived ==
  ASSUME sent \in Seq(Messages), Fits, start_index = 0, out_messages = <<>>
  PROVE  Lo - 1 \in Lo-1..Hi /\ Decoded(Lo - 1)
<1>1. /\ Lo \in Nat \ {0} /\ Hi \in Nat /\ Hi >= Lo - 1 /\ Hi <= Len(sent)
      /\ \A k : k \in Whole <=> k \in Lo..Hi
  BY WholeFrames, Zenon
<1>2. Lo - 1 \in Lo-1..Hi /\ \A j \in Whole : j > Lo - 1
  BY <1>1
<1>3. SubSeq(sent, Lo, Lo - 1) = <<>>
  <2>1. CASE Whole = {}
    BY <2>1, NoPart DEF Lo
  <2>2. CASE Whole # {}
    <3>1. PICK l \in Nat, n \in Nat : l = Lo /\ n = Len(sent)
      BY <1>1, LenProperties
    <3>2. PICK j \in Whole : TRUE
      BY <2>2
    <3>3. l \in 1..Len(sent) /\ l - 1 \in l-1..Len(sent)
      BY <1>1, <3>1, <3>2
    <3>4. SubSeq(sent, l, l - 1) = <<>>
      BY <3>3, PartGrows, Zenon
    <3> QED BY <3>1, <3>4
  <2> QED BY <2>1, <2>2
<1>4. ASSUME NEW i \in start_index..Size-1, i \notin CutPart
      PROVE  \E j \in Whole : j > Lo - 1 /\ Covers(j, i)
  <2>1. first + i \in UNION {FrameEnd(k - 1) + 1 .. FrameEnd(k) : k \in Whole}
    BY <1>4, Zenon DEF CutPart
  <2> QED BY <1>2, <2>1, Zenon DEF Covers
<1>5. ASSUME NEW j \in Whole PROVE start_index <= BeginAt(j)
  BY FrameHeld
<1> QED BY <1>2, <1>3, <1>4, <1>5, Zenon DEF Decoded, Reached

LEMMA AnyPartReceivedNext ==
  (sent \in Seq(Messages) /\ Fits /\ start_index = 0 /\ out_messages = <<>>)'
    => (Lo - 1 \in Lo-1..Hi /\ Decoded(Lo - 1))'
BY AnyPartReceived, PTL

LEMMA ReceiveCut ==
  ASSUME CodecInv, CutInv, Receive, CodecInv'
  PROVE  CutInv'
<1>1. /\ pc = "idle" /\ pc' = "decode" /\ sent' = sent
      /\ start_index' = start_index /\ out_messages' = out_messages
      /\ \E f \in 1..Len(encode(sent)) : \E l \in f..Len(encode(sent)) :
           first' = f /\ last' = l /\ buffer' = SubSeq(encode(sent), f, l)
  BY Zenon DEF Receive
<1>2. start_index' = 0 /\ out_messages' = <<>> /\ sent' \in Seq(Messages)
  BY <1>1, Zenon DEF CodecInv, TypeOK
<1>3. Fits'
  BY <1>1, Zenon DEF Fits
<1>4. (Lo - 1 \in Lo-1..Hi /\ Decoded(Lo - 1))'
  BY <1>2, <1>3, AnyPartReceivedNext, Zenon
<1>5. \E k \in (Lo-1..Hi)' : Decoded(k)'
  BY <1>4, Zenon
<1> QED BY <1>1, <1>3, <1>5, Zenon DEF CutInv

LEMMA FinishCut ==
  ASSUME CodecInv, CutInv, Finish
  PROVE  CutInv'
<1>1. /\ pc = "decode" /\ Candidates = {} /\ pc # "idle" /\ pc # "done"
      /\ pc' = IF AstrayBefore(Size) THEN "aborted" ELSE "done"
      /\ sent' = sent /\ first' = first /\ last' = last /\ buffer' = buffer
      /\ slack' = slack /\ out_messages' = out_messages
  BY Zenon DEF Finish
<1>2. TypeOK /\ Fits
  BY <1>1, Zenon DEF CodecInv, CutInv
<1>3. /\ Lo' = Lo /\ Hi' = Hi /\ (Fits' <=> Fits) /\ (Misled' <=> Misled)
  BY <1>1, BufferStays, Zenon
<1>4. CASE Misled
  BY <1>2, <1>3, <1>4, Zenon DEF CutInv
<1>5. CASE ~Misled
  <2>1. PICK k \in Lo-1..Hi : Decoded(k)
    BY <1>1, <1>5, Zenon DEF CutInv
  <2>2. out_messages = SubSeq(sent, Lo, k) /\ Reached(k)
    BY <2>1, Zenon DEF Decoded
  <2>3. k = Hi
    BY <1>1, <1>2, <1>5, <2>2, NextWhole, Zenon
  <2>4. ~AstrayBefore(Size)
    BY <1>2, <1>5, <2>2, <2>3, NoMore, Zenon
  <2>5. pc' = "done" /\ out_messages' = SubSeq(sent', Lo', Hi')
    BY <1>1, <1>3, <2>2, <2>3, <2>4, Zenon
  <2> QED BY <1>2, <1>3, <2>5, Zenon DEF CutInv
<1> QED BY <1>4, <1>5

LEMMA TakeNext ==
  ASSUME TypeOK, Fits, ~Misled, NEW k \in Lo-1..Hi, k # Hi, Decoded(k),
         start_index' = EndOf(BeginAt(k + 1)) + 1, sent' = sent, first' = first,
         last' = last, buffer' = buffer, slack' = slack,
         out_messages' = Append(out_messages, MessageAt(BeginAt(k + 1)))
  PROVE  k + 1 \in Lo-1..Hi /\ Decoded(k + 1)'
<1>1. out_messages = SubSeq(sent, Lo, k) /\ Reached(k)
  BY Zenon DEF Decoded
<1>2. /\ k + 1 \in Lo..Hi /\ MessageAt(BeginAt(k + 1)) = sent[k + 1]
      /\ EndOf(BeginAt(k + 1)) + 1 = FrameEnd(k + 1) + 1 - first
  BY <1>1, NextWhole, Zenon
<1>3. /\ Whole' = Whole /\ CutPart' = CutPart /\ Lo' = Lo /\ Size' = Size
      /\ \A j : BeginAt(j)' = BeginAt(j)
      /\ \A j, i : Covers(j, i)' <=> Covers(j, i)
  BY BufferStays, Zenon
<1>4. /\ sent \in Seq(Messages) /\ start_index \in Nat
  BY Zenon DEF TypeOK
<1>5. /\ first \in Nat /\ Size \in Nat
      /\ Lo \in Nat \ {0} /\ Hi \in Nat /\ Hi >= Lo - 1 /\ Hi <= Len(sent)
      /\ \A j : j \in Whole <=> j \in Lo..Hi
  BY <1>4, WholeFrames, Zenon
<1>6. PICK h, l, n \in Nat : h = k + 1 /\ l = Lo /\ n = Len(sent)
  <2>1. Lo \in Nat \ {0} /\ Hi \in Nat
    BY <1>5, Zenon
  <2>2. k + 1 \in Nat /\ Lo \in Nat
    BY <2>1
  <2> QED BY <1>4, <2>2, LenProperties, Zenon
<1>7. /\ l \in 1..Len(sent) /\ h \in l-1..Len(sent) /\ h # l - 1 /\ h - 1 = k
      /\ h \in Lo-1..Hi /\ h \in Whole /\ h > k
  BY <1>2, <1>5, <1>6
<1>8. out_messages' = SubSeq(sent, l, h)
  <2>1. SubSeq(sent, l, h) = Append(SubSeq(sent, l, h - 1), sent[h])
    BY <1>4, <1>7, PartGrows, Zenon
  <2> QED BY <1>1, <1>2, <1>6, <1>7, <2>1, Zenon
<1>9. PICK b, f, p \in Nat : /\ b = BeginAt(h) /\ f = FrameEnd(h - 1) /\ f + p = FrameEnd(h)
                            /\ b + p <= Size
  BY <1>4, <1>7, FrameHeld, Zenon
<1>10. b = f + 1 - first
  BY <1>9, Zenon DEF BeginAt
<1>11. start_index' = b + p
  <2>1. start_index' = (f + p) + 1 - first
    BY <1>2, <1>6, <1>9, Zenon
  <2> QED BY <1>5, <1>10, <2>1
<1>12. ASSUME NEW j \in Whole, j > h PROVE b + p <= BeginAt(j)
  <2>1. /\ j - 1 \in 0..Len(sent) /\ h \in 0..Len(sent) /\ j - 1 \in h..Len(sent)
    BY <1>5, <1>6, <1>12
  <2>2. FrameEnd(h) <= FrameEnd(j - 1) /\ FrameEnd(j - 1) \in Nat
    BY <1>4, <2>1, FrameEndsGrow, Zenon
  <2>3. BeginAt(j) = FrameEnd(j - 1) + 1 - first
    BY Zenon DEF BeginAt
  <2>4. PICK g \in Nat : g = FrameEnd(j - 1) /\ f + p <= g
    BY <1>9, <2>2, Zenon
  <2>5. first \in Nat
    BY <1>5, Zenon
  <2>6. b + p <= g + 1 - first
    BY <1>10, <2>4, <2>5
  <2> QED BY <2>3, <2>4, <2>6, Zenon
<1>13. ASSUME NEW i \in b + p .. Size-1, i \notin CutPart
       PROVE  \E j \in Whole : j > h /\ Covers(j, i)
  <2>1. start_index <= b
    BY <1>1, <1>6, <1>7, <1>9, Zenon DEF Reached
  <2>2. i \in start_index..Size-1 /\ i \in Nat
    BY <1>4, <1>5, <2>1
  <2>3. PICK j \in Whole : j > k /\ Covers(j, i)
    BY <1>1, <1>13, <2>2, Zenon DEF Reached
  <2>4. j # h
    <3> SUFFICES ASSUME j = h PROVE FALSE
      OBVIOUS
    <3>1. first + i \in f + 1 .. f + p
      BY <1>9, <2>3, Zenon DEF Covers
    <3> QED BY <1>5, <1>10, <2>2, <3>1
  <2>5. j > h
    BY <1>5, <1>6, <1>7, <2>3, <2>4
  <2> QED BY <2>3, <2>5
<1>14. Reached(h)'
  BY <1>3, <1>11, <1>12, <1>13, Zenon DEF Reached
<1>15. Decoded(h)'
  BY <1>3, <1>6, <1>8, <1>14, Zenon DEF Decoded
<1> QED BY <1>6, <1>7, <1>15, Zenon

LEMMA TakeCut ==
  ASSUME CodecInv, CutInv, Take
  PROVE  CutInv'
<1>1. PICK i : /\ i = Min(Candidates) /\ Candidates # {} /\ pc # "idle" /\ pc # "done"
               /\ sent' = sent /\ first' = first /\ last' = last /\ buffer' = buffer
               /\ slack' = slack /\ pc = "decode"
               /\ \/ Aborts(i)
                  \/ /\ pc' = pc /\ start_index' = EndOf(i) + 1
                     /\ out_messages' = Append(out_messages, MessageAt(i))
  BY Zenon DEF Take, Advance
<1>2. TypeOK /\ Fits
  BY <1>1, Zenon DEF CodecInv, CutInv
<1>3. /\ Lo' = Lo /\ Hi' = Hi /\ (Fits' <=> Fits) /\ (Misled' <=> Misled)
  BY <1>1, BufferStays, Zenon
<1>4. CASE Misled
  BY <1>2, <1>3, <1>4, Zenon DEF CutInv
<1>5. CASE ~Misled
  <2>1. PICK k \in Lo-1..Hi : Decoded(k)
    BY <1>1, <1>5, Zenon DEF CutInv
  <2>2. Reached(k)
    BY <2>1, Zenon DEF Decoded
  <2>3. k # Hi
    BY <1>1, <1>2, <1>5, <2>2, NoMore, Zenon
  <2>4. i = BeginAt(k + 1) /\ ~Aborts(i)
    BY <1>1, <1>2, <1>5, <2>2, <2>3, NextWhole, Zenon
  <2>5. /\ pc' = "decode" /\ start_index' = EndOf(BeginAt(k + 1)) + 1
        /\ out_messages' = Append(out_messages, MessageAt(BeginAt(k + 1)))
    BY <1>1, <2>4, Zenon
  <2>6. k + 1 \in Lo-1..Hi /\ Decoded(k + 1)'
    BY <1>1, <1>2, <1>5, <2>1, <2>3, <2>5, TakeNext, Zenon
  <2>7. \E j \in (Lo-1..Hi)' : Decoded(j)'
    BY <1>3, <2>6, Zenon
  <2> QED BY <1>2, <1>3, <2>5, <2>7, Zenon DEF CutInv
<1> QED BY <1>4, <1>5

LEMMA SkipCut ==
  ASSUME CodecInv, CutInv, Skip
  PROVE  CutInv'
<1>1. PICK i : /\ i = Min(Candidates) /\ Candidates # {} /\ pc # "idle" /\ pc # "done"
               /\ sent' = sent /\ first' = first /\ last' = last /\ buffer' = buffer
               /\ slack' = slack /\ ~WellFormed(i)
  BY Zenon DEF Skip
<1>2. TypeOK /\ Fits
  BY <1>1, Zenon DEF CodecInv, CutInv
<1>3. (Fits' <=> Fits) /\ (Misled' <=> Misled)
  BY <1>1, BufferStays, Zenon
<1>4. Misled
  <2> SUFFICES ASSUME ~Misled PROVE FALSE
    OBVIOUS
  <2>1. PICK k \in Lo-1..Hi : Decoded(k)
    BY <1>1, Zenon DEF CutInv
  <2>2. Reached(k)
    BY <2>1, Zenon DEF Decoded
  <2>3. k # Hi
    BY <1>1, <1>2, <2>2, NoMore, Zenon
  <2> QED BY <1>1, <1>2, <2>2, <2>3, NextWhole, Zenon
<1> QED BY <1>2, <1>3, <1>4, Zenon DEF CutInv

LEMMA CutStep == CodecInv /\ CodecInv' /\ CutInv /\ [Next]_vars => CutInv'
<1> SUFFICES ASSUME CodecInv, CodecInv', CutInv, [Next]_vars PROVE CutInv'
  OBVIOUS
<1>1. ASSUME UNCHANGED codecVars PROVE CutInv'
  <2>1. /\ sent' = sent /\ first' = first /\ last' = last /\ buffer' = buffer
        /\ slack' = slack /\ start_index' = start_index /\ out_messages' = out_messages
        /\ pc' = pc
    BY <1>1, Zenon DEF codecVars
  <2>2. /\ Whole' = Whole /\ CutPart' = CutPart /\ Lo' = Lo /\ Hi' = Hi /\ Size' = Size
        /\ (Fits' <=> Fits) /\ (Misled' <=> Misled)
        /\ \A k : BeginAt(k)' = BeginAt(k)
        /\ \A k, i : Covers(k, i)' <=> Covers(k, i)
    BY <2>1, BufferStays, Zenon
  <2>3. \A k : Reached(k)' <=> Reached(k)
    BY <2>1, <2>2, Zenon DEF Reached
  <2>4. \A k : Decoded(k)' <=> Decoded(k)
    BY <2>1, <2>2, <2>3, Zenon DEF Decoded
  <2> QED BY <2>1, <2>2, <2>4, Zenon DEF CutInv
<1>2. CASE DrawId
  BY <1>1, <1>2, Zenon DEF DrawId
<1>3. CASE \E m \in Outgoing : Send(m)
  <2>1. pc' = "idle"
    BY <1>3, Zenon DEF Send
  <2> QED BY <2>1 DEF CutInv
<1>4. CASE Receive
  BY <1>4, ReceiveCut
<1>5. CASE Finish
  BY <1>5, FinishCut
<1>6. CASE Skip
  BY <1>6, SkipCut
<1>7. CASE Take
  BY <1>7, TakeCut
<1>8. CASE UNCHANGED vars
  BY <1>1, <1>8, Zenon DEF vars
<1> QED BY <1>2, <1>3, <1>4, <1>5, <1>6, <1>7, <1>8, Zenon DEF Next, DecodeStep

(* Wherever TCP cuts the stream, decode (cc:33-137) returns the messages of  *)
(* the frames that arrived whole, in order, and nothing else, unless bytes   *)
(* of a frame that did not arrive whole mislead it: whatever the ids, names, *)
(* texts and payloads are.                                                   *)
THEOREM WholeFramesFound == Spec => []WholeFramesDecoded
<1>1. Init => CutInv
  <2> SUFFICES ASSUME Init PROVE pc = "idle"
    BY Zenon DEF CutInv
  <2> QED BY Zenon DEF Init
<1>2. ASSUME CodecInv, CutInv PROVE WholeFramesDecoded
  <2> SUFFICES ASSUME ~Misled
               PROVE  /\ pc = "done" =>
                           out_messages = IF Whole = {} THEN <<>>
                                          ELSE SubSeq(sent, Min(Whole), Max(Whole))
                      /\ pc # "aborted"
    BY Zenon DEF WholeFramesDecoded
  <2>1. pc # "aborted"
    <3> SUFFICES ASSUME pc = "aborted" PROVE FALSE
      OBVIOUS
    <3>1. pc # "idle" /\ pc # "decode" /\ pc # "done"
      OBVIOUS
    <3> QED BY <1>2, <3>1, Zenon DEF CutInv
  <2>2. ASSUME pc = "done"
        PROVE  out_messages = IF Whole = {} THEN <<>>
                              ELSE SubSeq(sent, Min(Whole), Max(Whole))
    <3>1. pc # "idle" /\ pc # "decode"
      BY <2>2
    <3>2. out_messages = SubSeq(sent, Lo, Hi)
      BY <1>2, <3>1, Zenon DEF CutInv
    <3>3. sent \in Seq(Messages)
      BY <1>2, Zenon DEF CodecInv, TypeOK
    <3>4. CASE Whole = {}
      <4>1. Lo = 1 /\ Hi = 0 /\ SubSeq(sent, 1, 0) = <<>>
        BY <3>3, <3>4, NoPart, Zenon DEF Lo, Hi
      <4> QED BY <3>2, <3>4, <4>1, Zenon
    <3>5. CASE Whole # {}
      BY <3>2, <3>5, Zenon DEF Lo, Hi
    <3> QED BY <3>4, <3>5
  <2> QED BY <2>1, <2>2
<1> QED BY <1>1, <1>2, CutStep, CodecInvHolds, PTL DEF Spec
=============================================================================
