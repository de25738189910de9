--------------------------- MODULE SequenceLemmas ---------------------------
(***************************************************************************)
(* Induction over the naturals, and what the recursive functions on          *)
(* sequences that the models use compute, for sequences of every length.     *)
(*                                                                           *)
(* The induction theorems of the library take the predicate as an operator.  *)
(* Here it is a set instead: what holds of every number is a set that holds  *)
(* them all.                                                                 *)
(***************************************************************************)
EXTENDS Integers, Sequences, SequencesExt, SequenceTheorems, WellFoundedInduction, TLAPS

(* Every set of numbers that is not empty has a least one.                   *)
LEMMA LeastNat ==
  ASSUME NEW T \in SUBSET Nat, T # {}
  PROVE  \E m \in T : \A n \in T : m <= n
<1>1. IsWellFoundedOn(OpToRel(<, Nat), Nat)
  BY NatLessThanWellFounded, Zenon
<1>2. \A x, y \in Nat : x < y => <<x, y>> \in OpToRel(<, Nat)
  BY DEF OpToRel
<1>3. PICK R : IsWellFoundedOn(R, Nat) /\ \A x, y \in Nat : x < y => <<x, y>> \in R
  BY <1>1, <1>2, Zenon
<1>4. T \subseteq Nat
  OBVIOUS
<1>5. \E x \in T : \A y \in T : ~ (<<y, x>> \in R)
  <2>1. IsWellFoundedOn(R, Nat)
    BY <1>3
  <2> QED BY <1>4, <2>1, WFMin, Zenon
<1>6. PICK m \in T : \A n \in T : ~ (<<n, m>> \in R)
  BY <1>5
<1>7. ASSUME NEW n \in T PROVE m <= n
  <2>1. n \in Nat /\ m \in Nat
    BY <1>4
  <2>2. ~(n < m)
    BY <1>3, <1>6, <2>1, Zenon
  <2> QED BY <2>1, <2>2
<1> QED BY <1>7

(* A set that holds 0, and with every number the next, holds all numbers.    *)
LEMMA Induction ==
  ASSUME NEW T, 0 \in T, \A n \in Nat : n \in T => n + 1 \in T
  PROVE  \A n \in Nat : n \in T
<1> SUFFICES ASSUME Nat \ T # {} PROVE FALSE
  OBVIOUS
<1>1. PICK m \in Nat \ T : \A n \in Nat \ T : m <= n
  BY LeastNat
<1>2. m # 0 /\ m - 1 \in Nat
  BY <1>1
<1>3. m - 1 \in T
  BY <1>1, <1>2
<1> QED BY <1>1, <1>2, <1>3

(* A set that holds <<>>, and with every sequence all that are one longer,   *)
(* holds all sequences.                                                      *)
LEMMA SeqInduction ==
  ASSUME NEW S, NEW T, <<>> \in T,
         \A s \in Seq(S), e \in S : s \in T => Append(s, e) \in T
  PROVE  \A s \in Seq(S) : s \in T
<1> DEFINE U == {n \in Nat : \A s \in Seq(S) : Len(s) = n => s \in T}
<1>1. 0 \in U
  <2> SUFFICES ASSUME NEW s \in Seq(S), Len(s) = 0 PROVE s \in T
    OBVIOUS
  <2>1. s = <<>>
    BY EmptySeq
  <2> QED BY <2>1
<1>2. ASSUME NEW n \in Nat, n \in U PROVE n + 1 \in U
  <2> SUFFICES ASSUME NEW s \in Seq(S), Len(s) = n + 1 PROVE s \in T
    OBVIOUS
  <2>1. s # <<>>
    OBVIOUS
  <2>2. PICK u \in Seq(S), e \in S : s = Append(u, e)
    BY <2>1, SequenceEmptyOrAppend
  <2>3. Len(u) = n
    <3>1. Len(s) = Len(u) + 1 /\ Len(u) \in Nat
      BY <2>2, AppendProperties
    <3> QED BY <3>1
  <2>4. u \in T
    BY <1>2, <2>3
  <2> QED BY <2>2, <2>4
<1> HIDE DEF U
<1>3. \A n \in Nat : n \in U
  BY <1>1, <1>2, Induction
<1>4. ASSUME NEW s \in Seq(S) PROVE s \in T
  <2>1. Len(s) \in Nat
    OBVIOUS
  <2> QED BY <1>3, <2>1 DEF U
<1> QED BY <1>4

LEMMA AppendConcat ==
  ASSUME NEW S, NEW s \in Seq(S), NEW u \in Seq(S), NEW e \in S
  PROVE  s \o Append(u, e) = Append(s \o u, e)
<1>1. <<e>> \in Seq(S)
  OBVIOUS
<1>2. s \o u \in Seq(S)
  BY ConcatProperties
<1>3. Append(u, e) = u \o <<e>>
  BY AppendIsConcat
<1>4. Append(s \o u, e) = (s \o u) \o <<e>>
  BY <1>2, AppendIsConcat
<1>5. (s \o u) \o <<e>> = s \o (u \o <<e>>)
  BY <1>1, ConcatAssociative
<1> QED BY <1>3, <1>4, <1>5

-----------------------------------------------------------------------------
(* FlattenSeq                                                                *)

(* f is the function FlattenSeq defines for s, as far as n.                  *)
Unrolls(f, s, n) == f = [i \in 1..n |-> IF i = 1 THEN s[i] ELSE f[i-1] \o s[i]]

LEMMA UnrollsExists ==
  ASSUME NEW s, NEW n \in Nat
  PROVE  \E f : Unrolls(f, s, n)
<1> DEFINE T == {k \in Nat : \E f : Unrolls(f, s, k)}
<1>1. 0 \in T
  <2>1. Unrolls(<<>>, s, 0)
    BY DEF Unrolls
  <2> QED BY <2>1
<1>2. ASSUME NEW k \in Nat, k \in T PROVE k + 1 \in T
  <2>1. PICK f : Unrolls(f, s, k)
    BY <1>2
  <2> DEFINE g == [i \in 1..k+1 |-> IF i <= k THEN f[i] ELSE IF i = 1 THEN s[i] ELSE f[i-1] \o s[i]]
  <2>2. ASSUME NEW i \in 1..k+1
        PROVE  g[i] = IF i = 1 THEN s[i] ELSE g[i-1] \o s[i]
    <3>1. CASE i <= k
      <4>1. i \in 1..k /\ g[i] = f[i] /\ (i # 1 => g[i-1] = f[i-1])
        BY <3>1
      <4> QED BY <2>1, <4>1 DEF Unrolls
    <3>2. CASE i = k + 1
      <4>1. i # 1 => g[i-1] = f[i-1]
        BY <3>2
      <4> QED BY <3>2, <4>1
    <3> QED BY <3>1, <3>2
  <2>3. Unrolls(g, s, k + 1)
    <3> HIDE DEF g
    <3>1. g = [i \in 1..k+1 |-> g[i]]
      BY DEF g
    <3> QED BY <2>2, <3>1 DEF Unrolls
  <2> QED BY <2>3
<1> HIDE DEF T
<1>3. \A k \in Nat : k \in T
  BY <1>1, <1>2, Induction
<1> QED BY <1>3 DEF T

LEMMA FlattenUnrolls ==
  ASSUME NEW s, NEW n \in Nat \ {0}, Len(s) = n
  PROVE  \E f : Unrolls(f, s, n) /\ FlattenSeq(s) = f[n]
<1>1. \E f : f = [i \in 1..Len(s) |-> IF i = 1 THEN s[i] ELSE f[i-1] \o s[i]]
  BY UnrollsExists DEF Unrolls
<1> DEFINE f == CHOOSE f : f = [i \in 1..Len(s) |-> IF i = 1 THEN s[i] ELSE f[i-1] \o s[i]]
<1>2. f = [i \in 1..Len(s) |-> IF i = 1 THEN s[i] ELSE f[i-1] \o s[i]]
  BY <1>1, Zenon
<1>3. FlattenSeq(s) = f[Len(s)]
  BY Zenon DEF FlattenSeq
<1> QED BY <1>2, <1>3, Zenon DEF Unrolls

LEMMA UnrollsStep ==
  ASSUME NEW s, NEW f, NEW n \in Nat, NEW i \in 1..n, Unrolls(f, s, n)
  PROVE  f[i] = IF i = 1 THEN s[i] ELSE f[i-1] \o s[i]
BY Zenon DEF Unrolls

(* Where two sequences agree, so do their functions.                         *)
LEMMA UnrollsAgree ==
  ASSUME NEW s, NEW t, NEW f, NEW g, NEW m \in Nat, NEW n \in Nat \ {0}, n <= m,
         \A i \in 1..n : s[i] = t[i], Unrolls(f, s, n), Unrolls(g, t, m)
  PROVE  f[n] = g[n]
<1> DEFINE T == {i \in Nat : i \in 1..n => f[i] = g[i]}
<1>1. 0 \in T
  OBVIOUS
<1>2. ASSUME NEW i \in Nat, i \in T PROVE i + 1 \in T
  <2> SUFFICES ASSUME i + 1 \in 1..n PROVE f[i + 1] = g[i + 1]
    OBVIOUS
  <2>1. i + 1 \in 1..m /\ (i + 1) - 1 = i
    OBVIOUS
  <2>2. /\ f[i+1] = IF i + 1 = 1 THEN s[i+1] ELSE f[i] \o s[i+1]
        /\ g[i+1] = IF i + 1 = 1 THEN t[i+1] ELSE g[i] \o t[i+1]
    BY <2>1, UnrollsStep
  <2> QED BY <1>2, <2>2
<1> HIDE DEF T
<1>3. \A i \in Nat : i \in T
  BY <1>1, <1>2, Induction
<1> QED BY <1>3 DEF T

LEMMA FlattenEmpty == FlattenSeq(<<>>) = <<>>
BY DEF FlattenSeq

LEMMA FlattenType ==
  ASSUME NEW S, NEW s \in Seq(Seq(S))
  PROVE  FlattenSeq(s) \in Seq(S)
<1>1. CASE s = <<>>
  <2>1. FlattenSeq(s) = <<>>
    BY <1>1, FlattenEmpty
  <2> QED BY <2>1
<1>2. CASE s # <<>>
  <2>1. Len(s) \in Nat /\ Len(s) # 0
    BY <1>2
  <2>2. PICK f : Unrolls(f, s, Len(s)) /\ FlattenSeq(s) = f[Len(s)]
    BY <2>1, FlattenUnrolls
  <2> DEFINE T == {i \in Nat : i \in 1..Len(s) => f[i] \in Seq(S)}
  <2>3. 0 \in T
    OBVIOUS
  <2>4. ASSUME NEW i \in Nat, i \in T PROVE i + 1 \in T
    <3> SUFFICES ASSUME i + 1 \in 1..Len(s) PROVE f[i + 1] \in Seq(S)
      OBVIOUS
    <3>0. (i + 1) - 1 = i
      OBVIOUS
    <3>1. f[i+1] = IF i + 1 = 1 THEN s[i+1] ELSE f[i] \o s[i+1]
      BY <2>1, <2>2, <3>0, UnrollsStep
    <3>2. s[i+1] \in Seq(S)
      OBVIOUS
    <3> QED BY <2>4, <3>1, <3>2
  <2> HIDE DEF T
  <2>5. \A i \in Nat : i \in T
    BY <2>3, <2>4, Induction
  <2> QED BY <2>1, <2>2, <2>5 DEF T
<1> QED BY <1>1, <1>2

LEMMA FlattenOne ==
  ASSUME NEW t, Len(t) = 1
  PROVE  FlattenSeq(t) = t[1]
<1>1. PICK f : Unrolls(f, t, 1) /\ FlattenSeq(t) = f[1]
  <2>1. 1 \in Nat \ {0}
    OBVIOUS
  <2> QED BY <2>1, FlattenUnrolls, Zenon
<1>2. 1 \in 1..1
  OBVIOUS
<1>3. f[1] = t[1]
  BY <1>1, <1>2, Zenon DEF Unrolls
<1> QED BY <1>1, <1>3, Zenon

LEMMA FlattenLonger ==
  ASSUME NEW s, NEW t, NEW m \in Nat \ {0}, NEW n \in Nat,
         m + 1 = n, Len(s) = m, Len(t) = n, \A i \in 1..m : s[i] = t[i]
  PROVE  FlattenSeq(t) = FlattenSeq(s) \o t[n]
<1>1. PICK g : Unrolls(g, t, n) /\ FlattenSeq(t) = g[n]
  BY FlattenUnrolls
<1>2. g[n] = g[m] \o t[n]
  <2>1. n \in 1..n /\ n - 1 = m /\ n # 1
    OBVIOUS
  <2>2. g[n] = IF n = 1 THEN t[n] ELSE g[n - 1] \o t[n]
    BY <1>1, <2>1, UnrollsStep
  <2> QED BY <2>1, <2>2, Zenon
<1>3. PICK f : Unrolls(f, s, m) /\ FlattenSeq(s) = f[m]
  BY FlattenUnrolls
<1>4. f[m] = g[m]
  <2>1. m <= n
    OBVIOUS
  <2> QED BY <1>1, <1>3, <2>1, UnrollsAgree
<1> QED BY <1>1, <1>2, <1>3, <1>4, Zenon

LEMMA FlattenAppend ==
  ASSUME NEW S, NEW s \in Seq(Seq(S)), NEW e \in Seq(S)
  PROVE  FlattenSeq(Append(s, e)) = FlattenSeq(s) \o e
<1>1. PICK t : t = Append(s, e)
  OBVIOUS
<1>2. /\ t \in Seq(Seq(S)) /\ Len(s) \in Nat
      /\ Len(t) = Len(s) + 1 /\ t[Len(s) + 1] = e
      /\ \A i \in 1..Len(s) : s[i] = t[i]
  BY <1>1
<1>3. CASE Len(s) = 0
  <2>1. FlattenSeq(s) = <<>>
    <3>1. s = <<>>
      BY <1>3, EmptySeq
    <3> QED BY <3>1, FlattenEmpty
  <2>2. Len(t) = 1 /\ t[1] = e
    BY <1>2, <1>3
  <2>3. FlattenSeq(t) = e
    BY <2>2, FlattenOne
  <2>4. <<>> \o e = e
    BY ConcatEmptySeq
  <2> QED BY <1>1, <2>1, <2>3, <2>4
<1>4. CASE Len(s) # 0
  <2>1. FlattenSeq(t) = FlattenSeq(s) \o t[Len(s) + 1]
    <3>1. Len(s) \in Nat \ {0} /\ Len(s) + 1 \in Nat
      BY <1>2, <1>4
    <3> QED BY <1>2, <3>1, FlattenLonger
  <2> QED BY <1>1, <1>2, <2>1, Zenon
<1> QED BY <1>3, <1>4

LEMMA FlattenConcat ==
  ASSUME NEW S, NEW s \in Seq(Seq(S)), NEW t \in Seq(Seq(S))
  PROVE  FlattenSeq(s \o t) = FlattenSeq(s) \o FlattenSeq(t)
<1> DEFINE T == {u \in Seq(Seq(S)) : FlattenSeq(s \o u) = FlattenSeq(s) \o FlattenSeq(u)}
<1>0. FlattenSeq(s) \in Seq(S)
  BY FlattenType
<1>1. <<>> \in T
  <2>1. s \o <<>> = s /\ FlattenSeq(s) \o <<>> = FlattenSeq(s)
    BY <1>0, ConcatEmptySeq
  <2>2. FlattenSeq(s \o <<>>) = FlattenSeq(s) \o FlattenSeq(<<>>)
    BY <2>1, FlattenEmpty, Zenon
  <2>3. <<>> \in Seq(Seq(S))
    BY EmptySeq
  <2> QED BY <2>2, <2>3
<1>2. \A x, y, z \in Seq(S) : (x \o y) \o z = x \o (y \o z)
  <2> TAKE x, y, z \in Seq(S)
  <2> QED BY ConcatAssociative, SMTT(20)
<1>3. ASSUME NEW u \in Seq(Seq(S)), NEW e \in Seq(S), u \in T PROVE Append(u, e) \in T
  <2>1. s \o Append(u, e) = Append(s \o u, e) /\ s \o u \in Seq(Seq(S))
    BY AppendConcat, ConcatProperties
  <2>2. FlattenSeq(Append(s \o u, e)) = FlattenSeq(s \o u) \o e
    BY <2>1, FlattenAppend
  <2>3. FlattenSeq(s \o u) = FlattenSeq(s) \o FlattenSeq(u)
    BY <1>3
  <2>4. FlattenSeq(Append(u, e)) = FlattenSeq(u) \o e /\ FlattenSeq(u) \in Seq(S)
    BY FlattenAppend, FlattenType
  <2>5. (FlattenSeq(s) \o FlattenSeq(u)) \o e = FlattenSeq(s) \o (FlattenSeq(u) \o e)
    <3>1. PICK a, b \in Seq(S) : a = FlattenSeq(s) /\ b = FlattenSeq(u)
      BY <1>0, <2>4, Zenon
    <3>2. (a \o b) \o e = a \o (b \o e)
      BY <1>2, Zenon
    <3> QED BY <3>1, <3>2, Zenon
  <2>6. FlattenSeq(s \o Append(u, e)) = FlattenSeq(s) \o FlattenSeq(Append(u, e))
    BY <2>1, <2>2, <2>3, <2>4, <2>5, Zenon
  <2>7. Append(u, e) \in Seq(Seq(S))
    BY AppendProperties
  <2> QED BY <2>6, <2>7
<1> HIDE DEF T
<1>4. \A u \in Seq(Seq(S)) : u \in T
  BY <1>1, <1>3, SeqInduction
<1> QED BY <1>4 DEF T

(* A function on 1..n is a sequence of length n.                              *)
LEMMA FunctionIsSeq ==
  ASSUME NEW S, NEW n \in Nat, NEW f \in [1..n -> S]
  PROVE  f \in Seq(S) /\ Len(f) = n
<1>1. f \in Seq(S)
  BY SeqDef, Zenon
<1>2. DOMAIN f = 1..n /\ DOMAIN f = 1..Len(f) /\ Len(f) \in Nat
  BY <1>1, LenProperties
<1> QED BY <1>1, <1>2

(* A sequence is what precedes a place followed by what comes after it.      *)
LEMMA SplitAt ==
  ASSUME NEW S, NEW s \in Seq(S), NEW n \in 0..Len(s)
  PROVE  /\ SubSeq(s, 1, n) \in Seq(S) /\ SubSeq(s, n + 1, Len(s)) \in Seq(S)
         /\ SubSeq(s, 1, n) \o SubSeq(s, n + 1, Len(s)) = s
<1>1. Len(s) \in Nat
  BY LenProperties
<1>2. /\ 1 \in 1..Len(s) + 1 /\ n \in 1 - 1..Len(s) /\ Len(s) \in n..Len(s)
  BY <1>1
<1>3. SubSeq(s, 1, n) \o SubSeq(s, n + 1, Len(s)) = SubSeq(s, 1, Len(s))
  BY <1>2, ConcatAdjacentSubSeq
<1>4. SubSeq(s, 1, Len(s)) = s
  BY SubSeqFull
<1>5. SubSeq(s, 1, n) \in Seq(S)
  BY <1>1
<1>6. SubSeq(s, n + 1, Len(s)) \in Seq(S)
  BY <1>1
<1> QED BY <1>3, <1>4, <1>5, <1>6

(* The elements of a sequence, and sequences without repetitions.            *)
LEMMA ToSetEmpty == ToSet(<<>>) = {}
BY DEF ToSet

LEMMA ToSetAppend ==
  ASSUME NEW S, NEW s \in Seq(S), NEW e \in S
  PROVE  ToSet(Append(s, e)) = ToSet(s) \cup {e}
<1>1. Append(s, e) \in Seq(S) /\ Len(Append(s, e)) = Len(s) + 1 /\ Len(s) \in Nat
  BY AppendProperties
<1>2. \A i \in 1..Len(s) + 1 : Append(s, e)[i] = IF i <= Len(s) THEN s[i] ELSE e
  BY AppendProperties
<1>3. DOMAIN Append(s, e) = 1..Len(s) + 1 /\ DOMAIN s = 1..Len(s)
  BY <1>1
<1> QED BY <1>1, <1>2, <1>3 DEF ToSet

LEMMA ToSetConcat ==
  ASSUME NEW S, NEW s \in Seq(S), NEW t \in Seq(S)
  PROVE  ToSet(s \o t) = ToSet(s) \cup ToSet(t)
<1> DEFINE T == {u \in Seq(S) : ToSet(s \o u) = ToSet(s) \cup ToSet(u)}
<1>1. <<>> \in T
  <2>1. s \o <<>> = s /\ <<>> \in Seq(S)
    BY ConcatEmptySeq, EmptySeq
  <2> QED BY <2>1, ToSetEmpty
<1>2. ASSUME NEW u \in Seq(S), NEW e \in S, u \in T PROVE Append(u, e) \in T
  <2>1. s \o u \in Seq(S) /\ Append(u, e) \in Seq(S)
    BY ConcatProperties, AppendProperties
  <2>2. s \o Append(u, e) = Append(s \o u, e)
    BY AppendConcat
  <2>3. ToSet(Append(s \o u, e)) = ToSet(s \o u) \cup {e}
    <3>1. PICK v \in Seq(S) : v = s \o u
      BY <2>1
    <3>2. ToSet(Append(v, e)) = ToSet(v) \cup {e}
      BY ToSetAppend
    <3> QED BY <3>1, <3>2
  <2>4. ToSet(Append(u, e)) = ToSet(u) \cup {e}
    BY ToSetAppend
  <2>5. ToSet(s \o u) = ToSet(s) \cup ToSet(u)
    BY <1>2
  <2> QED BY <2>1, <2>2, <2>3, <2>4, <2>5
<1> HIDE DEF T
<1>3. \A u \in Seq(S) : u \in T
  BY <1>1, <1>2, SeqInduction
<1> QED BY <1>3 DEF T

LEMMA AppendDistinct ==
  ASSUME NEW S, NEW s \in Seq(S), NEW e \in S
  PROVE  IsInjective(Append(s, e)) <=> IsInjective(s) /\ e \notin ToSet(s)
<1>1. Append(s, e) \in Seq(S) /\ Len(Append(s, e)) = Len(s) + 1 /\ Len(s) \in Nat
  BY AppendProperties
<1>2. \A i \in 1..Len(s) + 1 : Append(s, e)[i] = IF i <= Len(s) THEN s[i] ELSE e
  BY AppendProperties
<1>3. DOMAIN Append(s, e) = 1..Len(s) + 1 /\ DOMAIN s = 1..Len(s)
  BY <1>1
<1>4. ASSUME IsInjective(Append(s, e)) PROVE IsInjective(s) /\ e \notin ToSet(s)
  <2>1. \A i, j \in 1..Len(s) + 1 : Append(s, e)[i] = Append(s, e)[j] => i = j
    BY <1>3, <1>4 DEF IsInjective
  <2>2. \A i, j \in 1..Len(s) : s[i] = s[j] => i = j
    BY <1>1, <1>2, <2>1
  <2>3. ASSUME NEW i \in 1..Len(s), s[i] = e PROVE FALSE
    BY <1>1, <1>2, <2>1, <2>3
  <2> QED BY <1>3, <2>2, <2>3 DEF IsInjective, ToSet
<1>5. ASSUME IsInjective(s), e \notin ToSet(s) PROVE IsInjective(Append(s, e))
  <2>1. \A i, j \in 1..Len(s) : s[i] = s[j] => i = j
    BY <1>3, <1>5 DEF IsInjective
  <2>2. \A i \in 1..Len(s) : s[i] # e
    BY <1>3, <1>5 DEF ToSet
  <2>3. \A i, j \in 1..Len(s) + 1 : Append(s, e)[i] = Append(s, e)[j] => i = j
    BY <1>1, <1>2, <2>1, <2>2
  <2> QED BY <1>3, <2>3 DEF IsInjective
<1> QED BY <1>4, <1>5

(* The parts of a sequence without repetitions have no element in common.    *)
LEMMA ConcatDistinct ==
  ASSUME NEW S, NEW s \in Seq(S), NEW t \in Seq(S), IsInjective(s \o t)
  PROVE  IsInjective(s) /\ ToSet(s) \cap ToSet(t) = {}
<1> DEFINE T == {u \in Seq(S) : IsInjective(s \o u) =>
                                  IsInjective(s) /\ ToSet(s) \cap ToSet(u) = {}}
<1>1. <<>> \in T
  <2>1. s \o <<>> = s /\ <<>> \in Seq(S)
    BY ConcatEmptySeq, EmptySeq
  <2> QED BY <2>1, ToSetEmpty
<1>2. ASSUME NEW u \in Seq(S), NEW e \in S, u \in T PROVE Append(u, e) \in T
  <2>1. s \o u \in Seq(S) /\ Append(u, e) \in Seq(S)
    BY ConcatProperties, AppendProperties
  <2>2. s \o Append(u, e) = Append(s \o u, e)
    BY AppendConcat
  <2>3. IsInjective(Append(s \o u, e)) <=> IsInjective(s \o u) /\ e \notin ToSet(s \o u)
    BY <2>1, AppendDistinct
  <2>4. ToSet(Append(u, e)) = ToSet(u) \cup {e}
    BY ToSetAppend
  <2>5. ToSet(s \o u) = ToSet(s) \cup ToSet(u)
    BY ToSetConcat
  <2>6. IsInjective(s \o Append(u, e)) =>
          IsInjective(s) /\ ToSet(s) \cap ToSet(Append(u, e)) = {}
    <3> SUFFICES ASSUME IsInjective(s \o Append(u, e))
                 PROVE  IsInjective(s) /\ ToSet(s) \cap ToSet(Append(u, e)) = {}
      OBVIOUS
    <3>1. IsInjective(s \o u) /\ e \notin ToSet(s \o u)
      BY <2>2, <2>3, Zenon
    <3>2. IsInjective(s) /\ ToSet(s) \cap ToSet(u) = {}
      BY <1>2, <3>1
    <3> QED BY <2>4, <2>5, <3>1, <3>2
  <2> QED BY <2>1, <2>6
<1> HIDE DEF T
<1>3. \A u \in Seq(S) : u \in T
  BY <1>1, <1>2, SeqInduction
<1> QED BY <1>3 DEF T
=============================================================================
