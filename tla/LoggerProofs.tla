---------------------------- MODULE LoggerProofs ----------------------------
(***************************************************************************)
(* Theorems about AsyncLogger.tla and Logger.tla, for every number and       *)
(* length of lines, every capacity and every number of threads: the asserts  *)
(* of the double buffer hold, its buffers never overflow, lines are neither  *)
(* lost nor reordered; the global logger uses AsyncLogger as that module     *)
(* says, is made once, and prints in the order of the file.                  *)
(***************************************************************************)
EXTENDS Logger, SequenceLemmas

(* nextBuf_ is taken only together with a hand-over to buffers_, so when the *)
(* loop has to replace it there are two buffers to get back.                 *)
HandOverInv ==
    /\ nextBuf = NoBuffer => buffers # <<>>
    /\ nextBuf # NoBuffer => IsEmpty(nextBuf)
    /\ starter = "new" <=> loop = "none"
    /\ loop \in {"none", "open"} => buffersToWrite = <<>>
    /\ newBuffer1 # NoBuffer => IsEmpty(newBuffer1)
    /\ newBuffer2 # NoBuffer => IsEmpty(newBuffer2)

BuffersFit ==
    /\ currentBuf.used <= currentBuf.cap
    /\ \A i \in 1..Len(buffers) : buffers[i].used <= buffers[i].cap
    /\ \A i \in 1..Len(buffersToWrite) : buffersToWrite[i].used <= buffersToWrite[i].cap

IInv == TypeOK /\ DoubleBufferAsserts /\ HandOverInv /\ BuffersFit

(* Putting a line into a buffer keeps it a buffer and within its capacity.   *)
LEMMA PutFits ==
  ASSUME NEW b \in Buffer, NEW l \in Line, b.used <= b.cap
  PROVE  Put(b, l) \in Buffer /\ Put(b, l).used <= Put(b, l).cap
<1>1. LineLen[l] \in Nat /\ b.cap \in Nat /\ b.used \in Nat /\ b.lines \in Seq(Line)
  BY AsyncLoggerAssumption DEF Buffer
<1>2. CASE Fits(b, l)
  <2>1. Append(b.lines, l) \in Seq(Line) /\ b.used + LineLen[l] \in Nat
    BY <1>1
  <2>2. Put(b, l) = [cap |-> b.cap, used |-> b.used + LineLen[l], lines |-> Append(b.lines, l)]
    BY <1>2 DEF Put, Buffer
  <2>3. b.used + LineLen[l] <= b.cap
    BY <1>1, <1>2 DEF Fits, avail
  <2> QED BY <1>1, <2>1, <2>2, <2>3 DEF Buffer
<1>3. CASE ~Fits(b, l)
  BY <1>3 DEF Put
<1> QED BY <1>2, <1>3

LEMMA EmptyFits ==
  ASSUME NEW c \in Nat
  PROVE  Empty(c) \in Buffer /\ IsEmpty(Empty(c)) /\ Empty(c).used <= Empty(c).cap
<1>1. Empty(c) \in Buffer
  BY DEF Empty, Buffer
<1> QED BY <1>1, NoBufferAssumption DEF Empty, IsEmpty

LEMMA InitIInv == Init => IInv
<1> SUFFICES ASSUME Init PROVE IInv
  OBVIOUS
<1>1. PICK c \in InitCaps : currentBuf = Empty(c) /\ nextBuf = Empty(c)
  BY DEF Init
<1>2. c \in Nat
  BY AsyncLoggerAssumption
<1>3. TypeOK
  <2>1. currentBuf \in Buffer /\ nextBuf \in BufferOrNone
    BY <1>1, <1>2, EmptyFits DEF BufferOrNone
  <2>2. buffers = <<>> /\ buffersToWrite = <<>>
    BY DEF Init
  <2>3. buffers \in Seq(Buffer) /\ buffersToWrite \in Seq(Buffer)
    BY <2>2
  <2>4. isRuning \in BOOLEAN
    BY DEF Init
  <2> QED BY <2>1, <2>3, <2>4 DEF Init, TypeOK, BufferOrNone
<1>4. DoubleBufferAsserts /\ HandOverInv /\ BuffersFit
  BY <1>1, <1>2, EmptyFits DEF Init, DoubleBufferAsserts, HandOverInv, BuffersFit, IsEmpty
<1> QED BY <1>3, <1>4 DEF IInv

(* append, both branches.                                                    *)
LEMMA AppendIInv ==
  ASSUME IInv, NEW l \in Line, AppendToCurrent(l) \/ AppendToNext(l)
  PROVE  IInv'
<1> USE DEF IInv, Record, HandOver, ownerVars, loopVars
<1>1. CASE AppendToCurrent(l)
  <2>1. currentBuf' \in Buffer /\ currentBuf'.used <= currentBuf'.cap
    BY <1>1, PutFits DEF AppendToCurrent, TypeOK, BuffersFit
  <2>2. TypeOK'
    BY <1>1, <2>1 DEF AppendToCurrent, TypeOK
  <2>3. DoubleBufferAsserts' /\ HandOverInv' /\ BuffersFit'
    BY <1>1, <2>1 DEF AppendToCurrent, DoubleBufferAsserts, HandOverInv, BuffersFit, IsEmpty
  <2> QED BY <2>2, <2>3
<1>2. CASE AppendToNext(l)
  <2> DEFINE b == IF nextBuf # NoBuffer THEN nextBuf ELSE Empty(maxBuffSize)
  <2>1. b \in Buffer /\ b.used <= b.cap
    <3>1. CASE nextBuf = NoBuffer
      BY <3>1, EmptyFits, AsyncLoggerAssumption
    <3>2. CASE nextBuf # NoBuffer
      BY <3>2 DEF TypeOK, BufferOrNone, HandOverInv, IsEmpty, Buffer
    <3> QED BY <3>1, <3>2
  <2>2. currentBuf' = Put(b, l)
    BY <1>2 DEF AppendToNext
  <2>3. currentBuf' \in Buffer /\ currentBuf'.used <= currentBuf'.cap
    BY <2>1, <2>2, PutFits
  <2>4. /\ buffers' = Append(buffers, currentBuf) /\ buffers' \in Seq(Buffer) /\ buffers' # <<>>
        /\ \A i \in 1..Len(buffers') : buffers'[i].used <= buffers'[i].cap
    <3>1. buffers' = Append(buffers, currentBuf) /\ buffers \in Seq(Buffer) /\ currentBuf \in Buffer
      BY <1>2 DEF AppendToNext, TypeOK
    <3>2. /\ buffers' \in Seq(Buffer) /\ Len(buffers') = Len(buffers) + 1 /\ Len(buffers) \in Nat
          /\ \A i \in 1..Len(buffers) : buffers'[i] = buffers[i]
          /\ buffers'[Len(buffers) + 1] = currentBuf
      BY <3>1
    <3> QED BY <3>1, <3>2 DEF BuffersFit
  <2>5. TypeOK'
    BY <1>2, <2>3, <2>4 DEF AppendToNext, TypeOK, BufferOrNone
  <2>6. DoubleBufferAsserts' /\ HandOverInv' /\ BuffersFit'
    BY <1>2, <2>3, <2>4 DEF AppendToNext, DoubleBufferAsserts, HandOverInv, BuffersFit, IsEmpty
  <2> QED BY <2>5, <2>6
<1> QED BY <1>1, <1>2

(* The loop takes the full buffers and leaves two empty ones.                *)
LEMMA SwapIInv == ASSUME IInv, LoopSwap PROVE IInv'
<1> USE DEF IInv, LoopSwap, SwapReady, HandOver, ownerVars
<1>1. /\ buffersToWrite' = Append(buffers, currentBuf)
      /\ buffersToWrite' \in Seq(Buffer) /\ Len(buffersToWrite') = Len(buffers) + 1
      /\ \A i \in 1..Len(buffersToWrite') : buffersToWrite'[i].used <= buffersToWrite'[i].cap
  BY DEF TypeOK, BuffersFit
<1>2. currentBuf' \in Buffer /\ currentBuf'.used <= currentBuf'.cap
  BY DEF DoubleBufferAsserts, TypeOK, BufferOrNone, IsEmpty, Buffer
<1>3. TypeOK'
  BY <1>1, <1>2 DEF TypeOK, BufferOrNone
<1>4. DoubleBufferAsserts'
  BY <1>1 DEF DoubleBufferAsserts, HandOverInv, TypeOK, IsEmpty
<1>5. HandOverInv' /\ BuffersFit'
  BY <1>1, <1>2 DEF DoubleBufferAsserts, HandOverInv, BuffersFit, IsEmpty
<1> QED BY <1>3, <1>4, <1>5

(* The loop gets its two empty buffers back.                                 *)
LEMMA FlushIInv == ASSUME IInv, LoopFlush PROVE IInv'
<1> USE DEF IInv, LoopFlush, ownerVars, frontVars
<1> DEFINE kept == Kept(Trimmed(buffersToWrite))
<1>1. buffersToWrite \in Seq(Buffer) /\ buffersToWrite # <<>>
      /\ (newBuffer2 = NoBuffer => Len(buffersToWrite) >= 2)
  BY DEF TypeOK, DoubleBufferAsserts
<1>2. kept \in Seq(Buffer) /\ kept # <<>> /\ Len(kept) <= 2
      /\ (newBuffer2 = NoBuffer => Len(kept) >= 2)
  BY <1>1, AsyncLoggerAssumption DEF Kept, Trimmed
<1>3. Last(kept) \in Buffer
  BY <1>2 DEF Last
<1>4. newBuffer2 = NoBuffer => Last(Front(kept)) \in Buffer
  BY <1>2 DEF Last, Front
<1>5. newBuffer1' \in Buffer /\ IsEmpty(newBuffer1')
  BY <1>3, EmptyFits DEF Reset, Buffer
<1>6. newBuffer2' \in Buffer /\ IsEmpty(newBuffer2')
  BY <1>4, EmptyFits DEF Reset, Buffer, HandOverInv, TypeOK, BufferOrNone
<1>7. TypeOK'
  BY <1>5, <1>6 DEF TypeOK, BufferOrNone
<1>8. DoubleBufferAsserts'
  BY <1>5, <1>6 DEF DoubleBufferAsserts, IsEmpty
<1>9. HandOverInv'
  BY <1>5, <1>6 DEF HandOverInv, IsEmpty
<1>10. BuffersFit'
  BY DEF BuffersFit
<1> QED BY <1>7, <1>8, <1>9, <1>10

LEMMA NextIInv == IInv /\ [Next]_vars => IInv'
<1> SUFFICES ASSUME IInv, [Next]_vars PROVE IInv'
  OBVIOUS
<1>1. CASE \E l \in Line : AppendToCurrent(l) \/ AppendToNext(l)
  BY <1>1, AppendIInv
<1>2. CASE LoopSwap \/ LoopFlush
  BY <1>2, SwapIInv, FlushIInv
<1>3. CASE LoopOpen
  <2>1. newBuffer1' \in Buffer /\ IsEmpty(newBuffer1')
        /\ newBuffer2' \in Buffer /\ IsEmpty(newBuffer2')
    BY <1>3, EmptyFits, AsyncLoggerAssumption DEF LoopOpen
  <2>2. TypeOK'
    BY <1>3, <2>1 DEF LoopOpen, IInv, TypeOK, BufferOrNone, frontVars
  <2> QED BY <1>3, <2>1, <2>2 DEF LoopOpen, IInv, DoubleBufferAsserts, HandOverInv, BuffersFit,
         IsEmpty, frontVars
<1>4. CASE LoopTest \/ LoopWait \/ StartSpawn \/ StartWait \/ StartSpuriousWakeup \/ StopSet \/ StopJoin
           \/ UNCHANGED vars
  <2>1. UNCHANGED <<frontVars, loopVars>>
    BY <1>4 DEF LoopTest, LoopWait, StartSpawn, StartWait, StartSpuriousWakeup, StopSet, StopJoin, vars
  <2>2. TypeOK'
    BY <1>4, <2>1 DEF LoopTest, LoopWait, StartSpawn, StartWait, StartSpuriousWakeup, StopSet, StopJoin,
       IInv, TypeOK, vars, frontVars, loopVars, ownerVars
  <2>3. DoubleBufferAsserts'
    BY <1>4, <2>1 DEF LoopTest, LoopWait, StartSpawn, StartWait, StartSpuriousWakeup, StopSet,
       StopJoin, IInv, DoubleBufferAsserts, HandOverInv, IsEmpty, vars, frontVars, loopVars
  <2>4. HandOverInv'
    BY <1>4, <2>1 DEF LoopTest, LoopWait, StartSpawn, StartWait, StartSpuriousWakeup, StopSet,
       StopJoin, IInv, HandOverInv, IsEmpty, vars, frontVars, loopVars, ownerVars
  <2>5. BuffersFit'
    BY <2>1 DEF IInv, BuffersFit, frontVars, loopVars
  <2> QED BY <2>2, <2>3, <2>4, <2>5 DEF IInv
<1> QED BY <1>1, <1>2, <1>3, <1>4 DEF Next, LoopStep

THEOREM IInvHolds == Spec => []IInv
<1> QED BY InitIInv, NextIInv, PTL DEF Spec

(* Type correctness of the logger.                                           *)
THEOREM TypeCorrect == Spec => []TypeOK
<1>1. IInv => TypeOK
  BY DEF IInv
<1> QED BY <1>1, IInvHolds, PTL

(* The asserts of the loop (cc:59-61, 77, 96, 104) never fail: the two       *)
(* buffers of the loop always come back, for any number of appenders.        *)
THEOREM AssertsHold == Spec => []DoubleBufferAsserts
<1>1. IInv => DoubleBufferAsserts
  BY DEF IInv
<1> QED BY <1>1, IInvHolds, PTL

(* No buffer is filled beyond its capacity, so the unsigned subtraction of   *)
(* Buffer::avail (Buffer.cc:33) never wraps.                                 *)
THEOREM NoOverflow == Spec => []AvailNeverWraps
<1>1. IInv => AvailNeverWraps
  <2> SUFFICES ASSUME IInv, NEW b \in Buffers PROVE b.used <= b.cap
    BY DEF AvailNeverWraps
  <2>1. CASE b = currentBuf \/ b \in ToSet(buffers) \/ b \in ToSet(buffersToWrite)
    BY <2>1 DEF IInv, BuffersFit, TypeOK, ToSet
  <2>2. CASE b \in {nextBuf, newBuffer1, newBuffer2} \ {NoBuffer}
    BY <2>2 DEF IInv, TypeOK, HandOverInv, IsEmpty, BufferOrNone, Buffer
  <2> QED BY <2>1, <2>2 DEF Buffers
<1> QED BY <1>1, IInvHolds, PTL

-----------------------------------------------------------------------------
(* What is dropped.  append turns to a spare buffer only, which is empty     *)
(* (HandOverInv), so a line can fail to fit only a whole buffer.             *)

Caps == InitCaps \cup {maxBuffSize}

CapsInv ==
    /\ currentBuf.cap \in Caps
    /\ \A b \in {nextBuf, newBuffer1, newBuffer2} : b # NoBuffer => b.cap \in Caps
    /\ \A i \in 1..Len(buffers) : buffers[i].cap \in Caps
    /\ \A i \in 1..Len(buffersToWrite) : buffersToWrite[i].cap \in Caps

DInv == CapsInv /\ DroppedOnlyIfTooLong

LEMMA PutKeepsCap == ASSUME NEW b \in Buffer, NEW l PROVE Put(b, l).cap = b.cap
BY DEF Put, Buffer

LEMMA InitDInv == Init => DInv
BY DEF Init, DInv, CapsInv, DroppedOnlyIfTooLong, Caps, Empty

(* Only AppendToNext can drop a line.                                        *)
LEMMA AppendDInv ==
  ASSUME IInv, DInv, NEW l \in Line, AppendToCurrent(l) \/ AppendToNext(l)
  PROVE  DInv'
<1> USE DEF IInv, DInv, CapsInv, Record, HandOver, ownerVars, loopVars
<1>1. CASE AppendToCurrent(l)
  <2>1. Fits(currentBuf, l)
    BY <1>1, AsyncLoggerAssumption DEF AppendToCurrent, Fits, avail, TypeOK, Buffer
  <2>2. currentBuf'.cap = currentBuf.cap
    BY <1>1, PutKeepsCap DEF AppendToCurrent, TypeOK
  <2>3. UNCHANGED <<dropped, nextBuf, buffers, newBuffer1, newBuffer2, buffersToWrite>>
    BY <1>1, <2>1 DEF AppendToCurrent
  <2> QED BY <2>2, <2>3 DEF DroppedOnlyIfTooLong
<1>2. CASE AppendToNext(l)
  <2> DEFINE b == IF nextBuf # NoBuffer THEN nextBuf ELSE Empty(maxBuffSize)
  <2>1. b \in Buffer /\ b.used = 0 /\ b.cap \in Caps
    <3>1. CASE nextBuf = NoBuffer
      BY <3>1, EmptyFits, AsyncLoggerAssumption DEF Empty, Caps
    <3>2. CASE nextBuf # NoBuffer
      BY <3>2 DEF TypeOK, BufferOrNone, HandOverInv, IsEmpty
    <3> QED BY <3>1, <3>2
  <2>2. /\ currentBuf' = Put(b, l)
        /\ dropped' = IF Fits(b, l) THEN dropped ELSE dropped \cup {l}
    BY <1>2 DEF AppendToNext
  <2>3. currentBuf'.cap \in Caps
    BY <2>1, <2>2, PutKeepsCap
  <2>4. \A i \in 1..Len(buffers') : buffers'[i].cap \in Caps
    BY <1>2 DEF AppendToNext, TypeOK
  <2>5. ~Fits(b, l) => LineLen[l] > b.cap
    BY <2>1, AsyncLoggerAssumption DEF Fits, avail, Buffer
  <2>6. DroppedOnlyIfTooLong'
    BY <2>1, <2>2, <2>5 DEF DroppedOnlyIfTooLong, Caps
  <2> QED BY <1>2, <2>3, <2>4, <2>6 DEF AppendToNext
<1> QED BY <1>1, <1>2

LEMMA FlushDInv == ASSUME IInv, DInv, LoopFlush PROVE DInv'
<1> USE DEF IInv, DInv, CapsInv, LoopFlush, ownerVars, frontVars
<1> DEFINE kept == Kept(Trimmed(buffersToWrite))
<1>1. buffersToWrite \in Seq(Buffer) /\ buffersToWrite # <<>>
      /\ (newBuffer2 = NoBuffer => Len(buffersToWrite) >= 2)
  BY DEF TypeOK, DoubleBufferAsserts
<1>2. /\ kept \in Seq(Buffer) /\ kept # <<>>
      /\ newBuffer2 = NoBuffer => Len(kept) >= 2
      /\ \A i \in 1..Len(kept) : kept[i].cap \in Caps
  BY <1>1, AsyncLoggerAssumption DEF Kept, Trimmed
<1>3. Last(kept).cap \in Caps
  BY <1>2 DEF Last
<1>4. newBuffer2 = NoBuffer => Last(Front(kept)).cap \in Caps
  BY <1>2 DEF Last, Front
<1>5. newBuffer1'.cap \in Caps
  BY <1>3 DEF Reset, Empty
<1>6. newBuffer2'.cap \in Caps
  BY <1>4 DEF Reset, Empty
<1> QED BY <1>5, <1>6 DEF DroppedOnlyIfTooLong

LEMMA NextDInv == IInv /\ DInv /\ [Next]_vars => DInv'
<1> SUFFICES ASSUME IInv, DInv, [Next]_vars PROVE DInv'
  OBVIOUS
<1> USE DEF DInv, CapsInv
<1>1. CASE \E l \in Line : AppendToCurrent(l) \/ AppendToNext(l)
  BY <1>1, AppendDInv
<1>2. CASE LoopFlush
  BY <1>2, FlushDInv
<1>3. CASE LoopSwap
  <2>1. \A i \in 1..Len(buffersToWrite') : buffersToWrite'[i].cap \in Caps
    BY <1>3 DEF LoopSwap, HandOver, IInv, TypeOK
  <2>2. newBuffer1 # NoBuffer
    BY <1>3 DEF LoopSwap, SwapReady, IInv, DoubleBufferAsserts, IsEmpty
  <2> QED BY <1>3, <2>1, <2>2 DEF LoopSwap, DroppedOnlyIfTooLong
<1>4. CASE LoopOpen
  <2>1. newBuffer1'.cap \in Caps /\ newBuffer2'.cap \in Caps
    BY <1>4 DEF LoopOpen, Empty, Caps
  <2> QED BY <1>4, <2>1 DEF LoopOpen, DroppedOnlyIfTooLong, frontVars
<1>5. CASE LoopTest \/ LoopWait \/ StartSpawn \/ StartWait \/ StartSpuriousWakeup \/ StopSet \/ StopJoin
           \/ UNCHANGED vars
  BY <1>5 DEF LoopTest, LoopWait, StartSpawn, StartWait, StartSpuriousWakeup, StopSet, StopJoin,
     DroppedOnlyIfTooLong, vars, frontVars, loopVars
<1> QED BY <1>1, <1>2, <1>3, <1>4, <1>5 DEF Next, LoopStep

(* A line is dropped (Buffer.cc:38) only if it is longer than a whole        *)
(* buffer, for every capacity maxBuffSize may hold when the constructor      *)
(* reads it uninitialised.                                                   *)
THEOREM DropsOnlyTooLong == Spec => []DroppedOnlyIfTooLong
<1>1. DInv => DroppedOnlyIfTooLong
  BY DEF DInv
<1>2. Spec => []DInv
  BY InitDInv, IInvHolds, NextDInv, PTL DEF Spec
<1> QED BY <1>1, <1>2, PTL
-----------------------------------------------------------------------------
(* The order of lines.                                                       *)

Pieces(s, D) == [i \in DOMAIN s |-> IF s[i] \in D THEN <<>> ELSE <<s[i]>>]

LEMMA PieceType ==
  ASSUME NEW S, NEW e \in S, NEW D
  PROVE  (IF e \in D THEN <<>> ELSE <<e>>) \in Seq(S)
<1>1. <<>> \in Seq(S) /\ <<e>> \in Seq(S)
  OBVIOUS
<1> QED BY <1>1, Zenon

LEMMA PiecesType ==
  ASSUME NEW S, NEW s \in Seq(S), NEW D
  PROVE  /\ Pieces(s, D) \in Seq(Seq(S))
         /\ Len(Pieces(s, D)) = Len(s)
         /\ \A i \in 1..Len(s) : Pieces(s, D)[i] = IF s[i] \in D THEN <<>> ELSE <<s[i]>>
<1>1. Len(s) \in Nat /\ DOMAIN s = 1..Len(s) /\ \A i \in 1..Len(s) : s[i] \in S
  BY LenProperties, ElementOfSeq
<1>2. \A i \in 1..Len(s) : Pieces(s, D)[i] = IF s[i] \in D THEN <<>> ELSE <<s[i]>>
  BY <1>1, Zenon DEF Pieces
<1>3. \A i \in 1..Len(s) : Pieces(s, D)[i] \in Seq(S)
  <2> TAKE i \in 1..Len(s)
  <2>1. s[i] \in S
    BY <1>1
  <2>2. <<>> \in Seq(S) /\ <<s[i]>> \in Seq(S)
    BY <2>1
  <2> QED BY <1>2, <2>2, Zenon
<1>4. Pieces(s, D) \in [1..Len(s) -> Seq(S)]
  <2>1. Pieces(s, D) = [i \in 1..Len(s) |-> Pieces(s, D)[i]]
    BY <1>1, Zenon DEF Pieces
  <2> QED BY <1>3, <2>1, Zenon
<1> QED BY <1>1, <1>2, <1>4, FunctionIsSeq, Zenon

LEMMA WithoutType == ASSUME NEW S, NEW s \in Seq(S), NEW D PROVE Without(s, D) \in Seq(S)
BY PiecesType, FlattenType, Zenon DEF Without, Pieces

LEMMA WithoutEmpty == ASSUME NEW D PROVE Without(<<>>, D) = <<>>
<1>1. Pieces(<<>>, D) = <<>>
  BY DEF Pieces
<1> QED BY <1>1, FlattenEmpty DEF Without, Pieces

LEMMA WithoutAppend ==
  ASSUME NEW S, NEW s \in Seq(S), NEW e \in S, NEW D
  PROVE  Without(Append(s, e), D) = IF e \in D THEN Without(s, D) ELSE Append(Without(s, D), e)
<1> DEFINE p == IF e \in D THEN <<>> ELSE <<e>>
<1>1. PICK u : u = Append(s, e)
  OBVIOUS
<1>2. /\ u \in Seq(S) /\ Len(s) \in Nat
      /\ Len(u) = Len(s) + 1 /\ u[Len(s) + 1] = e
      /\ \A i \in 1..Len(s) : u[i] = s[i]
  BY <1>1
<1>3. p \in Seq(S)
  BY PieceType
<1> HIDE DEF p
<1>4. PICK q : q = Append(Pieces(s, D), p)
  OBVIOUS
<1>5. /\ Pieces(s, D) \in Seq(Seq(S)) /\ Len(Pieces(s, D)) = Len(s)
      /\ \A i \in 1..Len(s) : Pieces(s, D)[i] = IF s[i] \in D THEN <<>> ELSE <<s[i]>>
  BY PiecesType
<1>6. /\ Pieces(u, D) \in Seq(Seq(S)) /\ Len(Pieces(u, D)) = Len(u)
      /\ \A i \in 1..Len(u) : Pieces(u, D)[i] = IF u[i] \in D THEN <<>> ELSE <<u[i]>>
  BY <1>2, PiecesType
<1>7. /\ q \in Seq(Seq(S)) /\ Len(q) = Len(s) + 1 /\ q[Len(s) + 1] = p
      /\ \A i \in 1..Len(s) : q[i] = Pieces(s, D)[i]
  BY <1>3, <1>4, <1>5
<1>8. \A i \in 1..Len(u) : Pieces(u, D)[i] = q[i]
  <2> TAKE i \in 1..Len(u)
  <2>1. CASE i \in 1..Len(s)
    BY <1>2, <1>5, <1>6, <1>7, <2>1, Zenon
  <2>2. CASE i = Len(s) + 1
    BY <1>2, <1>6, <1>7, <2>2, Zenon DEF p
  <2> QED BY <1>2, <2>1, <2>2
<1>9. Pieces(u, D) = q
  BY <1>2, <1>6, <1>7, <1>8, SeqEqual
<1>10. Without(u, D) = Without(s, D) \o p
  <2>1. FlattenSeq(q) = FlattenSeq(Pieces(s, D)) \o p
    BY <1>3, <1>4, <1>5, FlattenAppend, Zenon
  <2> QED BY <1>9, <2>1, Zenon DEF Without, Pieces
<1>11. Without(s, D) \in Seq(S)
  BY WithoutType
<1>12. Without(s, D) \o <<>> = Without(s, D) /\ Without(s, D) \o <<e>> = Append(Without(s, D), e)
  BY <1>11, ConcatEmptySeq, AppendIsConcat
<1> QED BY <1>1, <1>10, <1>12, Zenon DEF p

LEMMA WithoutConcat ==
  ASSUME NEW S, NEW s \in Seq(S), NEW t \in Seq(S), NEW D
  PROVE  Without(s \o t, D) = Without(s, D) \o Without(t, D)
<1> DEFINE T == {u \in Seq(S) : Without(s \o u, D) = Without(s, D) \o Without(u, D)}
<1>0. Without(s, D) \in Seq(S)
  BY WithoutType
<1>1. <<>> \in T
  <2>1. s \o <<>> = s /\ Without(s, D) \o <<>> = Without(s, D)
    BY <1>0, ConcatEmptySeq
  <2>2. <<>> \in Seq(S)
    BY EmptySeq
  <2> QED BY <2>1, <2>2, WithoutEmpty, Zenon
<1>2. ASSUME NEW u \in Seq(S), NEW e \in S, u \in T PROVE Append(u, e) \in T
  <2>1. s \o Append(u, e) = Append(s \o u, e)
    BY AppendConcat
  <2>2. s \o u \in Seq(S) /\ Append(u, e) \in Seq(S) /\ Without(u, D) \in Seq(S)
    BY ConcatProperties, AppendProperties, WithoutType
  <2>3. Without(Append(s \o u, e), D) = IF e \in D THEN Without(s \o u, D) ELSE Append(Without(s \o u, D), e)
    <3>1. PICK v \in Seq(S) : v = s \o u
      BY <2>2
    <3>2. Without(Append(v, e), D) = IF e \in D THEN Without(v, D) ELSE Append(Without(v, D), e)
      BY WithoutAppend
    <3> QED BY <3>1, <3>2, Zenon
  <2>4. Without(Append(u, e), D) = IF e \in D THEN Without(u, D) ELSE Append(Without(u, D), e)
    BY WithoutAppend
  <2>5. Without(s, D) \o Append(Without(u, D), e) = Append(Without(s, D) \o Without(u, D), e)
    BY <1>0, <2>2, AppendConcat
  <2>6. Without(s \o u, D) = Without(s, D) \o Without(u, D)
    BY <1>2
  <2>7. Without(s \o Append(u, e), D) = Without(s, D) \o Without(Append(u, e), D)
    <3>1. CASE e \in D
      BY <2>1, <2>3, <2>4, <2>6, <3>1, Zenon
    <3>2. CASE e \notin D
      BY <2>1, <2>3, <2>4, <2>5, <2>6, <3>2, Zenon
    <3> QED BY <3>1, <3>2
  <2> QED BY <2>2, <2>7
<1> HIDE DEF T
<1>3. \A u \in Seq(S) : u \in T
  BY <1>1, <1>2, SeqInduction
<1> QED BY <1>3 DEF T

(* Where D and E leave the same of s.                                        *)
LEMMA WithoutSame ==
  ASSUME NEW S, NEW s \in Seq(S), NEW D, NEW E, \A e \in ToSet(s) : e \in D <=> e \in E
  PROVE  Without(s, D) = Without(s, E)
<1>1. \A i \in DOMAIN s : s[i] \in D <=> s[i] \in E
  BY DEF ToSet
<1>2. Pieces(s, D) = Pieces(s, E)
  BY <1>1 DEF Pieces
<1> QED BY <1>2, Zenon DEF Without, Pieces

LEMMA WithoutNone ==
  ASSUME NEW S, NEW s \in Seq(S)
  PROVE  Without(s, {}) = s
<1> DEFINE T == {u \in Seq(S) : Without(u, {}) = u}
<1>1. <<>> \in T
  BY WithoutEmpty, EmptySeq
<1>2. ASSUME NEW u \in Seq(S), NEW e \in S, u \in T PROVE Append(u, e) \in T
  BY <1>2, WithoutAppend, AppendProperties
<1> HIDE DEF T
<1>3. \A u \in Seq(S) : u \in T
  BY <1>1, <1>2, SeqInduction
<1> QED BY <1>3 DEF T

LEMMA WithoutAll ==
  ASSUME NEW S, NEW s \in Seq(S)
  PROVE  Without(s, ToSet(s)) = <<>>
<1> DEFINE T == {u \in Seq(S) : \A D : ToSet(u) \subseteq D => Without(u, D) = <<>>}
<1>1. <<>> \in T
  BY WithoutEmpty, EmptySeq
<1>2. ASSUME NEW u \in Seq(S), NEW e \in S, u \in T PROVE Append(u, e) \in T
  <2>1. Append(u, e) \in Seq(S) /\ ToSet(Append(u, e)) = ToSet(u) \cup {e}
    BY AppendProperties, ToSetAppend
  <2>2. ASSUME NEW D, ToSet(u) \cup {e} \subseteq D PROVE Without(Append(u, e), D) = <<>>
    <3>1. e \in D /\ Without(u, D) = <<>>
      BY <1>2, <2>2
    <3> QED BY <3>1, WithoutAppend
  <2> QED BY <2>1, <2>2
<1> HIDE DEF T
<1>3. \A u \in Seq(S) : u \in T
  BY <1>1, <1>2, SeqInduction
<1> QED BY <1>3 DEF T

LEMMA WithoutTwice ==
  ASSUME NEW S, NEW s \in Seq(S), NEW D, NEW E
  PROVE  Without(Without(s, D), E) = Without(s, D \cup E)
<1> DEFINE T == {u \in Seq(S) : Without(Without(u, D), E) = Without(u, D \cup E)}
<1>1. <<>> \in T
  BY WithoutEmpty, EmptySeq
<1>2. ASSUME NEW u \in Seq(S), NEW e \in S, u \in T PROVE Append(u, e) \in T
  <2>1. Append(u, e) \in Seq(S) /\ Without(u, D) \in Seq(S)
    BY AppendProperties, WithoutType
  <2>2. Without(Without(u, D), E) = Without(u, D \cup E)
    BY <1>2
  <2>3. Without(Append(u, e), D) = IF e \in D THEN Without(u, D) ELSE Append(Without(u, D), e)
    BY WithoutAppend
  <2>4. Without(Append(u, e), D \cup E)
          = IF e \in D \cup E THEN Without(u, D \cup E) ELSE Append(Without(u, D \cup E), e)
    BY WithoutAppend
  <2>5. Without(Append(Without(u, D), e), E)
          = IF e \in E THEN Without(Without(u, D), E) ELSE Append(Without(Without(u, D), E), e)
    BY <2>1, WithoutAppend
  <2>6. Without(Without(Append(u, e), D), E) = Without(Append(u, e), D \cup E)
    BY <2>2, <2>3, <2>4, <2>5, Zenon
  <2> QED BY <2>1, <2>6
<1> HIDE DEF T
<1>3. \A u \in Seq(S) : u \in T
  BY <1>1, <1>2, SeqInduction
<1> QED BY <1>3 DEF T

(* What is left of a sequence without repetitions has none either.           *)
LEMMA WithoutKeepsDistinct ==
  ASSUME NEW S, NEW s \in Seq(S), NEW D, IsInjective(s)
  PROVE  IsInjective(Without(s, D)) /\ ToSet(Without(s, D)) = ToSet(s) \ D
<1> DEFINE T == {u \in Seq(S) : IsInjective(u) =>
                   IsInjective(Without(u, D)) /\ ToSet(Without(u, D)) = ToSet(u) \ D}
<1>1. <<>> \in T
  BY WithoutEmpty, EmptySeq DEF IsInjective, ToSet
<1>2. ASSUME NEW u \in Seq(S), NEW e \in S, u \in T PROVE Append(u, e) \in T
  <2>1. Append(u, e) \in Seq(S) /\ Without(u, D) \in Seq(S)
    BY AppendProperties, WithoutType
  <2> SUFFICES ASSUME IsInjective(Append(u, e))
               PROVE  /\ IsInjective(Without(Append(u, e), D))
                      /\ ToSet(Without(Append(u, e), D)) = ToSet(Append(u, e)) \ D
    BY <2>1
  <2>2. IsInjective(u) /\ e \notin ToSet(u)
    BY AppendDistinct
  <2>3. IsInjective(Without(u, D)) /\ ToSet(Without(u, D)) = ToSet(u) \ D
    BY <1>2, <2>2
  <2>4. CASE e \in D
    BY <2>3, <2>4, WithoutAppend, ToSetAppend
  <2>5. CASE e \notin D
    <3>1. Without(Append(u, e), D) = Append(Without(u, D), e)
      BY <2>5, WithoutAppend
    <3>2. IsInjective(Append(Without(u, D), e))
      BY <2>1, <2>2, <2>3, AppendDistinct
    <3>3. ToSet(Append(Without(u, D), e)) = ToSet(Without(u, D)) \cup {e}
      BY <2>1, ToSetAppend
    <3> QED BY <2>3, <2>5, <3>1, <3>2, <3>3, ToSetAppend
  <2> QED BY <2>4, <2>5
<1> HIDE DEF T
<1>3. \A u \in Seq(S) : u \in T
  BY <1>1, <1>2, SeqInduction
<1> QED BY <1>3 DEF T

(* What is taken out of the middle leaves the two ends.                      *)
LEMMA WithoutMiddle ==
  ASSUME NEW S, NEW s \in Seq(S), NEW q \in Seq(S), NEW t \in Seq(S),
         IsInjective((s \o q) \o t)
  PROVE  Without((s \o q) \o t, ToSet(q)) = s \o t
<1> DEFINE D == ToSet(q)
<1>1. s \o q \in Seq(S)
  BY ConcatProperties
<1>2. IsInjective(s \o q) /\ ToSet(s \o q) \cap ToSet(t) = {}
  BY <1>1, ConcatDistinct
<1>3. ToSet(s) \cap D = {} /\ D \cap ToSet(t) = {}
  BY <1>2, ConcatDistinct, ToSetConcat
<1>4. Without(s, D) = s
  <2>1. Without(s, D) = Without(s, {})
    BY <1>3, WithoutSame
  <2> QED BY <2>1, WithoutNone
<1>5. Without(t, D) = t
  <2>1. Without(t, D) = Without(t, {})
    BY <1>3, WithoutSame
  <2> QED BY <2>1, WithoutNone
<1>6. Without(q, D) = <<>>
  BY WithoutAll
<1>7. Without((s \o q) \o t, D) = Without(s \o q, D) \o Without(t, D)
  <2>1. \A v \in Seq(S) : Without(v \o t, D) = Without(v, D) \o Without(t, D)
    <3> TAKE v \in Seq(S)
    <3> QED BY WithoutConcat, SMTT(20)
  <2> QED BY <1>1, <2>1
<1>8. Without(s \o q, D) = Without(s, D) \o Without(q, D)
  BY WithoutConcat
<1>9. s \o <<>> = s
  BY ConcatEmptySeq
<1> QED BY <1>4, <1>5, <1>6, <1>7, <1>8, <1>9, Zenon

(* What Contents computes.                                                   *)
Texts(bs) == [i \in DOMAIN bs |-> bs[i].lines]

LEMMA TextsType ==
  ASSUME NEW bs \in Seq(Buffer)
  PROVE  /\ Texts(bs) \in Seq(Seq(Line)) /\ Len(Texts(bs)) = Len(bs)
         /\ \A i \in 1..Len(bs) : Texts(bs)[i] = bs[i].lines
<1>1. Len(bs) \in Nat /\ DOMAIN bs = 1..Len(bs)
  BY LenProperties
<1>2. \A i \in 1..Len(bs) : bs[i].lines \in Seq(Line)
  <2> TAKE i \in 1..Len(bs)
  <2>1. bs[i] \in Buffer
    BY ElementOfSeq
  <2> QED BY <2>1 DEF Buffer
<1>3. \A i \in 1..Len(bs) : Texts(bs)[i] = bs[i].lines
  BY <1>1, Zenon DEF Texts
<1>4. Texts(bs) = [i \in 1..Len(bs) |-> bs[i].lines]
  BY <1>1, Zenon DEF Texts
<1>5. Texts(bs) \in [1..Len(bs) -> Seq(Line)]
  BY <1>2, <1>4, Zenon
<1> QED BY <1>1, <1>3, <1>5, FunctionIsSeq, Zenon

LEMMA ContentsType == ASSUME NEW bs \in Seq(Buffer) PROVE Contents(bs) \in Seq(Line)
BY TextsType, FlattenType, Zenon DEF Contents, Texts

LEMMA ContentsEmpty == Contents(<<>>) = <<>>
<1>1. Texts(<<>>) = <<>>
  BY DEF Texts
<1> QED BY <1>1, FlattenEmpty DEF Contents, Texts

LEMMA ContentsAppend ==
  ASSUME NEW bs \in Seq(Buffer), NEW b \in Buffer
  PROVE  Contents(Append(bs, b)) = Contents(bs) \o b.lines
<1>1. PICK u : u = Append(bs, b)
  OBVIOUS
<1>2. /\ u \in Seq(Buffer) /\ Len(bs) \in Nat
      /\ Len(u) = Len(bs) + 1 /\ u[Len(bs) + 1] = b
      /\ \A i \in 1..Len(bs) : u[i] = bs[i]
  BY <1>1
<1>3. PICK p : p = b.lines
  OBVIOUS
<1>4. p \in Seq(Line)
  BY <1>3 DEF Buffer
<1>5. PICK q : q = Append(Texts(bs), p)
  OBVIOUS
<1>6. /\ Texts(bs) \in Seq(Seq(Line)) /\ Len(Texts(bs)) = Len(bs)
      /\ \A i \in 1..Len(bs) : Texts(bs)[i] = bs[i].lines
  BY TextsType
<1>7. /\ Texts(u) \in Seq(Seq(Line)) /\ Len(Texts(u)) = Len(u)
      /\ \A i \in 1..Len(u) : Texts(u)[i] = u[i].lines
  BY <1>2, TextsType
<1>8. /\ q \in Seq(Seq(Line)) /\ Len(q) = Len(bs) + 1 /\ q[Len(bs) + 1] = p
      /\ \A i \in 1..Len(bs) : q[i] = Texts(bs)[i]
  BY <1>4, <1>5, <1>6
<1>9. \A i \in 1..Len(u) : Texts(u)[i] = q[i]
  <2> TAKE i \in 1..Len(u)
  <2>1. CASE i \in 1..Len(bs)
    BY <1>2, <1>6, <1>7, <1>8, <2>1, Zenon
  <2>2. CASE i = Len(bs) + 1
    BY <1>2, <1>3, <1>7, <1>8, <2>2, Zenon
  <2> QED BY <1>2, <2>1, <2>2
<1>10. Texts(u) = q
  BY <1>2, <1>7, <1>8, <1>9, SeqEqual
<1>11. FlattenSeq(q) = FlattenSeq(Texts(bs)) \o p
  BY <1>4, <1>5, <1>6, FlattenAppend, Zenon
<1> QED BY <1>1, <1>3, <1>10, <1>11, Zenon DEF Contents, Texts

LEMMA Regroup == \A s, t, u \in Seq(Line) : (s \o t) \o u = s \o (t \o u)
BY ConcatAssociative

LEMMA ContentsConcat ==
  ASSUME NEW bs \in Seq(Buffer), NEW cs \in Seq(Buffer)
  PROVE  Contents(bs \o cs) = Contents(bs) \o Contents(cs)
<1> DEFINE T == {u \in Seq(Buffer) : Contents(bs \o u) = Contents(bs) \o Contents(u)}
<1>0. Contents(bs) \in Seq(Line)
  BY ContentsType
<1>1. <<>> \in T
  <2>1. bs \o <<>> = bs /\ Contents(bs) \o <<>> = Contents(bs)
    BY <1>0, ConcatEmptySeq
  <2>2. <<>> \in Seq(Buffer)
    BY EmptySeq
  <2> QED BY <2>1, <2>2, ContentsEmpty, Zenon
<1>2. ASSUME NEW u \in Seq(Buffer), NEW b \in Buffer, u \in T PROVE Append(u, b) \in T
  <2>1. bs \o Append(u, b) = Append(bs \o u, b)
    BY AppendConcat
  <2>2. bs \o u \in Seq(Buffer) /\ Append(u, b) \in Seq(Buffer) /\ Contents(u) \in Seq(Line)
    BY ConcatProperties, AppendProperties, ContentsType
  <2>3. Contents(Append(bs \o u, b)) = Contents(bs \o u) \o b.lines
    BY <2>2, ContentsAppend, Zenon
  <2>4. Contents(Append(u, b)) = Contents(u) \o b.lines
    BY ContentsAppend
  <2>5. b.lines \in Seq(Line)
    BY DEF Buffer
  <2>6. (Contents(bs) \o Contents(u)) \o b.lines = Contents(bs) \o (Contents(u) \o b.lines)
    <3>1. PICK c \in Seq(Line) : c = Contents(bs)
      BY <1>0
    <3>2. PICK d \in Seq(Line) : d = Contents(u)
      BY <2>2
    <3>3. PICK e \in Seq(Line) : e = b.lines
      BY <2>5
    <3>4. (c \o d) \o e = c \o (d \o e)
      BY Regroup, Zenon
    <3> QED BY <3>1, <3>2, <3>3, <3>4, Zenon
  <2>7. Contents(bs \o u) = Contents(bs) \o Contents(u)
    BY <1>2
  <2> QED BY <2>1, <2>2, <2>3, <2>4, <2>6, <2>7, Zenon
<1> HIDE DEF T
<1>3. \A u \in Seq(Buffer) : u \in T
  BY <1>1, <1>2, SeqInduction
<1> QED BY <1>3 DEF T

LEMMA LineBehind ==
  \A s, t \in Seq(Line), l \in Line : s \o Append(t, l) = Append(s \o t, l)
BY AppendConcat

(* No line is appended twice, only appended lines are given up, and what     *)
(* there is of the others stands in the order of append.                     *)
OInv ==
    /\ appended \in Seq(Line) /\ IsInjective(appended)
    /\ file \in Seq(Line)
    /\ dropped \cup lost \subseteq ToSet(appended)
    /\ NothingLostNothingReordered

LEMMA InitOInv == Init => OInv
<1> SUFFICES ASSUME Init PROVE OInv
  OBVIOUS
<1>1. /\ appended = <<>> /\ file = <<>> /\ dropped \cup lost = {}
      /\ buffers = <<>> /\ buffersToWrite = <<>> /\ currentBuf.lines = <<>>
  BY DEF Init, Empty
<1>2. <<>> \in Seq(Line) /\ <<>> \o <<>> = <<>>
  BY EmptySeq, ConcatEmptySeq
<1>3. InOrder = <<>> /\ Without(appended, dropped \cup lost) = <<>>
  BY <1>1, <1>2, ContentsEmpty, WithoutEmpty, Zenon DEF InOrder, Waiting
<1> QED BY <1>1, <1>2, <1>3 DEF OInv, NothingLostNothingReordered, IsInjective

LEMMA PutLines ==
  ASSUME NEW b \in Buffer, NEW l
  PROVE  Put(b, l).lines = IF Fits(b, l) THEN Append(b.lines, l) ELSE b.lines
BY DEF Put, Buffer

LEMMA BufferLines == ASSUME NEW b \in Buffer PROVE b.lines \in Seq(Line)
BY DEF Buffer

(* append puts its line behind all others, or drops it.                      *)
LEMMA AppendToWaiting ==
  ASSUME IInv, NEW l \in Line, AppendToCurrent(l) \/ AppendToNext(l)
  PROVE  \E buf \in Buffer :
           Record(l, buf) /\ Waiting' = IF Fits(buf, l) THEN Append(Waiting, l) ELSE Waiting
<1>1. PICK w : w \in Seq(Line) /\ w = Contents(buffersToWrite)
  BY ContentsType DEF IInv, TypeOK
<1>2. PICK b : b \in Seq(Line) /\ b = Contents(buffers)
  BY ContentsType DEF IInv, TypeOK
<1>3. PICK c : c \in Seq(Line) /\ c = currentBuf.lines
  BY BufferLines DEF IInv, TypeOK
<1>4. PICK g : g \in Seq(Line) /\ g = w \o b
  BY <1>1, <1>2, ConcatProperties
<1>5. Waiting = g \o c
  BY <1>1, <1>2, <1>3, <1>4, Zenon DEF Waiting
<1>6. CASE AppendToCurrent(l)
  <2>1. /\ Record(l, currentBuf) /\ currentBuf' = Put(currentBuf, l) /\ currentBuf \in Buffer
        /\ buffers' = buffers /\ buffersToWrite' = buffersToWrite
    BY <1>6 DEF AppendToCurrent, Record, loopVars, IInv, TypeOK
  <2>2. Waiting' = g \o currentBuf'.lines
    BY <1>1, <1>2, <1>4, <2>1, Zenon DEF Waiting
  <2>3. currentBuf'.lines = IF Fits(currentBuf, l) THEN Append(c, l) ELSE c
    BY <1>3, <2>1, PutLines
  <2>4. g \o Append(c, l) = Append(g \o c, l)
    BY <1>3, <1>4, LineBehind
  <2> QED BY <1>5, <2>1, <2>2, <2>3, <2>4, Zenon
<1>7. CASE AppendToNext(l)
  <2>1. PICK buf : /\ buf = IF nextBuf # NoBuffer THEN nextBuf ELSE Empty(maxBuffSize)
                   /\ Record(l, buf) /\ currentBuf' = Put(buf, l)
    BY <1>7 DEF AppendToNext
  <2>2. buf \in Buffer /\ buf.lines = <<>>
    <3>1. CASE nextBuf = NoBuffer
      BY <2>1, <3>1, EmptyFits, AsyncLoggerAssumption DEF Empty
    <3>2. CASE nextBuf # NoBuffer
      BY <2>1, <3>2 DEF IInv, TypeOK, BufferOrNone, HandOverInv, IsEmpty
    <3> QED BY <3>1, <3>2
  <2>3. buffersToWrite' = buffersToWrite /\ buffers' = Append(buffers, currentBuf)
    BY <1>7, <2>1 DEF AppendToNext, Record, loopVars, HandOver
  <2>4. PICK d : d \in Seq(Line) /\ d = b \o c
    BY <1>2, <1>3, ConcatProperties
  <2>5. Contents(buffers') = d
    BY <1>2, <1>3, <2>3, <2>4, ContentsAppend DEF IInv, TypeOK
  <2>6. PICK h : h \in Seq(Line) /\ h = w \o d
    BY <1>1, <2>4, ConcatProperties
  <2>7. h = g \o c
    <3>1. w \in Seq(Line) /\ b \in Seq(Line) /\ c \in Seq(Line)
      BY <1>1, <1>2, <1>3, Zenon
    <3>2. (w \o b) \o c = w \o (b \o c)
      BY <3>1, Regroup, Zenon
    <3> QED BY <1>4, <2>4, <2>6, <3>2, Zenon
  <2>8. Waiting' = h \o currentBuf'.lines
    BY <1>1, <2>3, <2>5, <2>6, Zenon DEF Waiting
  <2>9. currentBuf'.lines = IF Fits(buf, l) THEN Append(<<>>, l) ELSE <<>>
    BY <2>1, <2>2, PutLines
  <2>10. h \o Append(<<>>, l) = Append(h \o <<>>, l) /\ h \o <<>> = h
    <3>1. <<>> \in Seq(Line)
      BY EmptySeq
    <3>2. h \o <<>> = h
      BY <2>6, ConcatEmptySeq
    <3> QED BY <2>6, <3>1, <3>2, LineBehind
  <2> QED BY <1>5, <2>1, <2>2, <2>7, <2>8, <2>9, <2>10, Zenon
<1> QED BY <1>6, <1>7

LEMMA WaitingType == TypeOK => Waiting \in Seq(Line)
<1> SUFFICES ASSUME TypeOK PROVE Waiting \in Seq(Line)
  OBVIOUS
<1>1. /\ Contents(buffersToWrite) \in Seq(Line) /\ Contents(buffers) \in Seq(Line)
      /\ currentBuf.lines \in Seq(Line)
  BY ContentsType, BufferLines DEF TypeOK
<1>2. Contents(buffersToWrite) \o Contents(buffers) \in Seq(Line)
  BY <1>1, ConcatProperties
<1> QED BY <1>1, <1>2, ConcatProperties DEF Waiting

LEMMA AppendOInv ==
  ASSUME IInv, OInv, NEW l \in Line, AppendToCurrent(l) \/ AppendToNext(l)
  PROVE  OInv'
<1>1. PICK buf \in Buffer :
        Record(l, buf) /\ InOrder' = IF Fits(buf, l) THEN Append(InOrder, l) ELSE InOrder
  <2>1. PICK buf \in Buffer :
          Record(l, buf) /\ Waiting' = IF Fits(buf, l) THEN Append(Waiting, l) ELSE Waiting
    BY AppendToWaiting
  <2>2. file' = file
    BY <2>1 DEF Record
  <2>3. file \in Seq(Line) /\ Waiting \in Seq(Line)
    BY WaitingType DEF OInv, IInv
  <2>4. file \o Append(Waiting, l) = Append(file \o Waiting, l)
    BY <2>3, LineBehind
  <2> QED BY <2>1, <2>2, <2>4, Zenon DEF InOrder
<1>2. /\ l \notin ToSet(appended) /\ appended' = Append(appended, l)
      /\ file' = file /\ lost' = lost
      /\ dropped' = IF Fits(buf, l) THEN dropped ELSE dropped \cup {l}
  BY <1>1 DEF Record
<1>3. /\ appended \in Seq(Line) /\ IsInjective(appended) /\ file \in Seq(Line)
      /\ dropped \cup lost \subseteq ToSet(appended)
      /\ InOrder = Without(appended, dropped \cup lost)
  BY DEF OInv, NothingLostNothingReordered
<1>4. /\ appended' \in Seq(Line) /\ IsInjective(appended')
      /\ ToSet(appended') = ToSet(appended) \cup {l}
  BY <1>2, <1>3, AppendProperties, AppendDistinct, ToSetAppend
<1>5. dropped' \cup lost' \subseteq ToSet(appended')
  BY <1>2, <1>3, <1>4
<1>6. InOrder' = Without(appended', dropped' \cup lost')
  <2>1. CASE Fits(buf, l)
    <3>1. Without(Append(appended, l), dropped \cup lost)
            = Append(Without(appended, dropped \cup lost), l)
      BY <1>2, <1>3, WithoutAppend
    <3> QED BY <1>1, <1>2, <1>3, <2>1, <3>1, Zenon
  <2>2. CASE ~Fits(buf, l)
    <3>1. PICK G : G = (dropped \cup {l}) \cup lost
      OBVIOUS
    <3>2. Without(Append(appended, l), G) = Without(appended, G)
      BY <1>3, <3>1, WithoutAppend
    <3>3. Without(appended, G) = Without(appended, dropped \cup lost)
      BY <1>2, <1>3, <3>1, WithoutSame
    <3> QED BY <1>1, <1>2, <1>3, <2>2, <3>1, <3>2, <3>3, Zenon
  <2> QED BY <2>1, <2>2
<1> QED BY <1>2, <1>3, <1>4, <1>5, <1>6 DEF OInv, NothingLostNothingReordered

(* The swap moves the border between two parts of what waits.                *)
LEMMA SwapKeepsWaiting == ASSUME IInv, LoopSwap PROVE Waiting' = Waiting
<1>1. /\ buffersToWrite = <<>> /\ newBuffer1 \in Buffer /\ newBuffer1.lines = <<>>
      /\ buffers \in Seq(Buffer) /\ currentBuf \in Buffer
  BY DEF IInv, TypeOK, BufferOrNone, DoubleBufferAsserts, LoopSwap, SwapReady, IsEmpty
<1>2. /\ buffersToWrite' = Append(buffers, currentBuf) /\ buffers' = <<>>
      /\ currentBuf' = newBuffer1
  BY DEF LoopSwap, HandOver
<1>3. PICK b \in Seq(Line) : b = Contents(buffers)
  BY <1>1, ContentsType
<1>4. PICK c \in Seq(Line) : c = currentBuf.lines
  BY <1>1, BufferLines
<1>5. Waiting = b \o c
  <2>1. <<>> \o b = b
    BY ConcatEmptySeq
  <2> QED BY <1>1, <1>3, <1>4, <2>1, ContentsEmpty, Zenon DEF Waiting
<1>6. Waiting' = b \o c
  <2>1. Contents(buffersToWrite') = b \o c
    BY <1>1, <1>2, <1>3, <1>4, ContentsAppend
  <2>2. PICK d \in Seq(Line) : d = b \o c
    BY ConcatProperties
  <2>3. d \o <<>> = d
    BY ConcatEmptySeq
  <2> QED BY <1>1, <1>2, <2>1, <2>2, <2>3, ContentsEmpty, Zenon DEF Waiting
<1> QED BY <1>5, <1>6

LEMMA SwapOInv == ASSUME IInv, OInv, LoopSwap PROVE OInv'
<1>1. UNCHANGED <<file, appended, dropped, lost>>
  BY DEF LoopSwap
<1>2. InOrder' = InOrder
  BY <1>1, SwapKeepsWaiting DEF InOrder
<1> QED BY <1>1, <1>2 DEF OInv, NothingLostNothingReordered

LEMMA ToSetParts == \A s, t \in Seq(Line) : ToSet(s \o t) = ToSet(s) \cup ToSet(t)
BY ToSetConcat

LEMMA DistinctParts ==
  \A s, t \in Seq(Line) : IsInjective(s \o t) => IsInjective(s) /\ ToSet(s) \cap ToSet(t) = {}
BY ConcatDistinct

LEMMA LostMore ==
  \A s \in Seq(Line) : \A D, E : Without(Without(s, D), E) = Without(s, D \cup E)
BY WithoutTwice

LEMMA FirstTwo ==
  ASSUME NEW bs \in Seq(Buffer), NEW n \in 0..Len(bs)
  PROVE  \E u, v \in Seq(Buffer) : u = SubSeq(bs, 1, n) /\ u \o v = bs
<1>1. /\ SubSeq(bs, 1, n) \in Seq(Buffer) /\ SubSeq(bs, n + 1, Len(bs)) \in Seq(Buffer)
      /\ SubSeq(bs, 1, n) \o SubSeq(bs, n + 1, Len(bs)) = bs
  BY SplitAt
<1> QED BY <1>1, Zenon

LEMMA CutAt ==
  \A t \in Seq(Line) : \A n \in 0..Len(t) :
    \E p, u \in Seq(Line) : p = SubSeq(t, 1, n) /\ p \o u = t
<1> TAKE t \in Seq(Line)
<1> TAKE n \in 0..Len(t)
<1>1. /\ SubSeq(t, 1, n) \in Seq(Line) /\ SubSeq(t, n + 1, Len(t)) \in Seq(Line)
      /\ SubSeq(t, 1, n) \o SubSeq(t, n + 1, Len(t)) = t
  BY SplitAt
<1> QED BY <1>1, Zenon

LEMMA TrimmedContents ==
  ASSUME NEW bs \in Seq(Buffer)
  PROVE  /\ Contents(Trimmed(bs)) \in Seq(Line)
         /\ \E r \in Seq(Line) : Contents(bs) = Contents(Trimmed(bs)) \o r
<1>1. CASE Len(bs) > maxToWrite
  <2>1. 2 \in 0..Len(bs)
    BY <1>1, AsyncLoggerAssumption
  <2>2. \E u, v \in Seq(Buffer) : u = SubSeq(bs, 1, 2) /\ u \o v = bs
    BY <2>1, FirstTwo
  <2>3. PICK u, v \in Seq(Buffer) : u = Trimmed(bs) /\ u \o v = bs
    BY <1>1, <2>2, Zenon DEF Trimmed
  <2>4. Contents(bs) = Contents(u) \o Contents(v)
    BY <2>3, ContentsConcat
  <2>5. Contents(u) \in Seq(Line) /\ Contents(v) \in Seq(Line)
    BY ContentsType
  <2> QED BY <2>3, <2>4, <2>5, Zenon
<1>2. CASE ~(Len(bs) > maxToWrite)
  <2>1. Trimmed(bs) = bs
    BY <1>2 DEF Trimmed
  <2>2. Contents(bs) \in Seq(Line) /\ Contents(bs) \o <<>> = Contents(bs) /\ <<>> \in Seq(Line)
    <3>1. Contents(bs) \in Seq(Line)
      BY ContentsType
    <3> QED BY <3>1, ConcatEmptySeq, EmptySeq
  <2> QED BY <2>1, <2>2, Zenon
<1> QED BY <1>1, <1>2

(* The loop writes the beginning p of what it has; the rest, q, is lost.     *)
LEMMA FlushTakesFront ==
  ASSUME IInv, LoopFlush
  PROVE  \E p, q, d \in Seq(Line) :
           /\ Waiting = (p \o q) \o d /\ Waiting' = d
           /\ file' = file \o p
           /\ lost' = lost \cup (ToSet(p \o q) \ ToSet(p))
           /\ UNCHANGED <<appended, dropped>>
<1>1. buffersToWrite \in Seq(Buffer) /\ buffers \in Seq(Buffer) /\ currentBuf \in Buffer
  BY DEF IInv, TypeOK
<1>2. PICK t, r :
        /\ t \in Seq(Line) /\ r \in Seq(Line)
        /\ t = Contents(Trimmed(buffersToWrite))
        /\ Contents(buffersToWrite) = t \o r
  BY <1>1, TrimmedContents
<1>3. PICK n \in 0..Len(t) :
        /\ file' = file \o SubSeq(t, 1, n)
        /\ lost' = lost \cup (ToSet(Contents(buffersToWrite)) \ ToSet(SubSeq(t, 1, n)))
  <2>1. Len(t) \in Nat
    BY <1>2, LenProperties
  <2>2. PICK n \in IF WriteMayFail THEN 0..Len(t) ELSE {Len(t)} :
          /\ file' = file \o SubSeq(t, 1, n)
          /\ lost' = lost \cup (ToSet(Contents(buffersToWrite)) \ ToSet(SubSeq(t, 1, n)))
    BY <1>2, Zenon DEF LoopFlush
  <2>3. n \in 0..Len(t)
    BY <2>1, <2>2
  <2> QED BY <2>2, <2>3, Zenon
<1>4. /\ buffersToWrite' = <<>> /\ buffers' = buffers /\ currentBuf' = currentBuf
      /\ appended' = appended /\ dropped' = dropped
  BY DEF LoopFlush, frontVars
<1>5. PICK p, u : p \in Seq(Line) /\ u \in Seq(Line) /\ p = SubSeq(t, 1, n) /\ p \o u = t
  <2>1. t \in Seq(Line) /\ n \in 0..Len(t)
    BY <1>2, <1>3
  <2>2. \E p, u \in Seq(Line) : p = SubSeq(t, 1, n) /\ p \o u = t
    BY <2>1, CutAt
  <2> QED BY <2>2, Zenon
<1>6. PICK q : q \in Seq(Line) /\ q = u \o r
  BY <1>2, <1>5, ConcatProperties
<1>7. Contents(buffersToWrite) = p \o q
  <2>1. (p \o u) \o r = p \o (u \o r)
    <3>1. p \in Seq(Line) /\ u \in Seq(Line) /\ r \in Seq(Line)
      BY <1>2, <1>5, Zenon
    <3> QED BY <3>1, Regroup, Zenon
  <2> QED BY <1>2, <1>5, <1>6, <2>1, Zenon
<1>8. PICK b : b \in Seq(Line) /\ b = Contents(buffers)
  BY <1>1, ContentsType
<1>9. PICK c : c \in Seq(Line) /\ c = currentBuf.lines
  BY <1>1, BufferLines
<1>10. PICK d : d \in Seq(Line) /\ d = b \o c
  BY <1>8, <1>9, ConcatProperties
<1>11. Waiting = (p \o q) \o d
  <2>1. PICK h : h \in Seq(Line) /\ h = p \o q
    BY <1>5, <1>6, ConcatProperties
  <2>2. (h \o b) \o c = h \o (b \o c)
    BY <1>8, <1>9, <2>1, Regroup, Zenon
  <2> QED BY <1>7, <1>8, <1>9, <1>10, <2>1, <2>2, Zenon DEF Waiting
<1>12. Waiting' = d
  <2>1. <<>> \o b = b
    BY <1>8, ConcatEmptySeq
  <2> QED BY <1>4, <1>8, <1>9, <1>10, <2>1, ContentsEmpty, Zenon DEF Waiting
<1>13. file' = file \o p /\ lost' = lost \cup (ToSet(p \o q) \ ToSet(p))
  BY <1>3, <1>5, <1>7, Zenon
<1> QED BY <1>4, <1>5, <1>6, <1>10, <1>11, <1>12, <1>13, Zenon

(* What is lost is no part of what is written, nor of what goes on waiting.  *)
LEMMA FlushLoses ==
  ASSUME OInv, NEW p \in Seq(Line), NEW q \in Seq(Line), NEW d \in Seq(Line),
         Waiting = (p \o q) \o d,
         lost' = lost \cup (ToSet(p \o q) \ ToSet(p)), dropped' = dropped
  PROVE  /\ InOrder = ((file \o p) \o q) \o d
         /\ IsInjective(InOrder) /\ ToSet(q) \subseteq ToSet(appended)
         /\ dropped' \cup lost' = (dropped \cup lost) \cup ToSet(q)
<1>1. /\ file \in Seq(Line) /\ appended \in Seq(Line) /\ IsInjective(appended)
      /\ InOrder = Without(appended, dropped \cup lost)
  BY DEF OInv, NothingLostNothingReordered
<1>2. PICK g : g \in Seq(Line) /\ g = file \o p
  BY <1>1, ConcatProperties
<1>3. PICK h : h \in Seq(Line) /\ h = g \o q
  BY <1>2, ConcatProperties
<1>4. PICK k : k \in Seq(Line) /\ k = p \o q
  BY ConcatProperties
<1>5. InOrder = h \o d
  <2>1. (file \o k) \o d = file \o (k \o d)
    <3>1. file \in Seq(Line) /\ k \in Seq(Line) /\ d \in Seq(Line)
      BY <1>1, <1>4
    <3> QED BY <3>1, Regroup, ZenonT(30)
  <2>2. (file \o p) \o q = file \o (p \o q)
    <3>1. file \in Seq(Line) /\ p \in Seq(Line) /\ q \in Seq(Line)
      BY <1>1
    <3> QED BY <3>1, Regroup, Zenon
  <2> QED BY <1>2, <1>3, <1>4, <2>1, <2>2, Zenon DEF InOrder
<1>6. IsInjective(InOrder) /\ ToSet(InOrder) \subseteq ToSet(appended)
  <2>1. /\ IsInjective(Without(appended, dropped \cup lost))
        /\ ToSet(Without(appended, dropped \cup lost)) = ToSet(appended) \ (dropped \cup lost)
    BY <1>1, WithoutKeepsDistinct
  <2> QED BY <1>1, <2>1
<1>7. IsInjective(h) /\ ToSet(h) \subseteq ToSet(appended)
  <2>1. IsInjective(h \o d) /\ ToSet(h \o d) \subseteq ToSet(appended)
    BY <1>5, <1>6, Zenon
  <2>2. ToSet(h \o d) = ToSet(h) \cup ToSet(d)
    BY <1>3, ToSetParts
  <2> QED BY <1>3, <2>1, <2>2, DistinctParts
<1>8. ToSet(g) \cap ToSet(q) = {} /\ ToSet(q) \subseteq ToSet(appended)
  <2>1. ToSet(h) = ToSet(g) \cup ToSet(q)
    BY <1>2, <1>3, ToSetParts
  <2> QED BY <1>2, <1>3, <1>7, <2>1, DistinctParts
<1>9. ToSet(g) = ToSet(file) \cup ToSet(p) /\ ToSet(p \o q) = ToSet(p) \cup ToSet(q)
  BY <1>1, <1>2, ToSetParts
<1>10. dropped' \cup lost' = (dropped \cup lost) \cup ToSet(q)
  BY <1>8, <1>9
<1> QED BY <1>2, <1>3, <1>5, <1>6, <1>8, <1>10, Zenon

LEMMA FlushOInv == ASSUME IInv, OInv, LoopFlush PROVE OInv'
<1>1. PICK p, q, d \in Seq(Line) :
        /\ Waiting = (p \o q) \o d /\ Waiting' = d
        /\ file' = file \o p
        /\ lost' = lost \cup (ToSet(p \o q) \ ToSet(p))
        /\ UNCHANGED <<appended, dropped>>
  BY FlushTakesFront
<1>2. /\ InOrder = ((file \o p) \o q) \o d
      /\ IsInjective(InOrder) /\ ToSet(q) \subseteq ToSet(appended)
      /\ dropped' \cup lost' = (dropped \cup lost) \cup ToSet(q)
  BY <1>1, FlushLoses
<1>3. /\ file \in Seq(Line) /\ appended \in Seq(Line) /\ IsInjective(appended)
      /\ dropped \cup lost \subseteq ToSet(appended)
      /\ InOrder = Without(appended, dropped \cup lost)
  BY DEF OInv, NothingLostNothingReordered
<1>4. PICK g : g \in Seq(Line) /\ g = file \o p
  BY <1>3, ConcatProperties
<1>5. InOrder' = g \o d
  BY <1>1, <1>4, Zenon DEF InOrder
<1>6. Without((g \o q) \o d, ToSet(q)) = g \o d
  <2>1. IsInjective((g \o q) \o d)
    BY <1>2, <1>4, Zenon
  <2> QED BY <1>4, <2>1, WithoutMiddle
<1>7. Without(appended, (dropped \cup lost) \cup ToSet(q)) = g \o d
  <2>1. Without(Without(appended, dropped \cup lost), ToSet(q))
          = Without(appended, (dropped \cup lost) \cup ToSet(q))
    BY <1>3, LostMore
  <2> QED BY <1>2, <1>3, <1>4, <1>6, <2>1, Zenon
<1>8. /\ file' \in Seq(Line) /\ dropped' \cup lost' \subseteq ToSet(appended)
  BY <1>1, <1>2, <1>3, <1>4
<1> QED BY <1>1, <1>2, <1>3, <1>5, <1>7, <1>8 DEF OInv, NothingLostNothingReordered

LEMMA NextOInv == IInv /\ OInv /\ [Next]_vars => OInv'
<1> SUFFICES ASSUME IInv, OInv, [Next]_vars PROVE OInv'
  OBVIOUS
<1>1. CASE \E l \in Line : AppendToCurrent(l) \/ AppendToNext(l)
  BY <1>1, AppendOInv
<1>2. CASE LoopSwap \/ LoopFlush
  BY <1>2, SwapOInv, FlushOInv
<1>3. CASE LoopOpen \/ LoopTest \/ LoopWait \/ StartSpawn \/ StartWait \/ StartSpuriousWakeup
           \/ StopSet \/ StopJoin \/ UNCHANGED vars
  <2>1. /\ UNCHANGED <<file, buffersToWrite, buffers, currentBuf>>
        /\ UNCHANGED <<appended, dropped, lost>>
    BY <1>3 DEF LoopOpen, LoopTest, LoopWait, StartSpawn, StartWait, StartSpuriousWakeup, StopSet,
       StopJoin, vars, frontVars, loopVars
  <2>2. InOrder' = InOrder
    BY <2>1 DEF InOrder, Waiting
  <2> QED BY <2>1, <2>2 DEF OInv, NothingLostNothingReordered
<1> QED BY <1>1, <1>2, <1>3 DEF Next, LoopStep

LEMMA OInvHolds == Spec => []OInv
<1> QED BY InitOInv, IInvHolds, NextOInv, PTL DEF Spec

(* Whatever is appended by any number of threads stands in the file or in    *)
(* the buffers, once and in the order of append, except the lines that did   *)
(* not fit (Buffer.cc:38), those in the buffers the loop throws away         *)
(* (cc:79-82) and those write(2) did not take (cc:85-88).                    *)
THEOREM OrderKept == Spec => []NothingLostNothingReordered
<1>1. OInv => NothingLostNothingReordered
  BY DEF OInv
<1> QED BY <1>1, OInvHolds, PTL

-----------------------------------------------------------------------------
(* The abstract log                                                          *)

(* p, q and d are what Write(n, m) makes of w.                               *)
Cut(w, n, m, p, q, d) ==
    /\ m \in 0..Len(w) /\ n \in 0..m
    /\ p = SubSeq(w, 1, n)
    /\ ToSet(q) = Abstract!Piece(w, n + 1, m)
    /\ d = SubSeq(w, m + 1, Len(w))

LEMMA ThreeParts ==
  \A p, q, d \in Seq(Line) : \A w :
    w = (p \o q) \o d => Cut(w, Len(p), Len(p) + Len(q), p, q, d)
<1> TAKE p, q, d \in Seq(Line)
<1> TAKE w
<1> HAVE w = (p \o q) \o d
<1> DEFINE n == Len(p)
           m == Len(p) + Len(q)
<1>1. PICK k \in Seq(Line) : k = p \o q
  BY ConcatProperties
<1>2. /\ n \in Nat /\ Len(q) \in Nat /\ Len(d) \in Nat /\ Len(k) = m
      /\ \A i \in 1..n : k[i] = p[i]
      /\ \A i \in n + 1..m : k[i] = q[i - n]
  BY <1>1, LenProperties, ConcatProperties
<1>3. /\ w \in Seq(Line) /\ Len(w) = m + Len(d)
      /\ \A i \in 1..m : w[i] = k[i]
      /\ \A i \in m + 1..m + Len(d) : w[i] = d[i - m]
  BY <1>1, <1>2, LenProperties, ConcatProperties
<1>4. m \in 0..Len(w) /\ n \in 0..m
  BY <1>2, <1>3
<1>5. p = SubSeq(w, 1, n)
  <2>1. \A i \in 1..n : w[i] = p[i]
    BY <1>2, <1>3
  <2> QED BY <1>2, <1>3, <1>4, <2>1
<1>6. ToSet(q) = Abstract!Piece(w, n + 1, m)
  <2>1. \A i \in n + 1..m : w[i] = q[i - n]
    BY <1>2, <1>3
  <2>2. ToSet(q) \subseteq Abstract!Piece(w, n + 1, m)
    <3> SUFFICES ASSUME NEW j \in 1..Len(q) PROVE q[j] \in Abstract!Piece(w, n + 1, m)
      <4>1. DOMAIN q = 1..Len(q)
        OBVIOUS
      <4> QED BY <4>1 DEF ToSet
    <3>1. n + j \in n + 1..m /\ (n + j) - n = j
      BY <1>2
    <3> QED BY <2>1, <3>1 DEF Abstract!Piece
  <2>3. Abstract!Piece(w, n + 1, m) \subseteq ToSet(q)
    <3> SUFFICES ASSUME NEW i \in n + 1..m PROVE w[i] \in ToSet(q)
      BY DEF Abstract!Piece
    <3>1. i - n \in 1..Len(q)
      BY <1>2
    <3> QED BY <2>1, <3>1 DEF ToSet
  <2> QED BY <2>2, <2>3
<1>7. d = SubSeq(w, m + 1, Len(w))
  <2>1. \A j \in 1..Len(d) : w[j + m] = d[j]
    BY <1>2, <1>3
  <2> QED BY <1>2, <1>3, <1>4, <2>1
<1> QED BY <1>4, <1>5, <1>6, <1>7 DEF Cut

(* Every step of the logger is one of the abstract log, or none.             *)
LEMMA StepIsALogStep ==
  ASSUME IInv, OInv, [Next]_vars
  PROVE  [Abstract!Next]_(Abstract!vars)
<1>0. UNCHANGED <<appended, file, dropped, lost>> /\ Waiting' = Waiting
        => [Abstract!Next]_(Abstract!vars)
  BY DEF Abstract!vars
<1>1. ASSUME NEW l \in Line, AppendToCurrent(l) \/ AppendToNext(l)
      PROVE  [Abstract!Next]_(Abstract!vars)
  <2>1. PICK buf \in Buffer :
          Record(l, buf) /\ Waiting' = IF Fits(buf, l) THEN Append(Waiting, l) ELSE Waiting
    BY <1>1, AppendToWaiting
  <2>2. Abstract!Recorded(l)
    BY <2>1 DEF Record, Abstract!Recorded, Abstract!Piece, ToSet, OInv
  <2>3. CASE Fits(buf, l)
    <3>1. Abstract!Accept(l)
      BY <2>1, <2>2, <2>3 DEF Record, Abstract!Accept
    <3> QED BY <3>1 DEF Abstract!Next
  <2>4. CASE ~Fits(buf, l)
    <3>1. Abstract!Refuse(l)
      BY <2>1, <2>2, <2>4 DEF Record, Abstract!Refuse
    <3> QED BY <3>1 DEF Abstract!Next
  <2> QED BY <2>3, <2>4
<1>2. CASE LoopSwap
  <2>1. UNCHANGED <<appended, file, dropped, lost>>
    BY <1>2 DEF LoopSwap
  <2> QED BY <1>0, <1>2, <2>1, SwapKeepsWaiting
<1>3. CASE LoopFlush
  <2>1. PICK p, q, d \in Seq(Line) :
          /\ Waiting = (p \o q) \o d /\ Waiting' = d
          /\ file' = file \o p
          /\ lost' = lost \cup (ToSet(p \o q) \ ToSet(p))
          /\ UNCHANGED <<appended, dropped>>
    BY <1>3, FlushTakesFront
  <2>2. dropped' \cup lost' = (dropped \cup lost) \cup ToSet(q)
    BY <2>1, FlushLoses
  <2>3. PICK n, m : n = Len(p) /\ m = Len(p) + Len(q)
    OBVIOUS
  <2>4. Cut(Waiting, n, m, p, q, d)
    BY <2>1, <2>3, ThreeParts, Zenon
  <2>5. Abstract!Write(n, m)
    BY <2>1, <2>2, <2>4, Zenon DEF Abstract!Write, Cut
  <2>6. m \in 0..Len(Waiting) /\ n \in 0..m
    BY <2>4 DEF Cut
  <2> QED BY <2>5, <2>6 DEF Abstract!Next
<1>4. CASE LoopOpen \/ LoopTest \/ LoopWait \/ StartSpawn \/ StartWait \/ StartSpuriousWakeup
           \/ StopSet \/ StopJoin \/ UNCHANGED vars
  <2>1. /\ UNCHANGED <<file, buffersToWrite, buffers, currentBuf>>
        /\ UNCHANGED <<appended, dropped, lost>>
    BY <1>4 DEF LoopOpen, LoopTest, LoopWait, StartSpawn, StartWait, StartSpuriousWakeup, StopSet,
       StopJoin, vars, frontVars, loopVars
  <2>2. Waiting' = Waiting
    BY <2>1 DEF Waiting
  <2> QED BY <1>0, <2>1, <2>2
<1> QED BY <1>1, <1>2, <1>3, <1>4 DEF Next, LoopStep

(* The asynchronous logger implements Log.tla: whatever threads append while *)
(* the loop swaps, trims and writes (asynclog.cc:24-117), the file grows by  *)
(* lines from the front of those that wait, and lines given up lay behind    *)
(* the ones written with them.                                               *)
THEOREM LoggerImplementsLog == Spec => ImplementsLog
<1>1. Init => Abstract!Init
  <2> SUFFICES ASSUME Init PROVE Abstract!Init
    OBVIOUS
  <2>1. /\ appended = <<>> /\ file = <<>> /\ dropped \cup lost = {}
        /\ buffers = <<>> /\ buffersToWrite = <<>> /\ currentBuf.lines = <<>>
    BY DEF Init, Empty
  <2>2. <<>> \o <<>> = <<>>
    BY EmptySeq, ConcatEmptySeq
  <2> QED BY <2>1, <2>2, ContentsEmpty DEF Waiting, Abstract!Init
<1> QED BY <1>1, IInvHolds, OInvHolds, StepIsALogStep, PTL
       DEF Spec, ImplementsLog, Abstract!Spec

-----------------------------------------------------------------------------
(* Logger                                                                    *)

Places == {"idle", "get", "lock", "start", "level", "push", "log"}

StatementInv ==
    /\ pc \in [Thread -> Places]
    /\ msg \in [Thread -> Line \cup {"none"}]
    /\ \A t \in Thread : pc[t] # "idle" => msg[t] \in Line
    /\ loggers \in Nat /\ OneLogger

(* Without synchronous logging nothing is printed.                           *)
PrintInv ==
    /\ stdout \in Seq(Line) /\ m_buffer \in Seq(Line) /\ appended \in Seq(Line)
    /\ ~m_enable_sync_log => m_buffer = <<>>
    /\ PrintedInOrder

LInv == StatementInv /\ PrintInv

LEMMA InitLInv == LoggerInit => LInv
BY DEF LoggerInit, Init, LInv, StatementInv, PrintInv, OneLogger, PrintedInOrder, Places, ToSet

LEMMA StepImplements == StatementInv /\ [LoggerNext]_allVars => [Next]_vars
<1> SUFFICES ASSUME StatementInv, [LoggerNext]_allVars PROVE [Next]_vars
  OBVIOUS
<1>1. CASE \E t \in Thread, l \in Line : Statement(t, l)
  BY <1>1 DEF Statement
<1>2. ASSUME NEW t \in Thread, GoesOn(t) PROVE [Next]_vars
  <2>1. CASE TestLogger(t) \/ LockAndMake(t) \/ Made(t) \/ TestLevel(t) \/ log(t)
    BY <2>1 DEF TestLogger, LockAndMake, Made, TestLevel, log
  <2>2. CASE StartLogger(t)
    BY <2>2 DEF StartLogger, Next
  <2>3. CASE pushlog(t)
    <3>1. msg[t] \in Line
      BY <2>3 DEF pushlog, Goes, StatementInv
    <3> QED BY <2>3, <3>1 DEF pushlog, Next
  <2> QED BY <1>2, <2>1, <2>2, <2>3 DEF GoesOn
<1>3. CASE Others
  BY <1>3 DEF Others, Next
<1> QED BY <1>1, <1>2, <1>3 DEF LoggerNext, allVars

(* Nothing but pushlog and log touches what is printed.                      *)
LEMMA QuietStep ==
  ASSUME StatementInv, PrintInv, NEW t \in Thread,
         UNCHANGED <<stdout, m_buffer, appended>>, pc[t] # "log",
         \A u \in Thread \ {t} : pc'[u] = pc[u] /\ msg'[u] = msg[u]
  PROVE  PrintInv'
BY DEF PrintInv, PrintedInOrder

LEMMA StatementStep ==
  ASSUME LInv, NEW t \in Thread, NEW l \in Line, Statement(t, l) PROVE LInv'
<1>1. StatementInv'
  BY DEF LInv, StatementInv, Statement, Goes, OneLogger, Places
<1>2. PrintInv'
  BY QuietStep DEF LInv, StatementInv, Statement, Goes, vars
<1> QED BY <1>1, <1>2 DEF LInv

LEMMA QuietSteps ==
  ASSUME LInv, NEW t \in Thread,
         TestLogger(t) \/ LockAndMake(t) \/ Made(t) \/ TestLevel(t)
  PROVE  LInv'
<1>1. StatementInv'
  BY DEF LInv, StatementInv, TestLogger, LockAndMake, Made, TestLevel, MustInit, Goes, OneLogger, Places
<1>2. PrintInv'
  BY QuietStep DEF LInv, StatementInv, TestLogger, LockAndMake, Made, TestLevel, Goes, vars
<1> QED BY <1>1, <1>2 DEF LInv

LEMMA PushStep == ASSUME LInv, NEW t \in Thread, pushlog(t) PROVE LInv'
<1> USE DEF LInv
<1>1. StatementInv'
  BY DEF StatementInv, pushlog, Goes, OneLogger, Places
<1>2. msg[t] \in Line /\ appended' = Append(appended, msg[t])
  BY DEF StatementInv, pushlog, Goes, AppendToCurrent, AppendToNext, Record
<1>3. CASE ~m_enable_sync_log
  <2>1. m_buffer' = m_buffer /\ stdout' = stdout /\ appended' \in Seq(Line)
    BY <1>2, <1>3 DEF PrintInv, pushlog
  <2> QED BY <1>1, <1>3, <2>1 DEF PrintInv, PrintedInOrder
<1>4. CASE m_enable_sync_log
  <2>1. m_buffer' = Append(m_buffer, msg[t]) /\ stdout' = stdout /\ msg' = msg
        /\ pc' = [pc EXCEPT ![t] = "log"] /\ pc[t] = "push"
    BY <1>4 DEF pushlog, Goes
  <2>2. stdout' \o m_buffer' = appended'
    <3>1. stdout \in Seq(Line) /\ m_buffer \in Seq(Line) /\ stdout \o m_buffer = appended
      BY <1>4 DEF PrintInv, PrintedInOrder
    <3>2. stdout \o Append(m_buffer, msg[t]) = Append(stdout \o m_buffer, msg[t])
      BY <1>2, <3>1, AppendConcat
    <3> QED BY <1>2, <2>1, <3>1, <3>2
  <2>3. \A l \in ToSet(m_buffer') : l \in ToSet(m_buffer) \/ l = msg[t]
    BY <1>2, <2>1 DEF PrintInv, ToSet
  <2>4. \A l \in ToSet(m_buffer') : \E u \in Thread : pc'[u] = "log" /\ msg'[u] = l
    BY <1>4, <2>1, <2>3 DEF PrintInv, PrintedInOrder, StatementInv
  <2> QED BY <1>1, <1>2, <1>4, <2>1, <2>2, <2>4 DEF PrintInv, PrintedInOrder
<1> QED BY <1>1, <1>3, <1>4

LEMMA LogStep == ASSUME LInv, NEW t \in Thread, log(t) PROVE LInv'
<1> USE DEF LInv
<1>1. StatementInv'
  BY DEF StatementInv, log, Goes, OneLogger, Places
<1>2. appended' = appended /\ m_buffer' = <<>> /\ stdout' = stdout \o m_buffer
  BY DEF log, vars, PrintInv, Printed
<1>3. stdout' \in Seq(Line) /\ stdout' \o m_buffer' = stdout \o m_buffer
  BY <1>2 DEF PrintInv
<1> QED BY <1>1, <1>2, <1>3 DEF PrintInv, PrintedInOrder, ToSet

LEMMA NextLInv == LInv /\ [LoggerNext]_allVars => LInv'
<1> SUFFICES ASSUME LInv, [LoggerNext]_allVars PROVE LInv'
  OBVIOUS
<1>1. ASSUME NEW t \in Thread, GoesOn(t) PROVE LInv'
  <2>1. CASE StartLogger(t)
    BY <2>1 DEF StartLogger, StartSpawn, StartWait, loggerVars, LInv, StatementInv, OneLogger,
       PrintInv, PrintedInOrder
  <2> QED BY <1>1, <2>1, QuietSteps, PushStep, LogStep DEF GoesOn
<1>2. CASE Others /\ UNCHANGED loggerVars
  <2>1. appended' = appended
    BY <1>2 DEF Others, LoopStep, LoopOpen, LoopTest, LoopWait, LoopSwap, LoopFlush,
       StartSpuriousWakeup, StopSet, StopJoin
  <2> QED BY <1>2, <2>1 DEF loggerVars, LInv, StatementInv, OneLogger, PrintInv, PrintedInOrder
<1>3. CASE UNCHANGED allVars
  BY <1>3 DEF allVars, vars, loggerVars, LInv, StatementInv, OneLogger, PrintInv, PrintedInOrder
<1> QED BY <1>1, <1>2, <1>3, StatementStep DEF LoggerNext

THEOREM LInvHolds == LoggerSpec => []LInv
<1> QED BY InitLInv, NextLInv, PTL DEF LoggerSpec

(* Whatever any number of threads log, at any level, the asynchronous logger *)
(* sees one of the behaviours of AsyncLogger.tla: what is proved of those    *)
(* holds under the global logger (log.cc:91-123).                            *)
THEOREM LoggerImplementsAsyncLogger == LoggerSpec => Spec
<1>1. LoggerInit => Init
  BY DEF LoggerInit
<1>2. LInv => StatementInv
  BY DEF LInv
<1> QED BY <1>1, <1>2, LInvHolds, StepImplements, PTL DEF LoggerSpec, Spec

(* So the properties of the double buffer hold under it, too.                *)
THEOREM BufferCorrectUnderLogger ==
  LoggerSpec => []( /\ DoubleBufferAsserts /\ AvailNeverWraps
                    /\ DroppedOnlyIfTooLong /\ NothingLostNothingReordered )
<1> QED BY LoggerImplementsAsyncLogger, AssertsHold, NoOverflow, DropsOnlyTooLong, OrderKept, PTL

(* And the lines of the log statements are kept in such a log.               *)
THEOREM LogUnderLogger == LoggerSpec => ImplementsLog
<1> QED BY LoggerImplementsAsyncLogger, LoggerImplementsLog

(* The double-checked test of log.cc:100-111 makes one logger.               *)
THEOREM MadeOnce == LoggerSpec => []OneLogger
<1>1. LInv => OneLogger
  BY DEF LInv, StatementInv
<1> QED BY <1>1, LInvHolds, PTL

(* Lines are printed in the order of append, and none stays in m_buffer when *)
(* its statement is over (log.cc:118-138).                                   *)
THEOREM PrintingCorrect == LoggerSpec => []PrintedInOrder
<1>1. LInv => PrintedInOrder
  BY DEF LInv, PrintInv
<1> QED BY <1>1, LInvHolds, PTL
=============================================================================
