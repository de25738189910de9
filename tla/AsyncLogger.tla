---------------------------- MODULE AsyncLogger -----------------------------
(***************************************************************************)
(* The double-buffered asynchronous logger of                                *)
(* src/src/common/asynclog.{h,cc}, with the Buffer it uses.                  *)
(*                                                                           *)
(* Threads: those that append lines, the one running AsyncLoggerLoop, and    *)
(* the owner, which starts and then stops the logger.  append and the block  *)
(* at cc:62-76 hold mutex_ from beginning to end except while they wait, so  *)
(* each is one action.  The wait at cc:66 has no predicate and a time-out:   *)
(* it may end at any moment, with or without a notification.                 *)
(***************************************************************************)
EXTENDS Naturals, Sequences, SequencesExt

CONSTANTS
    Line,          \* lines to be logged, each appended at most once
    LineLen,       \* their lengths
    maxBuffSize,   \* capacity of a buffer (asynclog.h:37)
    InitCaps,      \* possible capacities of the two buffers of the
                   \* constructor, which uses maxBuffSize uninitialised
    maxToWrite,    \* 25 in the code: more full buffers than this are dropped
    WriteMayFail,  \* write(2) may write less than it is given
    StopUsed,      \* the owner stops the logger
    NoBuffer       \* a null BufferPtr

ASSUME AsyncLoggerAssumption ==
    /\ LineLen \in [Line -> Nat]
    /\ maxBuffSize \in Nat
    /\ InitCaps \subseteq Nat
    /\ maxToWrite \in Nat /\ maxToWrite >= 2
    /\ WriteMayFail \in BOOLEAN
    /\ StopUsed \in BOOLEAN

Buffer == [cap : Nat, used : Nat, lines : Seq(Line)]

ASSUME NoBufferAssumption == NoBuffer \notin Buffer

VARIABLES
    isRuning,        \* isRuning_
    currentBuf,      \* currentBuf_
    nextBuf,         \* nextBuf_
    buffers,         \* buffers_
    newBuffer1, newBuffer2, buffersToWrite,  \* locals of the loop
    file,            \* lines written to the file
    loop,            \* control point of the loop thread
    starter,         \* control point of start
    stopper,         \* control point of stop
    appended,        \* history: lines in the order of append
    dropped,         \* history: lines that did not fit their buffer
    lost             \* history: lines dropped at cc:81 or not written

ownerVars == <<isRuning, starter, stopper>>
frontVars == <<currentBuf, nextBuf, buffers>>
loopVars  == <<newBuffer1, newBuffer2, buffersToWrite>>
vars == <<ownerVars, frontVars, loopVars, file, loop, appended, dropped, lost>>

Empty(c) == [cap |-> c, used |-> 0, lines |-> <<>>]

avail(b) == b.cap - b.used

(* Mutant: a line that would fill the buffer exactly is refused.             *)
Fits_Strict(b, l) == avail(b) > LineLen[l]

(* Buffer.cc:38: a line that does not fit is dropped without a word.         *)
Fits(b, l) == avail(b) >= LineLen[l]

Put(b, l) ==
    IF Fits(b, l) THEN [b EXCEPT !.used = @ + LineLen[l], !.lines = Append(@, l)]
                  ELSE b

(* Mutant: the contents stay.                                                *)
Reset_Keep(b) == b

(* Buffer.cc:20-24                                                           *)
Reset(b) == Empty(b.cap)

(* Mutant: at the wrong end.                                                 *)
HandOver_Front(bs, b) == <<b>> \o bs

(* cc:33 and cc:69                                                           *)
HandOver(bs, b) == Append(bs, b)

(* What the buffers of a sequence hold.                                      *)
Contents(bs) == FlattenSeq([i \in DOMAIN bs |-> bs[i].lines])

Init ==
    /\ isRuning = FALSE
    /\ currentBuf \in {Empty(c) : c \in InitCaps}
    /\ nextBuf = currentBuf
    /\ buffers = <<>>
    /\ newBuffer1 = NoBuffer
    /\ newBuffer2 = NoBuffer
    /\ buffersToWrite = <<>>
    /\ file = <<>>
    /\ loop = "none"
    /\ starter = "new"
    /\ stopper = "idle"
    /\ appended = <<>>
    /\ dropped = {}
    /\ lost = {}

-----------------------------------------------------------------------------
(* append                                                                    *)

Record(l, b) ==
    /\ l \notin ToSet(appended)
    /\ appended' = Append(appended, l)
    /\ dropped' = IF Fits(b, l) THEN dropped ELSE dropped \cup {l}
    /\ UNCHANGED <<ownerVars, loopVars, file, loop, lost>>

(* cc:27-30                                                                  *)
AppendToCurrent(l) ==
    /\ avail(currentBuf) > LineLen[l]
    /\ currentBuf' = Put(currentBuf, l)
    /\ Record(l, currentBuf)
    /\ UNCHANGED <<nextBuf, buffers>>

(* cc:31-44                                                                  *)
AppendToNext(l) ==
    /\ avail(currentBuf) <= LineLen[l]
    /\ buffers' = HandOver(buffers, currentBuf)
    /\ LET b == IF nextBuf # NoBuffer THEN nextBuf ELSE Empty(maxBuffSize)
       IN  currentBuf' = Put(b, l) /\ Record(l, b)
    /\ nextBuf' = NoBuffer

-----------------------------------------------------------------------------
(* AsyncLoggerLoop                                                           *)

(* cc:49-56: the notification reaches start only if it is already waiting.   *)
(* The assert fails, and the process ends, if start was woken spuriously and *)
(* stop came before the thread.                                              *)
LoopOpen ==
    /\ loop = "open" /\ isRuning
    /\ newBuffer1' = Empty(maxBuffSize)
    /\ newBuffer2' = Empty(maxBuffSize)
    /\ loop' = "top"
    /\ starter' = IF starter = "wait" THEN "returned" ELSE starter
    /\ UNCHANGED <<isRuning, stopper, frontVars, buffersToWrite, file, appended,
                   dropped, lost>>

(* cc:57; the write at cc:114 has nothing to write, cc:112 cleared output.   *)
LoopTest ==
    /\ loop = "top"
    /\ loop' = IF isRuning THEN "locking" ELSE "exit"
    /\ UNCHANGED <<ownerVars, frontVars, loopVars, file, appended, dropped, lost>>

(* cc:64-66                                                                  *)
LoopWait ==
    /\ loop = "locking"
    /\ buffers = <<>>
    /\ loop' = "waiting"
    /\ UNCHANGED <<ownerVars, frontVars, loopVars, file, appended, dropped, lost>>

(* Mutant: waits until append has filled a buffer.                           *)
SwapReady_FullOnly == loop \in {"locking", "waiting"} /\ buffers # <<>>

(* The wait is over: a buffer is full, or the time-out has come.             *)
SwapReady == loop = "waiting" \/ (loop = "locking" /\ buffers # <<>>)

(* cc:69-75                                                                  *)
LoopSwap ==
    /\ SwapReady
    /\ buffersToWrite' = HandOver(buffers, currentBuf)
    /\ buffers' = <<>>
    /\ currentBuf' = newBuffer1
    /\ newBuffer1' = NoBuffer
    /\ IF nextBuf = NoBuffer
         THEN nextBuf' = newBuffer2 /\ newBuffer2' = NoBuffer
         ELSE UNCHANGED <<nextBuf, newBuffer2>>
    /\ loop' = "flush"
    /\ UNCHANGED <<ownerVars, file, appended, dropped, lost>>

(* cc:79-82                                                                  *)
Trimmed(bs) == IF Len(bs) > maxToWrite THEN SubSeq(bs, 1, 2) ELSE bs

(* cc:89-92: the buffers that are reused.                                    *)
Kept(bs) == IF Len(bs) > 2 THEN SubSeq(bs, 1, 2) ELSE bs

(* cc:79-113.  newBuffer1 is always null here, newBuffer2 only if nextBuf_   *)
(* had been taken.  The result of write is ignored.                          *)
LoopFlush ==
    /\ loop = "flush"
    /\ LET out == Trimmed(buffersToWrite)
           kept == Kept(out)
           text == Contents(out)
       IN  /\ newBuffer1' = Reset(Last(kept))
           /\ newBuffer2' = IF newBuffer2 = NoBuffer
                              THEN Reset(Last(Front(kept))) ELSE newBuffer2
           /\ \E n \in IF WriteMayFail THEN 0..Len(text) ELSE {Len(text)} :
                /\ file' = file \o SubSeq(text, 1, n)
                /\ lost' = lost \cup (ToSet(Contents(buffersToWrite))
                                        \ ToSet(SubSeq(text, 1, n)))
    /\ buffersToWrite' = <<>>
    /\ loop' = "top"
    /\ UNCHANGED <<ownerVars, frontVars, appended, dropped>>

-----------------------------------------------------------------------------
(* start and stop                                                            *)

(* cc:121-125                                                                *)
StartSpawn ==
    /\ starter = "new"
    /\ isRuning' = TRUE
    /\ loop' = "open"
    /\ starter' = "spawned"
    /\ UNCHANGED <<stopper, frontVars, loopVars, file, appended, dropped, lost>>

(* cc:126-127                                                                *)
StartWait ==
    /\ starter = "spawned"
    /\ starter' = "wait"
    /\ UNCHANGED <<isRuning, stopper, frontVars, loopVars, file, loop, appended,
                   dropped, lost>>

(* A spurious wakeup ends the wait, which has no predicate.                  *)
StartSpuriousWakeup ==
    /\ starter = "wait"
    /\ starter' = "returned"
    /\ UNCHANGED <<isRuning, stopper, frontVars, loopVars, file, loop, appended,
                   dropped, lost>>

(* cc:132-133: the notification can only shorten the wait at cc:66.          *)
StopSet ==
    /\ StopUsed
    /\ starter = "returned" /\ stopper = "idle"
    /\ isRuning' = FALSE
    /\ stopper' = "join"
    /\ UNCHANGED <<starter, frontVars, loopVars, file, loop, appended, dropped,
                   lost>>

(* cc:134                                                                    *)
StopJoin ==
    /\ stopper = "join"
    /\ loop = "exit"
    /\ stopper' = "returned"
    /\ UNCHANGED <<isRuning, starter, frontVars, loopVars, file, loop, appended,
                   dropped, lost>>

-----------------------------------------------------------------------------
LoopStep == LoopOpen \/ LoopTest \/ LoopWait \/ LoopSwap \/ LoopFlush

Next ==
    \/ \E l \in Line : AppendToCurrent(l) \/ AppendToNext(l)
    \/ LoopStep
    \/ StartSpawn \/ StartWait \/ StartSpuriousWakeup
    \/ StopSet \/ StopJoin

Spec == Init /\ [][Next]_vars

(* The threads run, and the timed wait of the loop ends.                     *)
FairSpec == Spec /\ WF_vars(LoopStep) /\ WF_vars(StartWait) /\ WF_vars(StopJoin)

-----------------------------------------------------------------------------
(* Properties                                                                *)

BufferOrNone == Buffer \cup {NoBuffer}

TypeOK ==
    /\ isRuning \in BOOLEAN
    /\ currentBuf \in Buffer
    /\ nextBuf \in BufferOrNone
    /\ buffers \in Seq(Buffer)
    /\ newBuffer1 \in BufferOrNone
    /\ newBuffer2 \in BufferOrNone
    /\ buffersToWrite \in Seq(Buffer)
    /\ loop \in {"none", "open", "top", "locking", "waiting", "flush", "exit"}
    /\ starter \in {"new", "spawned", "wait", "returned"}
    /\ stopper \in {"idle", "join", "returned"}

IsEmpty(b) == b # NoBuffer /\ b.used = 0 /\ b.lines = <<>>

(* The asserts at cc:59-61, 77, 96 and 104: the loop has two empty buffers   *)
(* in hand whenever it begins a round, and whatever appenders did meanwhile  *)
(* it gets as many back from the buffers it has written.                     *)
DoubleBufferAsserts ==
    /\ loop \in {"top", "locking", "waiting"} =>
         IsEmpty(newBuffer1) /\ IsEmpty(newBuffer2) /\ buffersToWrite = <<>>
    /\ loop = "flush" => /\ buffersToWrite # <<>>
                         /\ newBuffer2 = NoBuffer => Len(buffersToWrite) >= 2

(* maxLen_ - buf_.size() (Buffer.cc:33) is unsigned: it never wraps.         *)
Buffers == {currentBuf} \cup ToSet(buffers) \cup ToSet(buffersToWrite)
             \cup ({nextBuf, newBuffer1, newBuffer2} \ {NoBuffer})
AvailNeverWraps == \A b \in Buffers : b.used <= b.cap

(* A line is dropped only if it is longer than a whole buffer: the buffer    *)
(* that append turns to is always an empty one.                              *)
DroppedOnlyIfTooLong ==
    \A l \in dropped : \E c \in InitCaps \cup {maxBuffSize} : LineLen[l] > c

(* The elements of s that are not in D, in their order.                      *)
Without(s, D) ==
    FlattenSeq([i \in DOMAIN s |-> IF s[i] \in D THEN <<>> ELSE <<s[i]>>])

(* The lines in the buffers, those that are to be written first in front.    *)
Waiting == Contents(buffersToWrite) \o Contents(buffers) \o currentBuf.lines

(* All lines there are, those of the file first.                             *)
InOrder == file \o Waiting

(* Lines keep the order of append from append to the file, none is written   *)
(* twice, and a line that is in no buffer and not in the file is one the     *)
(* logger is known to have dropped.                                          *)
NothingLostNothingReordered ==
    InOrder = Without(appended, dropped \cup lost)

(* However appends fall between the steps of the loop, each step of the      *)
(* logger is one of a plain log (Log.tla): the file only grows, at its end,  *)
(* by a beginning of what waits; what is lost with it lay behind that, never *)
(* before or among it, so that cc:79-82 give up the newest lines and not      *)
(* those that have waited longest.                                           *)
Abstract == INSTANCE Log WITH
    recorded <- appended, waiting <- Waiting, missing <- dropped \cup lost
ImplementsLog == Abstract!Spec

(* While the logger runs, an appended line is written in the end (or it is   *)
(* one of the dropped ones), however long its buffer takes to fill.          *)
EveryLineWritten ==
    \A l \in Line : (isRuning /\ l \in ToSet(appended))
                      ~> (l \in ToSet(file) \cup dropped \cup lost \/ ~isRuning)
=============================================================================
