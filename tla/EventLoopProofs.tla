-------------------------- MODULE EventLoopProofs ---------------------------
(***************************************************************************)
(* Theorems about EventLoop.tla: no wakeup is lost, and a loop implements    *)
(* TaskPool, for any number of callers and connections.                      *)
(***************************************************************************)
EXTENDS EventLoop, FiniteSetTheorems, TLAPS

(* Popping the head of a sequence without repetitions removes it and nothing *)
(* else from the elements of the sequence.                                   *)
LEMMA PopHead ==
  ASSUME NEW S, NEW s \in Seq(S), s # <<>>,
         \A i, j \in 1..Len(s) : s[i] = s[j] => i = j
  PROVE  /\ Head(s) \in S /\ Tail(s) \in Seq(S)
         /\ {Tail(s)[i] : i \in 1..Len(Tail(s))} = {s[i] : i \in 1..Len(s)} \ {Head(s)}
         /\ Head(s) \in {s[i] : i \in 1..Len(s)}
         /\ \A i, j \in 1..Len(Tail(s)) : Tail(s)[i] = Tail(s)[j] => i = j
<1>1. /\ Head(s) = s[1] /\ Head(s) \in S /\ Tail(s) \in Seq(S)
      /\ Len(s) \in Nat /\ Len(s) >= 1 /\ Len(Tail(s)) = Len(s) - 1
      /\ \A i \in 1..Len(Tail(s)) : Tail(s)[i] = s[i + 1]
  OBVIOUS
<1>2. ASSUME NEW x \in {s[i] : i \in 1..Len(s)} \ {Head(s)}
      PROVE  x \in {Tail(s)[i] : i \in 1..Len(Tail(s))}
  <2>1. PICK i \in 1..Len(s) : x = s[i] /\ i # 1
    BY <1>1
  <2>2. i - 1 \in 1..Len(Tail(s)) /\ Tail(s)[i - 1] = s[i]
    BY <1>1, <2>1
  <2> QED BY <2>1, <2>2
<1>3. ASSUME NEW i \in 1..Len(Tail(s))
      PROVE  Tail(s)[i] \in {s[j] : j \in 1..Len(s)} \ {Head(s)}
  <2>1. i + 1 \in 1..Len(s) /\ i + 1 # 1 /\ 1 \in 1..Len(s) /\ Tail(s)[i] = s[i + 1]
    BY <1>1
  <2> QED BY <1>1, <2>1
<1>4. ASSUME NEW i \in 1..Len(Tail(s)), NEW j \in 1..Len(Tail(s)), Tail(s)[i] = Tail(s)[j]
      PROVE  i = j
  <2>1. i + 1 \in 1..Len(s) /\ j + 1 \in 1..Len(s) /\ s[i + 1] = s[j + 1]
    BY <1>1, <1>4
  <2> QED BY <2>1
<1>5. Head(s) \in {s[i] : i \in 1..Len(s)}
  BY <1>1
<1>6. {Tail(s)[i] : i \in 1..Len(Tail(s))} = {s[i] : i \in 1..Len(s)} \ {Head(s)}
  BY <1>2, <1>3
<1> QED BY <1>1, <1>4, <1>5, <1>6

(* Appending a new element adds it and nothing else.                         *)
LEMMA AppendNew ==
  ASSUME NEW S, NEW s \in Seq(S), NEW x \in S,
         \A i, j \in 1..Len(s) : s[i] = s[j] => i = j,
         x \notin {s[i] : i \in 1..Len(s)}
  PROVE  /\ Append(s, x) \in Seq(S)
         /\ {Append(s, x)[i] : i \in 1..Len(Append(s, x))} = {s[i] : i \in 1..Len(s)} \cup {x}
         /\ \A i, j \in 1..Len(Append(s, x)) : Append(s, x)[i] = Append(s, x)[j] => i = j
<1> DEFINE a == Append(s, x)
<1>1. /\ a \in Seq(S) /\ Len(s) \in Nat /\ Len(a) = Len(s) + 1
      /\ a[Len(s) + 1] = x /\ \A i \in 1..Len(s) : a[i] = s[i]
  OBVIOUS
<1>2. \A i \in 1..Len(a) : i \in 1..Len(s) \/ i = Len(s) + 1
  BY <1>1
<1>3. \A i \in 1..Len(s) : i \in 1..Len(a)
  BY <1>1
<1>4. {a[i] : i \in 1..Len(a)} = {s[i] : i \in 1..Len(s)} \cup {x}
  <2>1. Len(s) + 1 \in 1..Len(a)
    BY <1>1
  <2> HIDE DEF a
  <2> QED BY <1>1, <1>2, <1>3, <2>1
<1>5. \A i, j \in 1..Len(a) : a[i] = a[j] => i = j
  <2> HIDE DEF a
  <2> QED BY <1>1, <1>2
<1> QED BY <1>1, <1>4, <1>5

LEMMA InitIInv == Init => IInv
<1> SUFFICES ASSUME Init PROVE IInv
  OBVIOUS
<1> USE DEF Init
<1>1. TypeOK
  <2>1. taskqueue_ \in Seq(Task) /\ rchannels \in Seq(Channels)
    OBVIOUS
  <2>2. stop_ \in BOOLEAN
    OBVIOUS
  <2> QED BY <2>1, <2>2 DEF TypeOK, LoopStates
<1>2. LoopInv /\ NoLostWakeup /\ StopWakesTheLoop
  BY DEF LoopInv, NoLostWakeup, StopWakesTheLoop
<1>3. TasksAccountedFor
  BY DEF TasksAccountedFor, Queued, Running
<1> QED BY <1>1, <1>2, <1>3 DEF IInv

(* A push: the caller announces its task next.                               *)
LEMMA PushIInv ==
  ASSUME IInv, NEW t \in Task, Push(t)
  PROVE  IInv'
<1> USE DEF IInv, TypeOK, Push, loopFrame
<1>1. t \notin Queued \cup Running \cup ran
  BY DEF TasksAccountedFor
<1>2. /\ taskqueue_' \in Seq(Task)
      /\ Queued' = Queued \cup {t}
      /\ \A i, j \in 1..Len(taskqueue_') : taskqueue_'[i] = taskqueue_'[j] => i = j
  BY <1>1, AppendNew, taskqueue_' = Append(taskqueue_, t) DEF Queued, TasksAccountedFor
<1>3. Running' = Running
  BY DEF Running
<1>4. TypeOK'
  BY <1>2
<1>5. LoopInv' /\ StopWakesTheLoop'
  BY DEF LoopInv, StopWakesTheLoop
<1>6. NoLostWakeup'
  BY DEF NoLostWakeup, WakeupOnItsWay
<1>7. TasksAccountedFor'
  BY <1>1, <1>2, <1>3 DEF TasksAccountedFor
<1> QED BY <1>4, <1>5, <1>6, <1>7

LEMMA WakeupIInv ==
  ASSUME IInv, NEW t \in Task, Wakeup(t)
  PROVE  IInv'
<1> USE DEF IInv, TypeOK, Wakeup, loopFrame, Written
<1>1. TypeOK' /\ wakeupfd_' > 0
  OBVIOUS
<1>2. LoopInv' /\ StopWakesTheLoop' /\ NoLostWakeup'
  BY <1>1 DEF LoopInv, StopWakesTheLoop, NoLostWakeup
<1>3. TasksAccountedFor'
  BY DEF TasksAccountedFor, Queued, Running
<1> QED BY <1>1, <1>2, <1>3

(* stop(), and what happens outside the process.                             *)
LEMMA OthersIInv ==
  ASSUME IInv, StopSet \/ StopWakeup \/ (\E c \in Others : BecomeReady(c))
  PROVE  IInv'
<1> USE DEF IInv, TypeOK, loopFrame
<1>1. CASE StopSet
  <2>1. TypeOK'
    BY <1>1 DEF StopSet
  <2>2. LoopInv' /\ StopWakesTheLoop' /\ NoLostWakeup'
    BY <1>1 DEF StopSet, LoopInv, StopWakesTheLoop, NoLostWakeup, WakeupOnItsWay
  <2>3. TasksAccountedFor'
    BY <1>1 DEF StopSet, TasksAccountedFor, Queued, Running
  <2> QED BY <2>1, <2>2, <2>3
<1>2. CASE StopWakeup
  <2>1. TypeOK' /\ wakeupfd_' > 0
    BY <1>2 DEF StopWakeup, Written
  <2>2. LoopInv' /\ StopWakesTheLoop' /\ NoLostWakeup'
    BY <1>2, <2>1 DEF StopWakeup, LoopInv, StopWakesTheLoop, NoLostWakeup
  <2>3. TasksAccountedFor'
    BY <1>2 DEF StopWakeup, TasksAccountedFor, Queued, Running
  <2> QED BY <2>1, <2>2, <2>3
<1>3. ASSUME NEW c \in Others, BecomeReady(c) PROVE IInv'
  BY <1>3 DEF BecomeReady, LoopInv, StopWakesTheLoop, NoLostWakeup, WakeupOnItsWay,
     TasksAccountedFor, Queued, Running
<1> QED BY <1>1, <1>2, <1>3

(* The reported channels are a sequence of channels, and not an empty one.   *)
LEMMA ReportedOrder ==
  ASSUME TypeOK, EpollWait
  PROVE  rchannels' \in Seq(Channels)
<1>1. Reported \subseteq Channels /\ Channels = (Conn \cup {Timer}) \cup {Wake}
  BY DEF TypeOK, Reported, Channels, Others
<1>2. IsFiniteSet(Channels)
  BY <1>1, EventLoopAssumption, FS_AddElement
<1>3. Cardinality(Reported) \in Nat
  BY <1>1, <1>2, FS_Subset, FS_CardinalityType
<1>4. rchannels' \in [1..Cardinality(Reported) -> Reported]
  BY DEF EpollWait, Orders
<1> QED BY <1>1, <1>3, <1>4

(* The steps of the loop thread outside handlewakeup.                        *)
LEMMA RunIInv ==
  ASSUME IInv, RunStart \/ LoopTest \/ EpollWait \/ DispatchEnd \/ HandleOther
  PROVE  IInv'
<1> USE DEF IInv
<1>1. /\ UNCHANGED <<stop_, taskqueue_, mutex_, wakeupfd_, fn, call, stopper, ran>>
      /\ ready' \subseteq Others
      /\ loop' \in LoopStates
      /\ loop \notin {"lock", "drain"} /\ loop' \notin {"lock", "drain"}
      /\ loop' = "wait" => ~stop_
  BY DEF TypeOK, LoopStates, RunStart, LoopTest, EpollWait, DispatchEnd, HandleOther
<1>2. rchannels' \in Seq(Channels)
  <2>1. CASE EpollWait
    BY <2>1, ReportedOrder
  <2>2. CASE HandleOther
    BY <2>2 DEF HandleOther, TypeOK
  <2>3. CASE ~EpollWait /\ ~HandleOther
    BY <2>3 DEF RunStart, LoopTest, DispatchEnd, TypeOK
  <2> QED BY <2>1, <2>2, <2>3
<1>3. TypeOK'
  BY <1>1, <1>2 DEF TypeOK
<1>4. LoopInv' /\ StopWakesTheLoop' /\ NoLostWakeup'
  BY <1>1 DEF LoopInv, StopWakesTheLoop, NoLostWakeup, WakeupOnItsWay
<1>5. TasksAccountedFor'
  BY <1>1 DEF TasksAccountedFor, Queued, Running
<1> QED BY <1>3, <1>4, <1>5

(* handlewakeup.                                                             *)
LEMMA HandleWakeupIInv ==
  ASSUME IInv, ReadWakeup \/ LockQueue \/ PopTask \/ TaskReturns \/ Drained
  PROVE  IInv'
<1> USE DEF IInv, TypeOK
<1>1. CASE ReadWakeup
  BY <1>1 DEF ReadWakeup, LoopStates, LoopInv, StopWakesTheLoop, NoLostWakeup,
     TasksAccountedFor, Queued, Running
<1>2. CASE LockQueue
  BY <1>2 DEF LockQueue, LoopStates, LoopInv, StopWakesTheLoop, NoLostWakeup,
     TasksAccountedFor, Queued, Running
<1>3. CASE PopTask
  <2>1. /\ Head(taskqueue_) \in Task /\ taskqueue_' \in Seq(Task)
        /\ Queued' = Queued \ {Head(taskqueue_)} /\ Head(taskqueue_) \in Queued
        /\ \A i, j \in 1..Len(taskqueue_') : taskqueue_'[i] = taskqueue_'[j] => i = j
    <3>1. taskqueue_ # <<>> /\ taskqueue_' = Tail(taskqueue_)
      BY <1>3 DEF PopTask
    <3>2. \A i, j \in 1..Len(taskqueue_) : taskqueue_[i] = taskqueue_[j] => i = j
      BY DEF TasksAccountedFor
    <3>3. Queued' = {Tail(taskqueue_)[i] : i \in 1..Len(Tail(taskqueue_))}
      BY <3>1 DEF Queued
    <3>4. taskqueue_ \in Seq(Task)
      OBVIOUS
    <3> DEFINE tail == Tail(taskqueue_)
    <3>5. /\ Head(taskqueue_) \in Task /\ tail \in Seq(Task)
          /\ {tail[i] : i \in 1..Len(tail)}
               = {taskqueue_[i] : i \in 1..Len(taskqueue_)} \ {Head(taskqueue_)}
          /\ Head(taskqueue_) \in {taskqueue_[i] : i \in 1..Len(taskqueue_)}
          /\ \A i, j \in 1..Len(tail) : tail[i] = tail[j] => i = j
      <4> HIDE DEF IInv, TypeOK
      <4> QED BY ONLY <3>1, <3>2, <3>4, PopHead, Zenon
    <3> QED BY <3>1, <3>3, <3>5 DEF Queued
  <2>2. Running = {} /\ Running' = {Head(taskqueue_)}
    BY <1>3, <2>1, EventLoopAssumption DEF PopTask, Running
  <2>3. TypeOK'
    BY <1>3, <2>1 DEF PopTask
  <2>4. LoopInv' /\ StopWakesTheLoop' /\ NoLostWakeup'
    BY <1>3 DEF PopTask, LoopInv, StopWakesTheLoop, NoLostWakeup
  <2>5. TasksAccountedFor'
    BY <1>3, <2>1, <2>2 DEF PopTask, TasksAccountedFor
  <2> QED BY <2>3, <2>4, <2>5
<1>4. CASE TaskReturns
  <2>1. Queued' = Queued /\ Running = {fn} /\ Running' = {} /\ fn \in Task
    BY <1>4 DEF TaskReturns, Queued, Running
  <2>2. TypeOK'
    BY <1>4, <2>1 DEF TaskReturns
  <2>3. LoopInv' /\ StopWakesTheLoop' /\ NoLostWakeup'
    BY <1>4 DEF TaskReturns, LoopInv, StopWakesTheLoop, NoLostWakeup, WakeupOnItsWay
  <2>4. TasksAccountedFor'
    BY <1>4, <2>1 DEF TaskReturns, TasksAccountedFor
  <2> QED BY <2>2, <2>3, <2>4
<1>5. CASE Drained
  BY <1>5 DEF Drained, LoopStates, LoopInv, StopWakesTheLoop, NoLostWakeup,
     TasksAccountedFor, Queued, Running
<1> QED BY <1>1, <1>2, <1>3, <1>4, <1>5

(* The invariant holds in every reachable state.                             *)
THEOREM IInvHolds == Spec => []IInv
<1>1. IInv /\ [Next]_vars => IInv'
  <2> SUFFICES ASSUME IInv, [Next]_vars PROVE IInv'
    OBVIOUS
  <2>1. CASE \E t \in Task : Push(t) \/ Wakeup(t)
    BY <2>1, PushIInv, WakeupIInv
  <2>2. CASE StopSet \/ StopWakeup \/ \E c \in Others : BecomeReady(c)
    BY <2>2, OthersIInv
  <2>3. CASE LoopStep
    BY <2>3, RunIInv, HandleWakeupIInv DEF LoopStep
  <2>4. CASE UNCHANGED vars
    BY <2>4 DEF vars, IInv, TypeOK, LoopInv, NoLostWakeup, WakeupOnItsWay,
       StopWakesTheLoop, TasksAccountedFor, Queued, Running
  <2> QED BY <2>1, <2>2, <2>3, <2>4 DEF Next
<1> QED BY <1>1, InitIInv, PTL DEF Spec

(* No wakeup is lost: while a task is queued, the eventfd is readable or     *)
(* about to be, or the loop thread is about to drain the queue.              *)
THEOREM NoWakeupLost == Spec => []NoLostWakeup
BY IInvHolds, PTL DEF IInv

(* A loop that is stopped while it is in epoll_wait is woken.                *)
THEOREM StopSeen == Spec => []StopWakesTheLoop
BY IInvHolds, PTL DEF IInv

(* No task handed to queueinloop is lost or executed twice.                  *)
THEOREM NoTaskLost == Spec => []TasksAccountedFor
BY IInvHolds, PTL DEF IInv

LEMMA SameCardinality == \A S : Abstract!Cardinality(S) = Cardinality(S)
BY DEF Abstract!Cardinality, Cardinality

(* Every step is a step of TaskPool or changes nothing it speaks of.         *)
LEMMA StepSimulation ==
  ASSUME IInv, [Next]_vars
  PROVE  [Abstract!Next]_(Abstract!vars)
<1> USE DEF IInv, TypeOK
<1>0. UNCHANGED <<taskqueue_, fn, ran>> => [Abstract!Next]_(Abstract!vars)
  BY DEF Abstract!vars, Running
<1>1. ASSUME NEW t \in Task, Push(t) PROVE [Abstract!Next]_(Abstract!vars)
  <2>1. t \notin Abstract!Queued \cup Running \cup ran
    BY <1>1 DEF Push, TasksAccountedFor, Abstract!Queued, Queued
  <2>2. Abstract!Submit(t)
    BY <1>1, <2>1 DEF Push, loopFrame, Abstract!Submit, Running
  <2> QED BY <2>2 DEF Abstract!Next
<1>2. CASE PopTask
  <2>1. Head(taskqueue_) \in Task
    BY <1>2 DEF PopTask
  <2>2. Running = {} /\ Running' = Running \cup {Head(taskqueue_)}
    BY <1>2, <2>1, EventLoopAssumption DEF PopTask, Running
  <2>3. Abstract!Cardinality(Running) < 1
    BY <2>2, SameCardinality, FS_EmptySet
  <2>4. Abstract!Start
    BY <1>2, <2>2, <2>3 DEF PopTask, Abstract!Start
  <2> QED BY <2>4 DEF Abstract!Next
<1>3. CASE TaskReturns
  <2>1. fn \in Task /\ Running = {fn} /\ Running' = {}
    BY <1>3 DEF TaskReturns, Running
  <2>2. Abstract!Finish(fn)
    BY <1>3, <2>1 DEF TaskReturns, Abstract!Finish
  <2> QED BY <2>1, <2>2 DEF Abstract!Next
<1>4. CASE StopSet \/ StopWakeup \/ (\E t \in Task : Wakeup(t))
           \/ \E c \in Others : BecomeReady(c)
  BY <1>0, <1>4 DEF StopSet, StopWakeup, Wakeup, BecomeReady, loopFrame
<1>5. CASE LoopStep /\ ~PopTask /\ ~TaskReturns
  BY <1>0, <1>5 DEF LoopStep, RunStart, LoopTest, EpollWait, DispatchEnd, HandleOther,
     ReadWakeup, LockQueue, Drained
<1>6. CASE UNCHANGED vars
  BY <1>0, <1>6 DEF vars
<1> QED BY <1>1, <1>2, <1>3, <1>4, <1>5, <1>6 DEF Next

(* A loop implements TaskPool with room for one: what queueinloop is given   *)
(* runs one at a time, in the order of the calls, each at most once.         *)
THEOREM LoopImplementsTaskPool == Spec => ImplementsTaskPool
<1>1. Init => Abstract!Init
  BY DEF Init, Abstract!Init, Running
<1>2. IInv /\ [Next]_vars => [Abstract!Next]_(Abstract!vars)
  BY StepSimulation
<1> QED BY <1>1, <1>2, IInvHolds, PTL DEF Spec, ImplementsTaskPool, Abstract!Spec
=============================================================================
