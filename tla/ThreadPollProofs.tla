-------------------------- MODULE ThreadPollProofs --------------------------
(***************************************************************************)
(* Theorems about ThreadPoll.tla, for any number of threads and tasks and    *)
(* any use of Stop.  IInv (in ThreadPoll.tla) is inductive: one lemma per    *)
(* group of actions, in each of them one step per group of its conjuncts.    *)
(***************************************************************************)
EXTENDS ThreadPoll, FiniteSetTheorems, TLAPS

(* The bounds the constructor computes (cc:12-18).                           *)
LEMMA MaxOK == maxThreadnum \in Nat /\ minThreadnum <= maxThreadnum /\ minThreadnum \in Nat
BY ThreadPollAssumption DEF maxThreadnum

(* The sets the counters count are finite.                                  *)
LEMMA CountedFinite == IsFiniteSet(Counted) /\ IsFiniteSet(Idle)
<1>1. Counted \subseteq Thread /\ Idle \subseteq Thread
  BY DEF Counted, Idle
<1> QED BY <1>1, ThreadPollAssumption, FS_Subset

(* The constructor establishes the invariant.                                *)
LEMMA InitIInv == Init => IInv
<1> SUFFICES ASSUME Init PROVE IInv
  OBVIOUS
<1> USE ThreadPollAssumption, MaxOK DEF Init
<1>1. TypeOK
  <2>1. threads \in SUBSET Thread /\ state \in [Thread -> WorkerState]
    BY DEF WorkerState
  <2>2. /\ taskqueue \in Seq(Task) /\ deadThreadQueue \in Seq(Thread)
        /\ job \in [Thread -> Task \cup {NoTask}]
        /\ call \in [Task -> {"new", "grow", "notify", "returned"}]
    OBVIOUS
  <2>3. stop_ \in BOOLEAN /\ lastDrain \in BOOLEAN
    OBVIOUS
  <2>4. clear \in ClearState /\ stopper \in StopState
    BY DEF ClearState, StopState
  <2> QED BY <2>1, <2>2, <2>3, <2>4 DEF TypeOK
<1>2. MutexInv /\ FreshInv /\ RetireInv /\ DeadInv /\ ReaperAsserts /\ NoOverwrite
  BY DEF MutexInv, FreshInv, RetireInv, DeadInv, ReaperAsserts, NoOverwrite, StopJoining
<1>3. RegisteredInv
  BY DEF RegisteredInv, StopJoining
<1>4. CountersExact
  <2>1. Counted = threads /\ Idle = threads
    BY DEF Counted, Idle
  <2> QED BY <2>1 DEF CountersExact
<1>5. PoolBounds /\ NoStarvedTask
  BY DEF PoolBounds, NoStarvedTask
<1>6. TaskInv
  BY DEF TaskInv, Running
<1> QED BY <1>1, <1>2, <1>3, <1>4, <1>5, <1>6 DEF IInv

(* addtask, no thread created (cc:34-46).                                    *)
LEMMA AddTaskIInv == ASSUME IInv, NEW k \in Task, AddTask(k) PROVE IInv'
<1> USE ThreadPollAssumption, MaxOK DEF IInv, AddTask, NeedsThread, MutexFree, workerVars,
     poolVars, callVars, clearVars, stopVars, reaperFrame, counters, regVars
<1>1. Counted' = Counted /\ Idle' = Idle
  BY DEF Idle, Counted, TypeOK, FreshInv, MutexInv, DeadInv
<1>3. CountersExact'
  BY <1>1 DEF CountersExact
<1>4. TypeOK'
  BY <1>3 DEF TypeOK, WorkerState, ClearState, StopState
<1>5. MutexInv' /\ FreshInv' /\ RetireInv'
  BY DEF TypeOK, MutexInv, FreshInv, RetireInv
<1>6. DeadInv' /\ ReaperAsserts' /\ NoOverwrite'
  BY DEF TypeOK, DeadInv, RegisteredInv, FreshInv, MutexInv, StopJoining, ReaperAsserts,
         NoOverwrite,
         ThreadMutexFree, Ended
<1>7. RegisteredInv'
  BY DEF TypeOK, RegisteredInv, DeadInv, FreshInv, ReaperAsserts, StopJoining
<1>8. PoolBounds' /\ NoStarvedTask'
  BY <1>3 DEF PoolBounds, NoStarvedTask, TypeOK, RetireInv, FreshInv, MutexInv
<1>9. TaskInv'
  BY DEF TypeOK, TaskInv, Running
<1> QED BY <1>3, <1>4, <1>5, <1>6, <1>7, <1>8, <1>9

(* addtask creates a thread (cc:37).                                         *)
LEMMA GrowCreateIInv == ASSUME IInv, NEW k \in Task, GrowCreate(k) PROVE IInv'
<1> USE ThreadPollAssumption, MaxOK DEF IInv, GrowCreate, NeedsThread, MutexFree,
     workerVars, poolVars, callVars, clearVars, stopVars, reaperFrame, counters, regVars
<1>1. Counted' = Counted /\ Idle' = Idle
  BY DEF Idle, Counted, TypeOK, FreshInv, MutexInv, DeadInv
<1>3. CountersExact'
  BY <1>1 DEF CountersExact
<1>4. TypeOK'
  BY <1>3 DEF TypeOK, WorkerState, ClearState, StopState
<1>5. MutexInv' /\ FreshInv' /\ RetireInv'
  BY DEF TypeOK, MutexInv, FreshInv, RetireInv
<1>6. DeadInv' /\ ReaperAsserts' /\ NoOverwrite'
  BY DEF TypeOK, DeadInv, RegisteredInv, FreshInv, MutexInv, StopJoining, ReaperAsserts,
         NoOverwrite,
         ThreadMutexFree, Ended
<1>7. RegisteredInv'
  BY DEF TypeOK, RegisteredInv, DeadInv, FreshInv, ReaperAsserts, StopJoining
<1>8. PoolBounds' /\ NoStarvedTask'
  BY <1>3 DEF PoolBounds, NoStarvedTask, TypeOK, RetireInv, FreshInv, MutexInv
<1>9. TaskInv'
  BY DEF TypeOK, TaskInv, Running
<1> QED BY <1>3, <1>4, <1>5, <1>6, <1>7, <1>8, <1>9

(* addtask registers the thread it created (cc:38-47).                       *)
LEMMA GrowRegisterIInv == ASSUME IInv, NEW k \in Task, GrowRegister(k) PROVE IInv'
<1> USE ThreadPollAssumption, MaxOK DEF IInv, GrowRegister,
       MutexFree, workerVars, poolVars, callVars, clearVars, stopVars, reaperFrame
<1>1. fresh \in Thread /\ fresh \notin Idle /\ fresh \notin Counted
  BY DEF Idle, Counted, TypeOK, FreshInv, MutexInv
<1>2. Counted' = Counted \cup {fresh} /\ Idle' = Idle \cup {fresh}
  BY <1>1 DEF Idle, Counted, TypeOK, FreshInv, MutexInv
<1>3. CountersExact'
  BY <1>1, <1>2, CountedFinite, FS_AddElement DEF CountersExact
<1>4. TypeOK'
  BY <1>1, <1>3 DEF TypeOK, WorkerState, ClearState, StopState
<1>5. MutexInv' /\ FreshInv' /\ RetireInv'
  BY DEF TypeOK, MutexInv, FreshInv, RetireInv
<1>6. DeadInv' /\ ReaperAsserts' /\ NoOverwrite'
  BY DEF TypeOK, DeadInv, RegisteredInv, FreshInv, MutexInv, StopJoining, ReaperAsserts,
         NoOverwrite,
         ThreadMutexFree, Ended
<1>7. RegisteredInv'
  BY <1>1 DEF TypeOK, RegisteredInv, FreshInv, MutexInv, StopJoining, ThreadMutexFree
<1>8. PoolBounds' /\ NoStarvedTask'
  BY <1>3 DEF PoolBounds, NoStarvedTask, TypeOK, RetireInv, FreshInv, MutexInv
<1>9. TaskInv'
  BY DEF TypeOK, TaskInv, Running
<1> QED BY <1>3, <1>4, <1>5, <1>6, <1>7, <1>8, <1>9

(* notify_one (cc:48).                                                       *)
LEMMA NotifyOneIInv == ASSUME IInv, NEW k \in Task, NotifyOne(k) PROVE IInv'
<1> USE ThreadPollAssumption, MaxOK DEF IInv, NotifyOne, Waiters, MutexFree, workerVars,
     poolVars, callVars, clearVars, stopVars, reaperFrame, Notify, regVars
<1>1. Counted' = Counted /\ Idle' = Idle
  BY DEF Idle, Counted, TypeOK, FreshInv, MutexInv, DeadInv
<1>3. CountersExact'
  BY <1>1 DEF CountersExact
<1>4. TypeOK'
  BY <1>3 DEF TypeOK, WorkerState, ClearState, StopState
<1>5. MutexInv' /\ FreshInv' /\ RetireInv'
  BY DEF TypeOK, MutexInv, FreshInv, RetireInv
<1>6. DeadInv' /\ ReaperAsserts' /\ NoOverwrite'
  BY DEF TypeOK, DeadInv, RegisteredInv, FreshInv, MutexInv, StopJoining, ReaperAsserts,
         NoOverwrite,
         ThreadMutexFree, Ended
<1>7. RegisteredInv'
  BY DEF TypeOK, RegisteredInv, DeadInv, FreshInv, ReaperAsserts, StopJoining
<1>8. PoolBounds' /\ NoStarvedTask'
  BY <1>3 DEF PoolBounds, NoStarvedTask, TypeOK, RetireInv, FreshInv, MutexInv
<1>9. TaskInv'
  BY DEF TypeOK, TaskInv, Running
<1> QED BY <1>3, <1>4, <1>5, <1>6, <1>7, <1>8, <1>9

(* Steps of a worker that change neither counter.                            *)
LEMMA WorkerControlIInv ==
  ASSUME IInv, NEW t \in Thread, LoopTest(t) \/ ReturnStopped(t) \/ FindEmpty(t) \/ Block(t)
         \/ Timeout(t) \/ SpuriousWakeup(t) \/ BeginRetire(t)
  PROVE  IInv'
<1> USE ThreadPollAssumption, MaxOK DEF IInv, LoopTest, ReturnStopped, FindEmpty, Block,
     Timeout, SpuriousWakeup, BeginRetire, AtPredicate, MutexFree, workerVars, poolVars,
     callVars, clearVars, stopVars, reaperFrame, Move, workerFrame, regVars, MoveLock,
     FindsNothing, counters, FindsNothingLate
<1>1. Counted' = Counted /\ Idle' = Idle
  BY DEF Idle, Counted, TypeOK, FreshInv, MutexInv, DeadInv
<1>3. CountersExact'
  BY <1>1 DEF CountersExact
<1>4. TypeOK'
  BY <1>3 DEF TypeOK, WorkerState, ClearState, StopState
<1>5. MutexInv' /\ FreshInv' /\ RetireInv'
  BY DEF TypeOK, MutexInv, FreshInv, RetireInv
<1>6. DeadInv' /\ ReaperAsserts' /\ NoOverwrite'
  BY DEF TypeOK, DeadInv, RegisteredInv, FreshInv, MutexInv, StopJoining, ReaperAsserts,
         NoOverwrite,
         ThreadMutexFree, Ended
<1>7. RegisteredInv'
  BY DEF TypeOK, RegisteredInv, DeadInv, FreshInv, ReaperAsserts, StopJoining
<1>8. PoolBounds' /\ NoStarvedTask'
  BY <1>3 DEF PoolBounds, NoStarvedTask, TypeOK, RetireInv, FreshInv, MutexInv
<1>9. TaskInv'
  BY DEF TypeOK, TaskInv, Running
<1> QED BY <1>3, <1>4, <1>5, <1>6, <1>7, <1>8, <1>9

(* A worker leaves the idle ones (cc:79-83).                                 *)
LEMMA BeginTaskIInv == ASSUME IInv, NEW t \in Thread, TakeTask(t) \/ IdleRound(t) PROVE IInv'
<1> USE ThreadPollAssumption, MaxOK DEF IInv, TakeTask, IdleRound, AtPredicate, FrontTask,
     MutexFree, workerVars, poolVars, callVars, clearVars, stopVars, reaperFrame, regVars,
     FindsNothing, FindsNothingLate, workerFrame
<1>1. t \in Idle
  BY DEF Idle, Counted, TypeOK, FreshInv, MutexInv
<1>2. Counted' = Counted /\ Idle' = Idle \ {t}
  BY <1>1 DEF Idle, Counted, TypeOK
<1>3. idleThreadnum \in Nat \ {0} /\ CountersExact'
  BY <1>1, <1>2, CountedFinite, FS_RemoveElement, FS_CardinalityType, FS_EmptySet
     DEF CountersExact, TypeOK
<1>4. TypeOK'
  <2>1. CASE TakeTask(t)
    <3>1. Head(taskqueue) \in Task /\ Tail(taskqueue) \in Seq(Task)
      BY <2>1 DEF TypeOK
    <3> QED BY <1>3, <2>1, <3>1 DEF TypeOK, WorkerState
  <2>2. CASE IdleRound(t)
    BY <1>3, <2>2 DEF TypeOK, WorkerState
  <2> QED BY <2>1, <2>2
<1>5. MutexInv' /\ FreshInv' /\ RetireInv'
  BY DEF TypeOK, MutexInv, FreshInv, RetireInv
<1>6. DeadInv' /\ ReaperAsserts' /\ NoOverwrite'
  BY DEF TypeOK, DeadInv, RegisteredInv, FreshInv, MutexInv, StopJoining, ReaperAsserts,
         NoOverwrite,
         ThreadMutexFree, Ended
<1>7. RegisteredInv'
  BY DEF TypeOK, RegisteredInv, DeadInv, FreshInv, ReaperAsserts, StopJoining
<1>8. PoolBounds' /\ NoStarvedTask'
  BY <1>3 DEF PoolBounds, NoStarvedTask, TypeOK, RetireInv, FreshInv, MutexInv
<1>9. TaskInv'
  <2> USE DEF TaskInv, Running
  <2>1. CASE TakeTask(t)
    <3>1. /\ Head(taskqueue) = taskqueue[1] /\ 1 \in 1..Len(taskqueue)
          /\ \A i \in 1..Len(taskqueue') :
                i + 1 \in 1..Len(taskqueue) /\ taskqueue'[i] = taskqueue[i + 1]
      BY <2>1 DEF TypeOK
    <3>2. taskqueue[1] \in Task /\ taskqueue[1] \notin Running \cup ran
      BY <3>1 DEF TypeOK
    <3>3. Running' = Running \cup {taskqueue[1]}
      BY <2>1, <3>1, <3>2 DEF TypeOK
    <3>4. \A u \in Thread : job'[u] = IF u = t THEN taskqueue[1] ELSE job[u]
      BY <2>1, <3>1 DEF TypeOK
    <3> HIDE DEF Running
    <3>5. \A u \in Thread : job[u] # NoTask => job[u] \in Running
      BY DEF Running
    <3>6. \A i \in 1..Len(taskqueue') : taskqueue'[i] \notin Running' \cup ran'
      BY <2>1, <3>1, <3>3
    <3>7. \A k \in Task : call'[k] \in {"new", "grow"} =>
            k \notin Running' \cup ran' /\ \A i \in 1..Len(taskqueue') : taskqueue'[i] # k
      BY <2>1, <3>1, <3>3
    <3>8. \A u, v \in Thread : job'[u] = job'[v] /\ job'[u] # NoTask => u = v
      BY <3>2, <3>4, <3>5
    <3>9. /\ \A u \in Thread : state'[u] # "exec" => job'[u] = NoTask
          /\ \A u \in Thread : job'[u] \notin ran'
          /\ \A i, j \in 1..Len(taskqueue') : i # j => taskqueue'[i] # taskqueue'[j]
      BY <2>1, <3>1, <3>2, <3>4 DEF TypeOK
    <3> QED BY <3>6, <3>7, <3>8, <3>9
  <2>2. CASE IdleRound(t)
    BY <2>2 DEF TypeOK
  <2> QED BY <2>1, <2>2
<1> QED BY <1>3, <1>4, <1>5, <1>6, <1>7, <1>8, <1>9

(* A worker rejoins the idle ones (cc:85).                                   *)
LEMMA FinishTaskIInv == ASSUME IInv, NEW t \in Thread, FinishTask(t) PROVE IInv'
<1> USE ThreadPollAssumption, MaxOK DEF IInv, FinishTask, MutexFree, workerVars, poolVars,
     callVars, clearVars, stopVars, reaperFrame, IdleAgain, regVars
<1>1. t \notin Idle
  BY DEF Idle
<1>2. Counted' = Counted /\ Idle' = Idle \cup {t}
  BY DEF Idle, Counted, TypeOK, FreshInv
<1>3. CountersExact'
  BY <1>1, <1>2, CountedFinite, FS_AddElement DEF CountersExact
<1>4. TypeOK'
  BY <1>3 DEF TypeOK, WorkerState, ClearState, StopState
<1>5. MutexInv' /\ FreshInv' /\ RetireInv'
  BY DEF TypeOK, MutexInv, FreshInv, RetireInv
<1>6. DeadInv' /\ ReaperAsserts' /\ NoOverwrite'
  BY DEF TypeOK, DeadInv, RegisteredInv, FreshInv, MutexInv, StopJoining, ReaperAsserts,
         NoOverwrite,
         ThreadMutexFree, Ended
<1>7. RegisteredInv'
  BY DEF TypeOK, RegisteredInv, DeadInv, FreshInv, ReaperAsserts, StopJoining
<1>8. PoolBounds' /\ NoStarvedTask'
  BY <1>3 DEF PoolBounds, NoStarvedTask, TypeOK, RetireInv, FreshInv, MutexInv
<1>9. TaskInv'
  BY DEF TypeOK, TaskInv, Running
<1> QED BY <1>3, <1>4, <1>5, <1>6, <1>7, <1>8, <1>9

(* A worker retires (cc:70-75).                                              *)
LEMMA RetireIInv == ASSUME IInv, NEW t \in Thread, Retire(t) PROVE IInv'
<1> USE ThreadPollAssumption, MaxOK DEF IInv, Retire, DeadMutexFree, WokenClear,
       MutexFree, workerVars, poolVars, callVars, clearVars, stopVars, reaperFrame
<1>1. t \in Idle /\ t \in Counted
  BY DEF Idle, Counted, TypeOK, FreshInv, MutexInv
<1>2. Counted' = Counted \ {t} /\ Idle' = Idle \ {t}
  BY <1>1 DEF Idle, Counted, TypeOK
<1>3. idleThreadnum \in Nat \ {0} /\ currentThreadnum \in Nat \ {0} /\ CountersExact'
  BY <1>1, <1>2, CountedFinite, FS_RemoveElement, FS_CardinalityType, FS_EmptySet
     DEF CountersExact, TypeOK
<1>4. TypeOK'
  BY <1>3 DEF TypeOK, WorkerState, ClearState, StopState
<1>5. MutexInv' /\ FreshInv' /\ RetireInv'
  BY DEF TypeOK, MutexInv, FreshInv, RetireInv
<1>6. DeadInv' /\ ReaperAsserts' /\ NoOverwrite'
  <2>1. \A i \in 1..Len(deadThreadQueue') :
          deadThreadQueue'[i] = t \/ (i \in 1..Len(deadThreadQueue) /\ deadThreadQueue'[i] =
                 deadThreadQueue[i])
    BY DEF TypeOK
  <2>2. clear # "exit" => \A i \in 1..Len(deadThreadQueue) : deadThreadQueue[i] # t
    BY DEF DeadInv, TypeOK
  <2>3. DeadInv'
    BY <2>1 DEF DeadInv, TypeOK, StopJoining
  <2>4. ReaperAsserts'
    <3>1. \A i \in 1..Len(deadThreadQueue') :
            i \in 1..Len(deadThreadQueue) \/ (i = Len(deadThreadQueue) + 1 /\
                   deadThreadQueue'[i] = t)
      BY DEF TypeOK
    <3> QED BY <2>1, <2>2, <3>1 DEF ReaperAsserts, TypeOK
  <2>5. NoOverwrite'
    BY DEF NoOverwrite, StopJoining, ThreadMutexFree
  <2> QED BY <2>3, <2>4, <2>5
<1>7. RegisteredInv'
  BY DEF TypeOK, RegisteredInv, DeadInv, FreshInv, ReaperAsserts, StopJoining
<1>8. PoolBounds' /\ NoStarvedTask'
  BY <1>3 DEF PoolBounds, NoStarvedTask, TypeOK, RetireInv, FreshInv, MutexInv
<1>9. TaskInv'
  BY DEF TypeOK, TaskInv, Running
<1> QED BY <1>3, <1>4, <1>5, <1>6, <1>7, <1>8, <1>9

(* The reaper (cc:89-126).                                                   *)
LEMMA ReapIInv ==
  ASSUME IInv, ClearLoopTest \/ ClearTestPredicate \/ ClearBlock \/ ClearSpuriousWakeup \/
         ClearPop \/ ClearJoin \/ ClearErase \/ ClearDrained \/ ClearFinal
  PROVE  IInv'
<1> USE ThreadPollAssumption, MaxOK DEF IInv, ClearLoopTest, ClearTestPredicate,
     ClearBlock, ClearSpuriousWakeup, ClearPop, ClearJoin, ClearErase, ClearDrained,
     ClearFinal, Ended, MutexFree, workerVars, poolVars, callVars, clearVars, stopVars,
     reaperFrame, ClearMove, regVars, RestOfDead
<1>1. Counted' = Counted /\ Idle' = Idle
  BY DEF Idle, Counted, TypeOK, FreshInv, MutexInv, DeadInv
<1>3. CountersExact'
  BY <1>1 DEF CountersExact
<1>4. TypeOK'
  <2>1. CASE ClearPop
    <3>1. Head(deadThreadQueue) \in Thread /\ Tail(deadThreadQueue) \in Seq(Thread)
      BY <2>1 DEF TypeOK
    <3> QED BY <2>1, <3>1 DEF TypeOK, ClearState
  <2>2. CASE ~ClearPop
    BY <2>2 DEF TypeOK, WorkerState, ClearState
  <2> QED BY <2>1, <2>2
<1>5. MutexInv' /\ FreshInv' /\ RetireInv'
  <2>1. CASE ClearJoin
    BY <2>1 DEF TypeOK, MutexInv, FreshInv, RetireInv, DeadInv
  <2>2. CASE ~ClearJoin
    BY <2>2 DEF TypeOK, MutexInv, FreshInv, RetireInv
  <2> QED BY <2>1, <2>2
<1>6. DeadInv' /\ ReaperAsserts' /\ NoOverwrite'
  <2> USE DEF DeadInv, ReaperAsserts, NoOverwrite, StopJoining, ThreadMutexFree
  <2>1. CASE ClearPop
    <3>1. /\ Head(deadThreadQueue) = deadThreadQueue[1]
          /\ 1 \in 1..Len(deadThreadQueue)
          /\ \A i \in 1..Len(deadThreadQueue') :
                i + 1 \in 1..Len(deadThreadQueue) /\ deadThreadQueue'[i] = deadThreadQueue[i
                       + 1]
      BY <2>1 DEF TypeOK
    <3> QED BY <2>1, <3>1 DEF TypeOK, RegisteredInv, FreshInv
  <2>2. CASE ClearJoin
    BY <2>2 DEF TypeOK, RegisteredInv, FreshInv
  <2>3. CASE ClearErase
    BY <2>3 DEF TypeOK, RegisteredInv
  <2>4. CASE ~ClearPop /\ ~ClearJoin /\ ~ClearErase
    BY <2>4 DEF TypeOK
  <2> QED BY <2>1, <2>2, <2>3, <2>4
<1>7. RegisteredInv'
  BY DEF TypeOK, RegisteredInv, DeadInv, FreshInv, ReaperAsserts, StopJoining
<1>8. PoolBounds' /\ NoStarvedTask'
  BY <1>3 DEF PoolBounds, NoStarvedTask, TypeOK, RetireInv, FreshInv, MutexInv
<1>9. TaskInv'
  BY DEF TypeOK, TaskInv, Running
<1> QED BY <1>3, <1>4, <1>5, <1>6, <1>7, <1>8, <1>9

(* Stop (cc:134-146).                                                        *)
LEMMA StopIInv ==
  ASSUME IInv, StopSet \/ StopNotifyClear \/ StopNotifyWorkers \/ StopJoinClear \/
         StopJoinWorker \/ StopReturn
  PROVE  IInv'
<1> USE ThreadPollAssumption, MaxOK DEF IInv, StopSet, StopNotifyClear, StopNotifyWorkers,
     StopJoinClear, StopJoinWorker, StopReturn, Ended, WokenClear, MutexFree, workerVars,
     poolVars, callVars, clearVars, stopVars, reaperFrame, stopFrame, regVars, AllJoined
<1>1. Counted' = Counted /\ Idle' = Idle
  BY DEF Idle, Counted, TypeOK, FreshInv, MutexInv, DeadInv
<1>3. CountersExact'
  BY <1>1 DEF CountersExact
<1>4. TypeOK'
  BY <1>3, ZenonT(30) DEF TypeOK, WorkerState, ClearState, StopState
<1>5. MutexInv' /\ FreshInv' /\ RetireInv'
  <2>1. CASE StopJoinWorker
    BY <2>1 DEF TypeOK, MutexInv, FreshInv, RetireInv
  <2>2. CASE StopNotifyWorkers
    BY <2>2 DEF TypeOK, MutexInv, FreshInv, RetireInv
  <2>3. CASE ~StopJoinWorker /\ ~StopNotifyWorkers
    BY <2>3 DEF TypeOK, MutexInv, FreshInv, RetireInv
  <2> QED BY <2>1, <2>2, <2>3
<1>6. DeadInv' /\ ReaperAsserts' /\ NoOverwrite'
  BY DEF TypeOK, DeadInv, RegisteredInv, FreshInv, MutexInv, StopJoining, ReaperAsserts,
         NoOverwrite,
         ThreadMutexFree, Ended
<1>7. RegisteredInv'
  BY DEF TypeOK, RegisteredInv, DeadInv, FreshInv, ReaperAsserts, StopJoining
<1>8. PoolBounds' /\ NoStarvedTask'
  BY <1>3 DEF PoolBounds, NoStarvedTask, TypeOK, RetireInv, FreshInv, MutexInv
<1>9. TaskInv'
  BY DEF TypeOK, TaskInv, Running
<1> QED BY <1>3, <1>4, <1>5, <1>6, <1>7, <1>8, <1>9

(* Every step preserves it.                                                  *)
LEMMA NextIInv == IInv /\ [Next]_vars => IInv'
<1> SUFFICES ASSUME IInv, [Next]_vars PROVE IInv'
  OBVIOUS
<1>1. ASSUME NEW t \in Thread, Threadwork(t) PROVE IInv'
  BY <1>1, WorkerControlIInv, BeginTaskIInv, FinishTaskIInv, RetireIInv
     DEF Threadwork, Predicate
<1>2. ASSUME NEW k \in Task, Caller(k) PROVE IInv'
  BY <1>2, AddTaskIInv, GrowCreateIInv, GrowRegisterIInv, NotifyOneIInv DEF Caller
<1>3. CASE Reap \/ ClearSpuriousWakeup
  BY <1>3, ReapIInv DEF Reap
<1>4. CASE Stop
  BY <1>4, StopIInv DEF Stop
<1>5. CASE UNCHANGED vars
  BY <1>5 DEF vars, workerVars, poolVars, callVars, clearVars, stopVars, IInv, TypeOK,
       MutexInv, FreshInv, RetireInv, DeadInv, RegisteredInv, CountersExact, PoolBounds,
       NoStarvedTask, ReaperAsserts, NoOverwrite, TaskInv, Running, Counted, Idle,
       StopJoining, ThreadMutexFree, regVars
<1> QED BY <1>1, <1>2, <1>3, <1>4, <1>5 DEF Next

(* The inductive invariant holds in every reachable state.                   *)
THEOREM IInvHolds == Spec => []IInv
<1>1. Init => IInv
  BY InitIInv
<1>2. IInv /\ [Next]_vars => IInv'
  BY NextIInv
<1> QED BY <1>1, <1>2, PTL DEF Spec

(* Type correctness of the pool, for any number of threads and tasks.        *)
THEOREM TypeCorrect == Spec => []TypeOK
<1>1. IInv => TypeOK
  BY DEF IInv
<1> QED BY <1>1, IInvHolds, PTL

(* The number of threads stays between minThreadnum_ and maxThreadnum_,      *)
(* whatever the interleaving of growth and retirement (cc:35, 68).           *)
THEOREM SizeBounded == Spec => []PoolBounds
<1>1. IInv => PoolBounds
  BY DEF IInv
<1> QED BY <1>1, IInvHolds, PTL

(* The two counters are exact, though they are updated at several places     *)
(* (cc:42-43, 73-74, 82, 85), and however Stop is used.                      *)
THEOREM CountersCorrect == Spec => []CountersExact
<1>1. IInv => CountersExact
  BY DEF IInv
<1> QED BY <1>1, IInvHolds, PTL

(* Below the maximum there is an idle worker for every queued task (cc:35).  *)
THEOREM NoTaskStarved == Spec => []NoStarvedTask
<1>1. IInv => NoStarvedTask
  BY DEF IInv
<1> QED BY <1>1, IInvHolds, PTL

(* The asserts of the reaper hold (cc:102-103, 119-120).                     *)
THEOREM ReaperCorrect == Spec => []ReaperAsserts
<1>1. IInv => ReaperAsserts
  BY DEF IInv
<1> QED BY <1>1, IInvHolds, PTL

(* cc:40 never overwrites the entry of a thread that is still to be joined,  *)
(* though ids are used again before the reaper erases them.                  *)
THEOREM EntriesKept == Spec => []NoOverwrite
<1>1. IInv => NoOverwrite
  BY DEF IInv
<1> QED BY <1>1, IInvHolds, PTL

-----------------------------------------------------------------------------
(* No lost wakeup                                                            *)

(* So are the sets of possible wakers.                                       *)
LEMMA AwakeFinite == /\ IsFiniteSet(AwakeIdle) /\ Cardinality(AwakeIdle) \in Nat
                     /\ IsFiniteSet(Notifying) /\ Cardinality(Notifying) \in Nat
<1>1. AwakeIdle \subseteq Thread /\ Notifying \subseteq Task
  BY DEF AwakeIdle, Notifying
<1> QED BY <1>1, ThreadPollAssumption, FS_Subset, FS_CardinalityType

(* One lemma per kind of thread.                                             *)
LEMMA CallerKeepsWakers ==
  ASSUME IInv, EveryTaskHasAWaker, NEW k \in Task, Caller(k)
  PROVE  EveryTaskHasAWaker'
<1> USE DEF IInv, TypeOK
<1>1. CASE AddTask(k) \/ GrowRegister(k)
  <2>1. Notifying' = Notifying \cup {k} /\ k \notin Notifying
    BY <1>1 DEF Notifying, AddTask, GrowRegister, counters, regVars, workerVars, clearVars,
         stopVars
  <2>2. AwakeIdle' = AwakeIdle /\ Waiters' = Waiters /\ stop_' = stop_
        /\ Len(taskqueue') = Len(taskqueue) + 1
    BY <1>1 DEF AwakeIdle, Waiters, AddTask, GrowRegister, workerVars, stopVars, counters,
         regVars, clearVars
  <2>3. Cardinality(Notifying') = Cardinality(Notifying) + 1
    BY <2>1, AwakeFinite, FS_AddElement
  <2> QED BY <2>2, <2>3, AwakeFinite DEF EveryTaskHasAWaker
<1>2. CASE GrowCreate(k)
  <2>1. PICK t \in Thread : state[t] = "none" /\ state' = [state EXCEPT ![t] = "top"]
    BY <1>2 DEF GrowCreate, counters, regVars, clearVars, stopVars
  <2>2. AwakeIdle' = AwakeIdle \cup {t} /\ t \notin AwakeIdle /\ Waiters' = Waiters
    BY <2>1 DEF AwakeIdle, Waiters
  <2>3. Notifying' = Notifying /\ stop_' = stop_ /\ taskqueue' = taskqueue
    BY <1>2 DEF Notifying, GrowCreate, stopVars, counters, regVars, clearVars
  <2>4. Cardinality(AwakeIdle') = Cardinality(AwakeIdle) + 1
    BY <2>2, AwakeFinite, FS_AddElement
  <2> QED BY <2>2, <2>3, <2>4, AwakeFinite DEF EveryTaskHasAWaker
<1>3. CASE NotifyOne(k)
  <2>1. Notifying' = Notifying \ {k} /\ k \in Notifying
    BY <1>3 DEF Notifying, NotifyOne, Notify, regVars
  <2>2. Cardinality(Notifying') = Cardinality(Notifying) - 1
    BY <2>1, AwakeFinite, FS_RemoveElement
  <2>3. stop_' = stop_ /\ taskqueue' = taskqueue
    BY <1>3 DEF NotifyOne, stopVars, poolVars, Notify, regVars
  <2>4. CASE Waiters = {} /\ UNCHANGED state
    BY <2>4 DEF EveryTaskHasAWaker, Waiters
  <2>5. ASSUME NEW t \in Waiters, state' = [state EXCEPT ![t] = "woken"]
        PROVE  EveryTaskHasAWaker'
    <3>1. AwakeIdle' = AwakeIdle \cup {t} /\ t \notin AwakeIdle
      BY <2>5 DEF AwakeIdle, Waiters
    <3>2. Cardinality(AwakeIdle') = Cardinality(AwakeIdle) + 1
      BY <3>1, AwakeFinite, FS_AddElement
    <3> QED BY <2>2, <2>3, <3>2, AwakeFinite DEF EveryTaskHasAWaker
  <2> QED BY <1>3, <2>4, <2>5 DEF NotifyOne, Notify, regVars
<1> QED BY <1>1, <1>2, <1>3 DEF Caller

LEMMA WorkerKeepsWakers ==
  ASSUME IInv, EveryTaskHasAWaker, NEW t \in Thread, Threadwork(t)
  PROVE  EveryTaskHasAWaker'
<1> USE DEF IInv, TypeOK
<1> SUFFICES ASSUME ~stop_', Waiters' # {}
             PROVE  Len(taskqueue') <= Cardinality(AwakeIdle') + Cardinality(Notifying')
  BY DEF EveryTaskHasAWaker
<1>1. Notifying' = Notifying /\ ~stop_
  BY DEF Notifying, Threadwork, Predicate, LoopTest, ReturnStopped, TakeTask, FindEmpty,
       BeginRetire, IdleRound, Block, Timeout, SpuriousWakeup, Retire, FinishTask,
       callVars, stopVars, Move, workerFrame, regVars, MoveLock, FindsNothing, counters,
       FindsNothingLate, IdleAgain
<1>2. Cardinality(AwakeIdle') \in Nat
  <2>1. AwakeIdle' \subseteq Thread
    BY DEF AwakeIdle
  <2> QED BY <2>1, ThreadPollAssumption, FS_Subset, FS_CardinalityType
<1>3. CASE LoopTest(t)
  <2>1. AwakeIdle' = AwakeIdle /\ Waiters' = Waiters /\ taskqueue' = taskqueue
    BY <1>1, <1>3 DEF LoopTest, AwakeIdle, Waiters, poolVars, Move, workerFrame, regVars
  <2> QED BY <1>1, <2>1 DEF EveryTaskHasAWaker
<1>4. CASE ReturnStopped(t)
  BY <1>1, <1>4 DEF ReturnStopped, Move, workerFrame, regVars
<1>5. CASE TakeTask(t)
  <2>1. AwakeIdle' = AwakeIdle \ {t} /\ t \in AwakeIdle /\ Waiters' = Waiters
    BY <1>5 DEF TakeTask, AtPredicate, AwakeIdle, Waiters, regVars
  <2>2. Cardinality(AwakeIdle') = Cardinality(AwakeIdle) - 1
    BY <2>1, AwakeFinite, FS_RemoveElement
  <2>3. Len(taskqueue') = Len(taskqueue) - 1
    BY <1>5 DEF TakeTask, regVars
  <2> QED BY <1>1, <2>1, <2>2, <2>3, AwakeFinite DEF EveryTaskHasAWaker
<1>6. CASE FindEmpty(t) \/ Block(t) \/ BeginRetire(t) \/ IdleRound(t) \/ Retire(t)
  <2>1. taskqueue' = <<>>
    BY <1>6 DEF FindEmpty, Block, BeginRetire, IdleRound, Retire, RetireInv, MoveLock,
         workerFrame, FindsNothing, counters, regVars, FindsNothingLate
  <2> QED BY <1>1, <1>2, <2>1, AwakeFinite
<1>7. CASE Timeout(t) \/ SpuriousWakeup(t) \/ FinishTask(t)
  <2>1. AwakeIdle' = AwakeIdle \cup {t} /\ t \notin AwakeIdle
    BY <1>7 DEF Timeout, SpuriousWakeup, FinishTask, AwakeIdle, Move, workerFrame, regVars,
         IdleAgain
  <2>2. taskqueue' = taskqueue /\ (Waiters' # {} => Waiters # {})
    BY <1>7 DEF Timeout, SpuriousWakeup, FinishTask, Waiters, poolVars, Move, workerFrame,
         regVars, IdleAgain
  <2>3. Cardinality(AwakeIdle') = Cardinality(AwakeIdle) + 1
    BY <2>1, AwakeFinite, FS_AddElement
  <2> QED BY <1>1, <2>2, <2>3, AwakeFinite DEF EveryTaskHasAWaker
<1> QED BY <1>3, <1>4, <1>5, <1>6, <1>7 DEF Threadwork, Predicate

LEMMA OthersKeepWakers ==
  ASSUME IInv, EveryTaskHasAWaker, Reap \/ ClearSpuriousWakeup \/ Stop \/ UNCHANGED vars
  PROVE  EveryTaskHasAWaker'
<1> USE DEF IInv, TypeOK
<1>1. CASE stop_'
  BY <1>1 DEF EveryTaskHasAWaker
<1>2. CASE ~stop_'
  <2>1. ~Stop
    BY <1>2 DEF Stop, StopSet, StopNotifyClear, StopNotifyWorkers, StopJoinClear,
         StopJoinWorker, StopReturn, DeadInv, StopJoining, stopFrame, regVars, AllJoined
  <2>2. CASE Reap \/ ClearSpuriousWakeup
    <3>1. AwakeIdle' = AwakeIdle /\ Waiters' = Waiters
      BY <2>2 DEF AwakeIdle, Waiters, Reap, ClearLoopTest, ClearTestPredicate, ClearBlock,
           ClearSpuriousWakeup, ClearPop, ClearJoin, ClearErase, ClearDrained, ClearFinal,
           reaperFrame, workerVars, DeadInv, Ended, ClearMove, regVars, RestOfDead
    <3>2. taskqueue' = taskqueue /\ stop_' = stop_ /\ call' = call
      BY <2>2 DEF Reap, ClearLoopTest, ClearTestPredicate, ClearBlock, ClearSpuriousWakeup,
           ClearPop, ClearJoin, ClearErase, ClearDrained, ClearFinal, reaperFrame,
           poolVars, callVars, stopVars, ClearMove, regVars, RestOfDead
    <3> QED BY <3>1, <3>2 DEF EveryTaskHasAWaker, Notifying
  <2>3. CASE UNCHANGED vars
    BY <2>3 DEF vars, workerVars, poolVars, callVars, stopVars, EveryTaskHasAWaker,
         Notifying, AwakeIdle, Waiters, regVars
  <2> QED BY <2>1, <2>2, <2>3
<1> QED BY <1>1, <1>2

(* Notifying after unlocking (cc:48) loses no wakeup: no worker of a running *)
(* pool sleeps while a queued task has nobody who will look at the queue.    *)
THEOREM NoLostWakeup == Spec => []EveryTaskHasAWaker
<1>1. Init => EveryTaskHasAWaker
  BY ThreadPollAssumption DEF Init, EveryTaskHasAWaker, Waiters
<1>2. IInv /\ EveryTaskHasAWaker /\ [Next]_vars => EveryTaskHasAWaker'
  BY CallerKeepsWakers, WorkerKeepsWakers, OthersKeepWakers DEF Next
<1> QED BY <1>1, <1>2, IInvHolds, PTL DEF Spec

-----------------------------------------------------------------------------
(* Stop                                                                      *)

(* No addtask can be creating a thread while Stop joins.                     *)
StopIsSafe == StopUse # "anytime" \/ maxThreadnum = minThreadnum

(* Under StopIsSafe no addtask creates a thread once Stop has begun.         *)
LEMMA NoGrowthDuringStop ==
  ASSUME IInv, JoinInv, StopIsSafe, stopper # "idle", NEW k \in Task
  PROVE  ~GrowCreate(k) /\ call[k] # "grow"
<1>1. CASE maxThreadnum = minThreadnum
  <2>1. ~NeedsThread
    BY <1>1, MaxOK DEF NeedsThread, IInv, PoolBounds, TypeOK
  <2>2. mutex \notin Task
    BY <1>1, MaxOK DEF IInv, FreshInv, PoolBounds, TypeOK
  <2> QED BY <2>1, <2>2 DEF GrowCreate, IInv, MutexInv, counters, regVars, clearVars,
       stopVars
<1>2. CASE StopUse = "quiescent"
  BY <1>2 DEF JoinInv, GrowCreate, MayCall, counters, regVars, clearVars, stopVars
<1>3. CASE StopUse = "never"
  BY <1>3 DEF JoinInv
<1> QED BY <1>1, <1>2, <1>3, ThreadPollAssumption DEF StopIsSafe

(* Every step keeps track of the threads still to be joined.                 *)
LEMMA JoinInvStep ==
  ASSUME IInv, JoinInv, StopIsSafe, [Next]_vars
  PROVE  JoinInv'
<1> USE DEF IInv, TypeOK
<1>1. ASSUME NEW k \in Task, Caller(k) PROVE JoinInv'
  <2>1. CASE stopper = "idle"
    BY <1>1, <2>1 DEF Caller, AddTask, GrowCreate, GrowRegister, NotifyOne, JoinInv,
         StopJoining, stopVars, counters, regVars, workerVars, clearVars, Notify
  <2>2. CASE stopper # "idle"
    <3>1. AddTask(k) \/ NotifyOne(k)
      BY <1>1, <2>2, NoGrowthDuringStop DEF Caller, GrowRegister, workerVars, clearVars
    <3>2. UNCHANGED <<stopper, toJoin, stop_>>
      BY <3>1 DEF AddTask, NotifyOne, stopVars, counters, regVars, workerVars, clearVars,
           Notify
    <3>3. \A t \in Thread : state[t] \in {"none", "joined"} => state'[t] = state[t]
      BY <3>1 DEF AddTask, NotifyOne, Waiters, workerVars, counters, regVars, clearVars,
           stopVars, Notify
    <3>4. StopUse = "quiescent" => \A c \in Task : call'[c] \in {"new", "returned"}
      BY <2>2, <3>1 DEF AddTask, NotifyOne, MayCall, JoinInv, counters, regVars,
           workerVars, clearVars, stopVars, Notify
    <3> QED BY <2>2, <3>2, <3>3, <3>4 DEF JoinInv, StopJoining
  <2> QED BY <2>1, <2>2
<1>2. ASSUME NEW t \in Thread, Threadwork(t) PROVE JoinInv'
  <2>1. UNCHANGED <<stopper, toJoin, stop_, call>>
    BY <1>2 DEF Threadwork, Predicate, LoopTest, ReturnStopped, TakeTask, FindEmpty,
         BeginRetire, IdleRound, Block, Timeout, SpuriousWakeup, Retire, FinishTask,
         callVars, stopVars, Move, workerFrame, regVars, MoveLock, FindsNothing, counters,
         FindsNothingLate, IdleAgain
  <2>2. \A u \in Thread : state[u] \in {"none", "joined"} => state'[u] = state[u]
    BY <1>2 DEF Threadwork, Predicate, LoopTest, ReturnStopped, TakeTask, FindEmpty,
         BeginRetire, IdleRound, Block, Timeout, SpuriousWakeup, Retire, FinishTask,
         AtPredicate, Move, workerFrame, regVars, MoveLock, FindsNothing, counters,
         FindsNothingLate, IdleAgain
  <2> QED BY <2>1, <2>2 DEF JoinInv, StopJoining
<1>3. CASE Reap \/ ClearSpuriousWakeup
  <2>1. UNCHANGED <<stopper, toJoin, stop_, call>>
    BY <1>3 DEF Reap, ClearLoopTest, ClearTestPredicate, ClearBlock, ClearSpuriousWakeup,
         ClearPop, ClearJoin, ClearErase, ClearDrained, ClearFinal, reaperFrame, callVars,
         stopVars, ClearMove, regVars, RestOfDead
  <2>2. \A u \in Thread : state[u] \in {"none", "joined"} => state'[u] = state[u]
    BY <1>3 DEF Reap, ClearLoopTest, ClearTestPredicate, ClearBlock, ClearSpuriousWakeup,
         ClearPop, ClearJoin, ClearErase, ClearDrained, ClearFinal, reaperFrame,
         workerVars, Ended, ClearMove, regVars, RestOfDead
  <2> QED BY <2>1, <2>2 DEF JoinInv, StopJoining
<1>4. CASE StopSet
  BY <1>4 DEF StopSet, MayStop, JoinInv, StopJoining, callVars, stopFrame, regVars
<1>5. CASE StopNotifyClear \/ StopNotifyWorkers
  BY <1>5 DEF StopNotifyClear, StopNotifyWorkers, JoinInv, StopJoining, callVars,
       workerVars, stopFrame, regVars
<1>6. CASE StopJoinClear
  <2>1. \A t \in Thread : state[t] # "none" => t \in threads
    <3>1. fresh = NoThread
      BY <1>6, NoGrowthDuringStop DEF StopJoinClear, FreshInv, MutexInv, stopFrame, regVars
    <3> QED BY <3>1, ThreadPollAssumption DEF RegisteredInv
  <2> QED BY <1>6, <2>1 DEF StopJoinClear, JoinInv, StopJoining, callVars, workerVars,
       stopFrame, regVars
<1>7. CASE StopJoinWorker \/ StopReturn
  BY <1>7 DEF StopJoinWorker, StopReturn, JoinInv, StopJoining, callVars, workerVars,
       stopFrame, regVars, AllJoined
<1>8. CASE UNCHANGED vars
  BY <1>8 DEF vars, stopVars, callVars, workerVars, JoinInv, StopJoining, regVars
<1> QED BY <1>1, <1>2, <1>3, <1>4, <1>5, <1>6, <1>7, <1>8 DEF Next, Stop

(* When Stop has returned (cc:146) no worker thread is left unjoined,        *)
(* provided no addtask overlaps Stop or the pool cannot grow.                *)
THEOREM StopIsComplete == StopIsSafe => (Spec => []StopJoinsAll)
<1> SUFFICES ASSUME StopIsSafe PROVE Spec => []StopJoinsAll
  OBVIOUS
<1>1. Init => JoinInv
  BY ThreadPollAssumption DEF Init, JoinInv, StopJoining
<1>2. IInv /\ JoinInv /\ [Next]_vars => JoinInv'
  BY JoinInvStep
<1>3. JoinInv => StopJoinsAll
  BY DEF JoinInv, StopJoinsAll, StopJoining
<1> QED BY <1>1, <1>2, <1>3, IInvHolds, PTL DEF Spec

-----------------------------------------------------------------------------
(* Implementation of TaskPool                                                *)

(* A worker outside "exec" leaves room for one more task.                    *)
LEMMA RoomForOne ==
  ASSUME IInv, NEW t \in Idle
  PROVE  Cardinality(Running) < maxThreadnum
<1> DEFINE Busy == {u \in Thread : job[u] # NoTask}
           f == [u \in Busy |-> job[u]]
<1>1. Busy \subseteq Counted \ {t}
  BY ThreadPollAssumption DEF IInv, TaskInv, Counted, Idle, FreshInv, TypeOK
<1>2. IsFiniteSet(Busy) /\ Cardinality(Busy) <= Cardinality(Counted \ {t})
      /\ Cardinality(Busy) \in Nat
  <2>1. IsFiniteSet(Counted \ {t})
    BY CountedFinite, FS_RemoveElement
  <2> QED BY <1>1, <2>1, FS_Subset, FS_CardinalityType
<1>3. Cardinality(Counted \ {t}) = Cardinality(Counted) - 1
  BY CountedFinite, FS_RemoveElement DEF Idle
<1>4. f \in Surjection(Busy, Running)
  BY DEF Surjection, Running
<1>5. IsFiniteSet(Running) /\ Cardinality(Running) <= Cardinality(Busy)
  BY <1>2, <1>4, FS_Surjection
<1>6. Cardinality(Running) \in Nat
  BY <1>5, FS_CardinalityType
<1> QED BY <1>2, <1>3, <1>5, <1>6, MaxOK DEF IInv, CountersExact, PoolBounds, TypeOK

(* The instance has its own copy of the standard operator.                   *)
LEMMA SameCardinality == \A S : Abstract!Cardinality(S) = Cardinality(S)
BY DEF Abstract!Cardinality, Cardinality

(* Every step is a step of TaskPool or changes nothing it speaks of.         *)
LEMMA StepSimulation ==
  ASSUME IInv, [Next]_vars
  PROVE  [Abstract!Next]_(Abstract!vars)
<1> USE DEF IInv, TypeOK
<1> DEFINE Same == UNCHANGED <<taskqueue, Running, ran>>
<1>0. Same => [Abstract!Next]_(Abstract!vars)
  BY DEF Abstract!vars
<1>1. ASSUME NEW k \in Task, Caller(k) PROVE [Abstract!Next]_(Abstract!vars)
  <2>1. CASE AddTask(k) \/ GrowRegister(k)
    <3>1. /\ taskqueue' = Append(taskqueue, k) /\ Running' = Running /\ ran' = ran
          /\ call[k] \in {"new", "grow"}
      BY <2>1 DEF AddTask, GrowRegister, workerVars, Running, counters, regVars, clearVars,
           stopVars
    <3>2. k \notin Abstract!Queued \cup Running \cup ran
      BY <3>1 DEF TaskInv, Abstract!Queued
    <3>3. Abstract!Submit(k)
      BY <3>1, <3>2 DEF Abstract!Submit
    <3> QED BY <3>3 DEF Abstract!Next
  <2>2. CASE GrowCreate(k) \/ NotifyOne(k)
    BY <1>0, <2>2 DEF GrowCreate, NotifyOne, poolVars, Running, counters, regVars,
         clearVars, stopVars, Notify
  <2> QED BY <1>1, <2>1, <2>2 DEF Caller
<1>2. ASSUME NEW t \in Thread, Threadwork(t) PROVE [Abstract!Next]_(Abstract!vars)
  <2>1. CASE TakeTask(t)
    <3>1. t \in Idle
      BY <2>1, ThreadPollAssumption DEF TakeTask, AtPredicate, MutexFree, Idle, Counted,
           FreshInv, regVars
    <3>2. Head(taskqueue) \in Task
      BY <2>1 DEF TakeTask, regVars
    <3>3. \A u \in Thread : job'[u] = IF u = t THEN Head(taskqueue) ELSE job[u]
      BY <2>1 DEF TakeTask, FrontTask, regVars
    <3>4. job[t] = NoTask
      BY <2>1 DEF TakeTask, AtPredicate, TaskInv, regVars
    <3>5. Running' = Running \cup {Head(taskqueue)}
      BY <3>2, <3>3, <3>4, ThreadPollAssumption DEF Running
    <3>6. Cardinality(Running) < maxThreadnum
      BY <3>1, RoomForOne
    <3>7. taskqueue # <<>> /\ taskqueue' = Tail(taskqueue) /\ ran' = ran
      BY <2>1 DEF TakeTask, regVars
    <3>8. Abstract!Start
      BY <3>5, <3>6, <3>7, SameCardinality DEF Abstract!Start
    <3> QED BY <3>8 DEF Abstract!Next
  <2>2. CASE FinishTask(t) /\ job[t] # NoTask
    <3>1. \A u \in Thread : job'[u] = IF u = t THEN NoTask ELSE job[u]
      BY <2>2 DEF FinishTask, IdleAgain, regVars
    <3>2. Running' = Running \ {job[t]} /\ job[t] \in Running /\ job[t] \in Task
      BY <2>2, <3>1 DEF Running, TaskInv
    <3>3. ran' = ran \cup {job[t]} /\ taskqueue' = taskqueue
      BY <2>2 DEF FinishTask, IdleAgain, regVars
    <3>4. Abstract!Finish(job[t])
      BY <3>2, <3>3 DEF Abstract!Finish
    <3> QED BY <3>2, <3>4 DEF Abstract!Next
  <2>3. CASE FinishTask(t) /\ job[t] = NoTask
    <3>1. job' = job
      BY <2>3 DEF FinishTask, IdleAgain, regVars
    <3> QED BY <1>0, <2>3, <3>1 DEF FinishTask, Running, IdleAgain, regVars
  <2>4. CASE ~TakeTask(t) /\ ~FinishTask(t)
    BY <1>0, <1>2, <2>4 DEF Threadwork, Predicate, LoopTest, ReturnStopped, FindEmpty,
         BeginRetire, IdleRound, Block, Timeout, SpuriousWakeup, Retire, poolVars, Running,
         Move, workerFrame, regVars, MoveLock, FindsNothing, counters, FindsNothingLate
  <2> QED BY <2>1, <2>2, <2>3, <2>4
<1>3. CASE Reap \/ ClearSpuriousWakeup
  BY <1>0, <1>3 DEF Reap, ClearLoopTest, ClearTestPredicate, ClearBlock,
       ClearSpuriousWakeup, ClearPop, ClearJoin, ClearErase, ClearDrained, ClearFinal,
       reaperFrame, workerVars, poolVars, Running, ClearMove, regVars, RestOfDead
<1>4. CASE Stop
  BY <1>0, <1>4 DEF Stop, StopSet, StopNotifyClear, StopNotifyWorkers, StopJoinClear,
       StopJoinWorker, StopReturn, workerVars, poolVars, Running, stopFrame, regVars,
       AllJoined
<1>5. CASE UNCHANGED vars
  BY <1>0, <1>5 DEF vars, workerVars, poolVars, Running, regVars
<1> QED BY <1>1, <1>2, <1>3, <1>4, <1>5 DEF Next

(* The pool implements TaskPool: tasks start in the order of addtask, each   *)
(* at most once, and at most maxThreadnum_ of them run at a time.            *)
THEOREM PoolImplementsTaskPool == Spec => ImplementsTaskPool
<1>1. Init => Abstract!Init
  BY DEF Init, Abstract!Init, Running
<1>2. IInv /\ [Next]_vars => [Abstract!Next]_(Abstract!vars)
  BY StepSimulation
<1> QED BY <1>1, <1>2, IInvHolds, PTL DEF Spec, ImplementsTaskPool, Abstract!Spec
=============================================================================
