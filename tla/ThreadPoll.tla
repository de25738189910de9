----------------------------- MODULE ThreadPoll -----------------------------
(***************************************************************************)
(* The dynamic thread pool of src/src/common/ThreadPoll.{h,cc}.              *)
(*                                                                          *)
(* Threads: the callers of addtask (one per task), the workers running       *)
(* Threadwork, the reaper running clearDeadThread, and the owner that calls  *)
(* Stop (the destructor's second call returns at once, cc:136).              *)
(*                                                                          *)
(* mutex_ is modelled by its owner; deadThreadQueueMutex and threadMutex_    *)
(* are held exactly at the reaper's control points named below, and          *)
(* otherwise only within one action.  A thread id may be reused as soon as   *)
(* its thread has been joined, as pthread ids are.                           *)
(***************************************************************************)
EXTENDS Naturals, Sequences, FiniteSets

CONSTANTS
    Thread,        \* thread ids of workers
    Task,          \* tasks; addtask is called at most once for each
    minThreadnum,  \* minThreadnum_
    maxThreadArg,  \* the constructor's argument maxThreadnum
    StopUse,       \* how the owner uses Stop: "never", "quiescent" (no call
                   \* of addtask overlaps or follows Stop) or "anytime"
    NoThread, NoTask, Nobody

ASSUME ThreadPollAssumption ==
    /\ IsFiniteSet(Thread)
    /\ IsFiniteSet(Task)
    /\ minThreadnum \in Nat
    /\ maxThreadArg \in Nat
    /\ NoThread \notin Thread
    /\ NoTask \notin Task
    /\ Nobody \notin Thread \cup Task
    /\ Thread \cap Task = {}
    /\ StopUse \in {"never", "quiescent", "anytime"}

(* cc:12-18                                                                  *)
maxThreadnum == IF maxThreadArg <= minThreadnum THEN minThreadnum
                                                ELSE maxThreadArg

VARIABLES
    stop_,
    taskqueue,         \* taskqueue_
    currentThreadnum,  \* currentThreadnum_
    idleThreadnum,     \* idleThreadnum_
    threads,           \* keys of threads_
    deadThreadQueue,   \* deadThreadQueue_
    mutex,             \* who holds mutex_: a worker, a task's caller, Nobody
    state,             \* control point of each worker
    job,               \* the task each worker is executing
    call,              \* control point of the addtask call of each task
    fresh,             \* thread created by addtask and not yet in threads_
    clear,             \* control point of the reaper
    lastDrain,         \* the reaper is in its final loop, cc:111-125
    joining,           \* thread the reaper is joining
    stopper,           \* control point of the owner
    toJoin,            \* threads the loop at cc:142 has still to join
    ran                \* history: the tasks whose execution has ended

workerVars == <<state, job, ran>>
poolVars   == <<taskqueue, currentThreadnum, idleThreadnum, mutex>>
counters   == <<currentThreadnum, idleThreadnum>>
callVars   == <<call, fresh>>
clearVars  == <<clear, lastDrain, joining>>
stopVars   == <<stop_, stopper, toJoin>>
regVars    == <<threads, deadThreadQueue>>
vars == <<workerVars, poolVars, callVars, clearVars, stopVars, regVars>>

WorkerState == {"none",     \* no such thread, or retired and joined
                "top",      \* at the loop test, cc:54
                "lock",     \* waiting for mutex_, cc:58
                "checked",  \* holds mutex_, found the predicate false
                "wait",     \* blocked in wait_for, cc:59
                "woken",    \* notified, waiting for mutex_
                "expired",  \* timed out, waiting for mutex_
                "retire",   \* holds mutex_, waiting for deadThreadQueueMutex
                "exec",     \* running its task, cc:84
                "dead",     \* ended after a timeout
                "stopped",  \* ended because of stop_
                "joined"}   \* ended because of stop_, and joined

ClearState == {"top",       \* at the loop test, cc:92
               "lock",      \* waiting for deadThreadQueueMutex, cc:93
               "checked",   \* holds it, found the predicate false
               "wait",      \* blocked in wait, cc:94
               "woken",     \* notified, waiting for deadThreadQueueMutex
               "drain",     \* holds it, at cc:95 or cc:112
               "join",      \* holds it and threadMutex_, joining
               "erase",     \* holds both, joined, about to erase
               "final",     \* waiting for deadThreadQueueMutex, cc:111
               "exit"}

StopState == {"idle", "set", "cleared", "notified", "joinWorkers", "returned"}

DeadMutexFree   == clear \notin {"checked", "drain", "join", "erase"}
(* Mutant: threadMutex_ is released between join and erase.                  *)
ThreadMutexFree_JoinOnly == clear \notin {"join"}

ThreadMutexFree == clear \notin {"join", "erase"}
MutexFree       == mutex = Nobody

Ended(t) == state[t] \in {"dead", "stopped"}

(* Mutant: nobody is woken.                                                  *)
WokenClear_None == clear

(* notify_all on deadThreadQueueCondition_, cc:72 and cc:138.                *)
WokenClear == IF clear = "wait" THEN "woken" ELSE clear

(* What the environment of the pool is assumed to do, chosen by StopUse.     *)
MayStop == \/ StopUse = "anytime"
           \/ /\ StopUse = "quiescent"
              /\ \A k \in Task : call[k] \in {"new", "returned"}
MayCall == StopUse = "quiescent" => stopper = "idle"

-----------------------------------------------------------------------------
(* Constructor.  clearThread starts before stop_ is initialised (it is       *)
(* declared before it), so its first loop test may read any value: when it   *)
(* reads true it goes straight to its final loop.                            *)
Init ==
    /\ stop_ = FALSE
    /\ taskqueue = <<>>
    /\ currentThreadnum = minThreadnum
    /\ idleThreadnum = minThreadnum
    /\ threads \in {S \in SUBSET Thread : Cardinality(S) = minThreadnum}
    /\ deadThreadQueue = <<>>
    /\ mutex = Nobody
    /\ state = [t \in Thread |-> IF t \in threads THEN "top" ELSE "none"]
    /\ job = [t \in Thread |-> NoTask]
    /\ call = [k \in Task |-> "new"]
    /\ fresh = NoThread
    /\ clear \in {"top", "final"}
    /\ lastDrain = FALSE
    /\ joining = NoThread
    /\ stopper = "idle"
    /\ toJoin = {}
    /\ ran = {}

-----------------------------------------------------------------------------
(* addtask                                                                   *)

(* Mutant: grows one task too late.                                          *)
NeedsThread_Late == /\ Len(taskqueue) > idleThreadnum
                    /\ currentThreadnum < maxThreadnum

NeedsThread == /\ Len(taskqueue) >= idleThreadnum
               /\ currentThreadnum < maxThreadnum

(* cc:34-35, 46: an idle worker exists, or the pool is at its maximum.       *)
AddTask(k) ==
    /\ call[k] = "new" /\ MayCall
    /\ MutexFree
    /\ ~NeedsThread
    /\ taskqueue' = Append(taskqueue, k)
    /\ call' = [call EXCEPT ![k] = "notify"]
    /\ UNCHANGED <<counters, mutex, fresh, workerVars, clearVars, stopVars, regVars>>

(* cc:34-37: a new thread starts running before it is registered.            *)
GrowCreate(k) ==
    /\ call[k] = "new" /\ MayCall
    /\ MutexFree
    /\ NeedsThread
    /\ \E t \in Thread :
         /\ state[t] = "none"
         /\ state' = [state EXCEPT ![t] = "top"]
         /\ fresh' = t
    /\ mutex' = k
    /\ call' = [call EXCEPT ![k] = "grow"]
    /\ UNCHANGED <<taskqueue, counters, job, ran, clearVars, stopVars, regVars>>

(* cc:38-47.  The loop at cc:142 iterates threads_ without threadMutex_: an  *)
(* element inserted meanwhile may or may not be visited.                     *)
GrowRegister(k) ==
    /\ call[k] = "grow"
    /\ ThreadMutexFree
    /\ threads' = threads \cup {fresh}
    /\ currentThreadnum' = currentThreadnum + 1
    /\ idleThreadnum' = idleThreadnum + 1
    /\ taskqueue' = Append(taskqueue, k)
    /\ mutex' = Nobody
    /\ fresh' = NoThread
    /\ call' = [call EXCEPT ![k] = "notify"]
    /\ toJoin' \in IF stopper = "joinWorkers" THEN {toJoin, toJoin \cup {fresh}}
                                             ELSE {toJoin}
    /\ UNCHANGED <<workerVars, clearVars, stop_, stopper, deadThreadQueue>>

Waiters == {t \in Thread : state[t] = "wait"}

(* Mutant: addtask does not notify.                                          *)
Notify_Missing == UNCHANGED state

(* Wakes one of the threads blocked at cc:59, if there is one.               *)
Notify == \/ Waiters = {} /\ UNCHANGED state
          \/ \E t \in Waiters : state' = [state EXCEPT ![t] = "woken"]

(* cc:48, after mutex_ has been released.                                    *)
NotifyOne(k) ==
    /\ call[k] = "notify"
    /\ call' = [call EXCEPT ![k] = "returned"]
    /\ Notify
    /\ UNCHANGED <<job, ran, fresh, poolVars, clearVars, stopVars, regVars>>

-----------------------------------------------------------------------------
(* Threadwork                                                                *)

workerFrame == <<job, ran, callVars, clearVars, stopVars, regVars>>

(* A step of a worker that touches nothing of the pool, or only mutex_.      *)
Move(t, to) == /\ state' = [state EXCEPT ![t] = to]
               /\ UNCHANGED <<workerFrame, poolVars>>
MoveLock(t, to, owner) == /\ state' = [state EXCEPT ![t] = to]
                          /\ mutex' = owner
                          /\ UNCHANGED <<workerFrame, taskqueue, counters>>

(* Mutant: the loop test is inverted.                                        *)
LoopTest_Inverted(t) == state[t] = "top" /\ Move(t, IF stop_ THEN "lock" ELSE "stopped")

(* cc:54                                                                     *)
LoopTest(t) == state[t] = "top" /\ Move(t, IF stop_ THEN "stopped" ELSE "lock")

(* Where a worker evaluates the predicate of wait_for with mutex_ held.      *)
AtPredicate(t) == state[t] \in {"lock", "woken", "expired"} /\ MutexFree

(* cc:63                                                                     *)
ReturnStopped(t) == AtPredicate(t) /\ stop_ /\ taskqueue = <<>> /\ Move(t, "stopped")

(* Mutant: the newest task.                                                  *)
FrontTask_Newest == taskqueue[Len(taskqueue)]

(* cc:79                                                                     *)
FrontTask == Head(taskqueue)

(* cc:79-83: also when the wait expired, since wait_for returns the value    *)
(* of the predicate.                                                         *)
TakeTask(t) ==
    /\ AtPredicate(t)
    /\ taskqueue # <<>>
    /\ job' = [job EXCEPT ![t] = FrontTask]
    /\ taskqueue' = Tail(taskqueue)
    /\ idleThreadnum' = idleThreadnum - 1
    /\ state' = [state EXCEPT ![t] = "exec"]
    /\ UNCHANGED <<currentThreadnum, mutex, ran, callVars, clearVars, stopVars, regVars>>

(* The predicate is false; wait_for returns that once it has timed out.      *)
FindsNothing(t) == AtPredicate(t) /\ ~stop_ /\ taskqueue = <<>>
FindsNothingLate(t) == FindsNothing(t) /\ state[t] = "expired"

(* cc:59-61, the predicate is false: the worker is about to block.           *)
FindEmpty(t) == FindsNothing(t) /\ state[t] # "expired" /\ MoveLock(t, "checked", t)

(* Blocking releases mutex_ and starts waiting in one step.                  *)
Block(t) == state[t] = "checked" /\ MoveLock(t, "wait", Nobody)

(* cc:59: the time-out, or a spurious wakeup.                                *)
Timeout(t) == state[t] = "wait" /\ Move(t, "expired")
SpuriousWakeup(t) == state[t] = "wait" /\ Move(t, "woken")

(* cc:65-67: timed out with nothing to do and more threads than the minimum. *)
BeginRetire(t) == FindsNothingLate(t) /\ currentThreadnum > minThreadnum
                  /\ MoveLock(t, "retire", t)

(* cc:67, 82: timed out at the minimum: a round with an empty task.          *)
IdleRound(t) ==
    /\ FindsNothingLate(t)
    /\ currentThreadnum <= minThreadnum
    /\ state' = [state EXCEPT ![t] = "exec"]
    /\ idleThreadnum' = idleThreadnum - 1
    /\ UNCHANGED <<workerFrame, taskqueue, currentThreadnum, mutex>>

(* cc:70-75: both mutexes are released on return, and the thread ends.       *)
Retire(t) ==
    /\ state[t] = "retire"
    /\ DeadMutexFree
    /\ deadThreadQueue' = Append(deadThreadQueue, t)
    /\ clear' = WokenClear
    /\ idleThreadnum' = idleThreadnum - 1
    /\ currentThreadnum' = currentThreadnum - 1
    /\ mutex' = Nobody
    /\ state' = [state EXCEPT ![t] = "dead"]
    /\ UNCHANGED <<job, ran, taskqueue, callVars, lastDrain, joining, stopVars, threads>>

(* Mutant: forgets to increment idleThreadnum_.                              *)
IdleAgain_Forgotten == idleThreadnum

IdleAgain == idleThreadnum + 1   \* cc:85

(* cc:84-85                                                                  *)
FinishTask(t) ==
    /\ state[t] = "exec"
    /\ ran' = ran \cup ({job[t]} \ {NoTask})
    /\ job' = [job EXCEPT ![t] = NoTask]
    /\ idleThreadnum' = IdleAgain
    /\ state' = [state EXCEPT ![t] = "top"]
    /\ UNCHANGED <<taskqueue, currentThreadnum, mutex, callVars, clearVars, stopVars, regVars>>

-----------------------------------------------------------------------------
(* clearDeadThread                                                           *)

reaperFrame == <<workerVars, poolVars, callVars, stopVars>>
ClearMove(to) == clear' = to /\ UNCHANGED <<reaperFrame, lastDrain, joining, regVars>>

(* Mutant: the reaper's loop ignores stop_.                                  *)
ClearLoopTest_Forever == clear = "top" /\ ClearMove("lock")

(* cc:92                                                                     *)
ClearLoopTest == clear = "top" /\ ClearMove(IF stop_ THEN "final" ELSE "lock")

(* cc:93-94; a worker at "retire" takes deadThreadQueueMutex only within     *)
(* one action, so it is free here.                                           *)
ClearTestPredicate ==
    /\ clear \in {"lock", "woken"}
    /\ ClearMove(IF stop_ \/ deadThreadQueue # <<>> THEN "drain" ELSE "checked")

ClearBlock == clear = "checked" /\ ClearMove("wait")
ClearSpuriousWakeup == clear = "wait" /\ ClearMove("woken")

(* Mutant: reads the front of the queue without removing it.                 *)
RestOfDead_Peek == deadThreadQueue

RestOfDead == Tail(deadThreadQueue)   \* cc:98, 115

(* cc:97-103 and cc:114-120                                                  *)
ClearPop ==
    /\ clear = "drain"
    /\ deadThreadQueue # <<>>
    /\ joining' = Head(deadThreadQueue)
    /\ deadThreadQueue' = RestOfDead
    /\ clear' = "join"
    /\ UNCHANGED <<reaperFrame, lastDrain, threads>>

(* cc:104, 121: the id may be given to a new thread from here on.            *)
ClearJoin ==
    /\ clear = "join"
    /\ Ended(joining)
    /\ state' = [state EXCEPT ![joining] = "none"]
    /\ clear' = "erase"
    /\ UNCHANGED <<job, ran, poolVars, callVars, stopVars, lastDrain, joining, regVars>>

(* cc:105, 122                                                               *)
ClearErase ==
    /\ clear = "erase"
    /\ threads' = threads \ {joining}
    /\ joining' = NoThread
    /\ clear' = "drain"
    /\ UNCHANGED <<reaperFrame, lastDrain, deadThreadQueue>>

(* cc:95, 112: the queue is empty; the end of the body of the loop at        *)
(* cc:92, or of the function.                                                *)
ClearDrained == /\ clear = "drain" /\ deadThreadQueue = <<>>
                /\ ClearMove(IF lastDrain THEN "exit" ELSE "top")

(* cc:111                                                                    *)
ClearFinal ==
    /\ clear = "final"
    /\ clear' = "drain"
    /\ lastDrain' = TRUE
    /\ UNCHANGED <<reaperFrame, joining, regVars>>

-----------------------------------------------------------------------------
(* Stop                                                                      *)

stopFrame == <<job, ran, poolVars, callVars, lastDrain, joining, regVars>>

(* cc:136-137                                                                *)
StopSet ==
    /\ stopper = "idle" /\ MayStop
    /\ stop_' = TRUE
    /\ stopper' = "set"
    /\ UNCHANGED <<toJoin, state, clear, stopFrame>>

(* cc:138, without deadThreadQueueMutex.                                     *)
StopNotifyClear ==
    /\ stopper = "set"
    /\ clear' = WokenClear
    /\ stopper' = "cleared"
    /\ UNCHANGED <<stop_, toJoin, state, stopFrame>>

(* cc:139, without mutex_.                                                   *)
StopNotifyWorkers ==
    /\ stopper = "cleared"
    /\ state' = [t \in Thread |-> IF state[t] = "wait" THEN "woken" ELSE state[t]]
    /\ stopper' = "notified"
    /\ UNCHANGED <<stop_, toJoin, clear, stopFrame>>

(* cc:141-142                                                                *)
StopJoinClear ==
    /\ stopper = "notified"
    /\ clear = "exit"
    /\ stopper' = "joinWorkers"
    /\ toJoin' = threads
    /\ UNCHANGED <<stop_, state, clear, stopFrame>>

(* cc:144.  The entry stays in threads_.  A thread that ended because of     *)
(* stop_ stays counted in currentThreadnum_, a retired one was not.          *)
StopJoinWorker ==
    /\ stopper = "joinWorkers"
    /\ \E t \in toJoin :
         /\ Ended(t)
         /\ toJoin' = toJoin \ {t}
         /\ state' = [state EXCEPT ![t] = IF @ = "dead" THEN "none" ELSE "joined"]
    /\ UNCHANGED <<stop_, stopper, clear, stopFrame>>

(* Mutant: returns before the joins.                                         *)
AllJoined_Ignored == TRUE

AllJoined == toJoin = {}   \* the loop at cc:142 is over

StopReturn ==
    /\ stopper = "joinWorkers"
    /\ AllJoined
    /\ stopper' = "returned"
    /\ UNCHANGED <<stop_, toJoin, state, clear, stopFrame>>

-----------------------------------------------------------------------------
Predicate(t) == \/ ReturnStopped(t) \/ TakeTask(t) \/ FindEmpty(t)
                \/ BeginRetire(t) \/ IdleRound(t)

Threadwork(t) == \/ LoopTest(t) \/ Predicate(t) \/ Block(t) \/ Timeout(t)
                 \/ SpuriousWakeup(t) \/ Retire(t) \/ FinishTask(t)

Caller(k) == AddTask(k) \/ GrowCreate(k) \/ GrowRegister(k) \/ NotifyOne(k)

Reap == \/ ClearLoopTest \/ ClearTestPredicate \/ ClearBlock \/ ClearPop
        \/ ClearJoin \/ ClearErase \/ ClearDrained \/ ClearFinal

Stop == \/ StopSet \/ StopNotifyClear \/ StopNotifyWorkers
        \/ StopJoinClear \/ StopJoinWorker \/ StopReturn

Next == \/ \E t \in Thread : Threadwork(t)
        \/ \E k \in Task : Caller(k)
        \/ Reap \/ ClearSpuriousWakeup
        \/ Stop

Spec == Init /\ [][Next]_vars

(* The operating system schedules every thread; a mutex waited for is        *)
(* obtained unless it is taken by others for ever (strong fairness of what   *)
(* starts by taking one); a timed wait ends; tasks end.  Nobody is obliged   *)
(* to call addtask or Stop, and spurious wakeups need not happen.            *)
Fairness ==
    /\ \A t \in Thread :
         /\ WF_vars(LoopTest(t) \/ Block(t) \/ Timeout(t) \/ FinishTask(t))
         /\ SF_vars(Predicate(t))
         /\ SF_vars(Retire(t))
    /\ \A k \in Task : SF_vars(GrowRegister(k)) /\ WF_vars(NotifyOne(k))
    /\ WF_vars(Reap)
    /\ WF_vars(Stop /\ stopper # "idle")

FairSpec == Spec /\ Fairness

-----------------------------------------------------------------------------
(* Properties                                                                *)

TypeOK ==
    /\ stop_ \in BOOLEAN
    /\ taskqueue \in Seq(Task)
    /\ currentThreadnum \in Nat
    /\ idleThreadnum \in Nat
    /\ threads \in SUBSET Thread
    /\ deadThreadQueue \in Seq(Thread)
    /\ mutex \in Thread \cup Task \cup {Nobody}
    /\ state \in [Thread -> WorkerState]
    /\ job \in [Thread -> Task \cup {NoTask}]
    /\ call \in [Task -> {"new", "grow", "notify", "returned"}]
    /\ fresh \in Thread \cup {NoThread}
    /\ clear \in ClearState
    /\ lastDrain \in BOOLEAN
    /\ joining \in Thread \cup {NoThread}
    /\ stopper \in StopState
    /\ toJoin \in SUBSET Thread
    /\ ran \in SUBSET Task

(* The threads the two counters speak of: registered by the constructor or   *)
(* by addtask, and not retired.                                              *)
Counted == {t \in Thread : state[t] \notin {"none", "dead"}} \ {fresh}
Idle    == {t \in Counted : state[t] # "exec"}

(* The pool never has fewer than minThreadnum_ threads nor more than         *)
(* maxThreadnum_, whatever callers, expiring workers and Stop do at once.    *)
PoolBounds == minThreadnum <= currentThreadnum /\ currentThreadnum <= maxThreadnum

(* currentThreadnum_ and idleThreadnum_ count the live workers and those of  *)
(* them that run no task, though they are updated at six different places,   *)
(* one of them (cc:85) without mutex_.                                       *)
CountersExact == /\ currentThreadnum = Cardinality(Counted)
                 /\ idleThreadnum = Cardinality(Idle)

(* The growth rule of cc:35 works: below the maximum there is an idle        *)
(* worker for every queued task, also while workers time out and retire.     *)
NoStarvedTask == \/ Len(taskqueue) <= idleThreadnum
                 \/ currentThreadnum = maxThreadnum

(* notify_one is called after mutex_ is released (cc:48) and may wake a      *)
(* worker that finds its task already taken; still no worker of a running    *)
(* pool sleeps while a queued task has neither a notification to come nor    *)
(* an awake worker that will look at the queue.                              *)
AwakeIdle == {t \in Thread : state[t] \in {"top", "lock", "woken", "expired"}}
Notifying == {k \in Task : call[k] = "notify"}
EveryTaskHasAWaker ==
    (~stop_ /\ Waiters # {}) =>
        Len(taskqueue) <= Cardinality(AwakeIdle) + Cardinality(Notifying)

(* The asserts of the reaper, cc:102-103 and cc:119-120: a thread it is      *)
(* about to join is in threads_, and was not joined before.                  *)
ReaperAsserts ==
    /\ clear = "join" => joining \in threads
    /\ clear = "join" => \A i \in 1..Len(deadThreadQueue) :
                             deadThreadQueue[i] # joining
    /\ clear # "exit" => \A i, j \in 1..Len(deadThreadQueue) :
           i # j => deadThreadQueue[i] # deadThreadQueue[j]

(* cc:40 never assigns over the entry of another thread although the id of   *)
(* a joined thread may be reused before the reaper erases it (cc:104-105);   *)
(* assigning over a joinable std::thread ends the program.  (Entries that    *)
(* Stop has joined stay in threads_ and are not joinable.)                   *)
StopJoining == stopper \in {"joinWorkers", "returned"}
NoOverwrite == (fresh # NoThread /\ ThreadMutexFree /\ ~StopJoining)
                   => fresh \notin threads

(* When Stop has returned every worker ever created has been joined, by the  *)
(* reaper or by Stop, provided no call of addtask overlaps Stop or the pool  *)
(* cannot grow.                                                              *)
StopJoinsAll ==
    stopper = "returned" => \A t \in Thread : state[t] \in {"none", "joined"}

(* The inductive invariant behind the properties above, for any number of    *)
(* threads and tasks and every use of Stop.                                  *)

(* mutex_ is held at these control points and nowhere else.                  *)
MutexInv ==
    /\ \A t \in Thread : mutex = t <=> state[t] \in {"checked", "retire"}
    /\ \A k \in Task : mutex = k <=> call[k] = "grow"

(* A thread not yet registered belongs to an addtask that holds mutex_ and   *)
(* found room for it, so it cannot get past its first lock.                  *)
FreshInv ==
    /\ mutex \in Task => fresh # NoThread /\ currentThreadnum < maxThreadnum
    /\ fresh # NoThread =>
         mutex \in Task /\ state[fresh] \in {"top", "lock", "stopped", "joined"}

(* What a worker found under mutex_ stays true until it blocks or retires.   *)
RetireInv == \A t \in Thread :
    /\ state[t] \in {"checked", "retire"} => taskqueue = <<>>
    /\ state[t] = "retire" => currentThreadnum > minThreadnum

(* Threads that the reaper has still to join have ended; Stop joins after it.*)
DeadInv ==
    /\ clear # "exit" =>
         \A i \in 1..Len(deadThreadQueue) : state[deadThreadQueue[i]] = "dead"
    /\ clear = "join" => joining \in Thread /\ state[joining] = "dead"
    /\ clear = "erase" => joining \in Thread
                          /\ (state[joining] = "none" \/ joining = fresh)
    /\ StopJoining => clear = "exit"
    /\ stopper # "idle" => stop_

(* threads_ holds every thread but the fresh one, and nothing else but the   *)
(* entry being erased.                                                       *)
RegisteredInv ==
    /\ \A t \in Thread : state[t] # "none" /\ t # fresh => t \in threads
    /\ ~StopJoining => \A t \in threads :
         \/ state[t] # "none" /\ t # fresh
         \/ clear = "erase" /\ t = joining

(* A task is in the queue, being executed by one worker, executed, or still  *)
(* with its caller, and in one of these places only.                         *)
Running == {job[t] : t \in Thread} \ {NoTask}
TaskInv ==
    /\ \A t \in Thread : state[t] # "exec" => job[t] = NoTask
    /\ \A t, u \in Thread : job[t] = job[u] /\ job[t] # NoTask => t = u
    /\ \A i, j \in 1..Len(taskqueue) : i # j => taskqueue[i] # taskqueue[j]
    /\ \A i \in 1..Len(taskqueue) : taskqueue[i] \notin Running \cup ran
    /\ \A t \in Thread : job[t] \notin ran
    /\ \A k \in Task : call[k] \in {"new", "grow"} =>
          k \notin Running \cup ran /\ \A i \in 1..Len(taskqueue) : taskqueue[i] # k

IInv == /\ TypeOK /\ MutexInv /\ FreshInv /\ RetireInv /\ DeadInv
        /\ RegisteredInv /\ CountersExact /\ PoolBounds /\ NoStarvedTask
        /\ ReaperAsserts /\ NoOverwrite /\ TaskInv

(* When Stop joins the workers, those it has still to join are in toJoin,    *)
(* if no addtask can be creating one (for StopJoinsAll, not part of IInv).   *)
JoinInv ==
    /\ StopUse = "never" => stopper = "idle"
    /\ StopUse = "quiescent" /\ stopper # "idle" =>
         \A k \in Task : call[k] \in {"new", "returned"}
    /\ StopJoining => \A t \in Thread :
         state[t] \in {"none", "joined"} \/ t \in toJoin
    /\ stopper = "returned" => toJoin = {}

(* The pool implements the abstract one: first in first out, at most once,   *)
(* at most maxThreadnum_ tasks at a time.                                    *)
Abstract == INSTANCE TaskPool WITH Width <- maxThreadnum, pending <- taskqueue,
                                   running <- Running, finished <- ran
ImplementsTaskPool == Abstract!Spec

(* Every task handed over is executed, by whatever workers come and go, as   *)
(* long as nobody stops the pool.                                            *)
QueuedTasksRun ==
    \A k \in Task : call[k] = "notify" ~> (k \in ran \/ stop_)

(* Retired threads are joined and forgotten unless the reaper has ended: the *)
(* three mutexes that the reaper, retiring workers and addtask nest never    *)
(* make them wait for one another for ever.                                  *)
SomeDead == \E t \in Thread : state[t] = "dead"
ReaperProgress == SomeDead ~> (~SomeDead \/ clear = "exit")

(* Stop returns, or it waits for a reaper that went to sleep just after      *)
(* Stop's notification: every worker leaves, asleep or not.                  *)
StopEndsOrReaperSleeps ==
    stopper = "set" ~> (stopper = "returned" \/ (stopper = "notified" /\ clear = "wait"))
=============================================================================
