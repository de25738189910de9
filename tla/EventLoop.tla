------------------------------ MODULE EventLoop ------------------------------
(***************************************************************************)
(* src/net/EventLoop.cc with src/net/Epoll.cc: one thread sits in run(),    *)
(* waits in epoll_wait and handles the channels reported to it one after    *)
(* the other; other threads hand it work with queueinloop() and end it with *)
(* stop().  The hand-over is a queue under mutex_ and an eventfd: a caller  *)
(* pushes, then writes the eventfd; the loop reads the eventfd, then drains *)
(* the queue with mutex_ held, running each task there.                     *)
(*                                                                          *)
(* What a connection does in a callback is the business of another module:  *)
(* here a connection is a channel that becomes ready and is handled.        *)
(* epoll_wait is given -1, so the timeout branch of run() is never taken.   *)
(***************************************************************************)
EXTENDS Naturals, Sequences, FiniteSets

CONSTANTS
    Task,       \* what is handed to queueinloop, each by a thread of its own
    Conn,       \* the channels of connections (or of the acceptor)
    Wake,       \* wakechannel_
    Timer,      \* timerchannel_
    NoTask,     \* the loop thread is not running a queued task
    StopUsed    \* whether some thread calls stop()

ASSUME EventLoopAssumption ==
    /\ IsFiniteSet(Conn)
    /\ Wake \notin Conn \cup {Timer}
    /\ Timer \notin Conn
    /\ NoTask \notin Task
    /\ StopUsed \in BOOLEAN

VARIABLES
    stop_,          \* the flag of EventLoop.h:48
    taskqueue_,     \* what queueinloop pushed and the loop did not pop
    mutex_,         \* "loop" while handlewakeup drains, else "free"
    wakeupfd_,      \* the count the eventfd holds
    ready,          \* the other channels epoll_wait would report
    loop,           \* where the loop thread is
    rchannels,      \* the reported channels not handled yet
    fn,             \* the queued task the loop thread is running
    call,           \* where the call queueinloop(t) is
    stopper,        \* where the call stop() is
    ran             \* the tasks that have returned

vars == <<stop_, taskqueue_, mutex_, wakeupfd_, ready, loop, rchannels, fn,
          call, stopper, ran>>

loopFrame == <<loop, rchannels, fn, ran>>

Others == Conn \cup {Timer}
Channels == Others \cup {Wake}
LoopStates == {"idle", "test", "wait", "dispatch", "lock", "drain", "exit"}

Queued == {taskqueue_[i] : i \in 1..Len(taskqueue_)}
Running == {fn} \ {NoTask}

(* The constructor, EventLoop.cc:16-34.  run() is called later, by a thread *)
(* of the IO pool or by the main thread.                                    *)
Init ==
    /\ stop_ = FALSE
    /\ taskqueue_ = <<>>
    /\ mutex_ = "free"
    /\ wakeupfd_ = 0
    /\ ready = {}
    /\ loop = "idle"
    /\ rchannels = <<>>
    /\ fn = NoTask
    /\ call = [t \in Task |-> "none"]
    /\ stopper = "none"
    /\ ran = {}

-----------------------------------------------------------------------------
(* The callers.                                                             *)

(* Mutant: wakeup() writes nothing.                                         *)
Written_Nothing == wakeupfd_

(* The write of wakeup(), EventLoop.cc:101-105: it adds one to the eventfd. *)
Written == wakeupfd_ + 1

(* queueinloop, EventLoop.cc:93-96: the push, with mutex_ held.             *)
Push(t) ==
    /\ call[t] = "none"
    /\ mutex_ = "free"
    /\ taskqueue_' = Append(taskqueue_, t)
    /\ call' = [call EXCEPT ![t] = "pushed"]
    /\ UNCHANGED <<stop_, mutex_, wakeupfd_, ready, loopFrame, stopper>>

(* queueinloop, EventLoop.cc:98: the lock is released, the eventfd written. *)
Wakeup(t) ==
    /\ call[t] = "pushed"
    /\ wakeupfd_' = Written
    /\ call' = [call EXCEPT ![t] = "returned"]
    /\ UNCHANGED <<stop_, taskqueue_, mutex_, ready, loopFrame, stopper>>

(* stop, EventLoop.cc:62.                                                   *)
StopSet ==
    /\ StopUsed
    /\ stopper = "none"
    /\ stop_' = TRUE
    /\ stopper' = "set"
    /\ UNCHANGED <<taskqueue_, mutex_, wakeupfd_, ready, loopFrame, call>>

(* stop, EventLoop.cc:63.                                                   *)
StopWakeup ==
    /\ stopper = "set"
    /\ wakeupfd_' = Written
    /\ stopper' = "returned"
    /\ UNCHANGED <<stop_, taskqueue_, mutex_, ready, loopFrame, call>>

(* A connection has an event, or the armed timer expires.                   *)
BecomeReady(c) ==
    /\ c \in Others \ ready
    /\ ready' = ready \cup {c}
    /\ UNCHANGED <<stop_, taskqueue_, mutex_, wakeupfd_, loopFrame, call, stopper>>

-----------------------------------------------------------------------------
(* The loop thread.                                                         *)

(* run is called, EventLoop.cc:43.                                          *)
RunStart ==
    /\ loop = "idle"
    /\ loop' = "test"
    /\ UNCHANGED <<stop_, taskqueue_, mutex_, wakeupfd_, ready, rchannels, fn,
                   call, stopper, ran>>

(* The condition of the while, EventLoop.cc:44.                             *)
LoopTest ==
    /\ loop = "test"
    /\ loop' = IF stop_ THEN "exit" ELSE "wait"
    /\ UNCHANGED <<stop_, taskqueue_, mutex_, wakeupfd_, ready, rchannels, fn,
                   call, stopper, ran>>

(* What epoll_wait has to report: the eventfd is readable while its count   *)
(* is not zero (the channel is level triggered).                            *)
Reported == ready \cup (IF wakeupfd_ > 0 THEN {Wake} ELSE {})

(* The orders in which epoll_wait may report the channels of S.             *)
Orders(S) ==
    {s \in [1..Cardinality(S) -> S] : \A i, j \in DOMAIN s : s[i] = s[j] => i = j}

(* Epoll::loop, Epoll.cc:42-64: blocks until something is ready, returns    *)
(* all of it (there are fewer channels than MaxEvents).                     *)
EpollWait ==
    /\ loop = "wait"
    /\ Reported # {}
    /\ rchannels' \in Orders(Reported)
    /\ loop' = "dispatch"
    /\ UNCHANGED <<stop_, taskqueue_, mutex_, wakeupfd_, ready, fn, call,
                   stopper, ran>>

(* Mutant: the eventfd is read after the drain as well.                     *)
DispatchEnd_ReadLate ==
    /\ loop = "dispatch"
    /\ rchannels = <<>>
    /\ loop' = "test"
    /\ wakeupfd_' = 0
    /\ UNCHANGED <<stop_, taskqueue_, mutex_, ready, rchannels, fn, call,
                   stopper, ran>>

(* The end of the for over rchannels, EventLoop.cc:51-54.                   *)
DispatchEnd ==
    /\ loop = "dispatch"
    /\ rchannels = <<>>
    /\ loop' = "test"
    /\ UNCHANGED <<stop_, taskqueue_, mutex_, wakeupfd_, ready, rchannels, fn,
                   call, stopper, ran>>

(* handleevent of a connection, which consumes its event, or of the timer,  *)
(* whose handler arms it again (EventLoop.cc:125-129).                      *)
HandleOther ==
    /\ loop = "dispatch"
    /\ rchannels # <<>>
    /\ Head(rchannels) # Wake
    /\ ready' = ready \ {Head(rchannels)}
    /\ rchannels' = Tail(rchannels)
    /\ UNCHANGED <<stop_, taskqueue_, mutex_, wakeupfd_, loop, fn, call,
                   stopper, ran>>

(* handleevent of wakechannel_: handlewakeup reads the eventfd, which sets  *)
(* its count to zero, EventLoop.cc:109-110.                                 *)
ReadWakeup ==
    /\ loop = "dispatch"
    /\ rchannels # <<>>
    /\ Head(rchannels) = Wake
    /\ wakeupfd_' = 0
    /\ loop' = "lock"
    /\ UNCHANGED <<stop_, taskqueue_, mutex_, ready, rchannels, fn, call,
                   stopper, ran>>

(* handlewakeup takes mutex_, EventLoop.cc:113.                             *)
LockQueue ==
    /\ loop = "lock"
    /\ mutex_ = "free"
    /\ mutex_' = "loop"
    /\ loop' = "drain"
    /\ UNCHANGED <<stop_, taskqueue_, wakeupfd_, ready, rchannels, fn, call,
                   stopper, ran>>

(* Mutant: the task is called and stays in the queue.                       *)
PopTask_Peek ==
    /\ loop = "drain"
    /\ fn = NoTask
    /\ taskqueue_ # <<>>
    /\ fn' = Head(taskqueue_)
    /\ UNCHANGED <<stop_, taskqueue_, mutex_, wakeupfd_, ready, loop, rchannels,
                   call, stopper, ran>>

(* Mutant: newest first.                                                    *)
PopTask_Newest ==
    /\ loop = "drain"
    /\ fn = NoTask
    /\ taskqueue_ # <<>>
    /\ fn' = taskqueue_[Len(taskqueue_)]
    /\ taskqueue_' = SubSeq(taskqueue_, 1, Len(taskqueue_) - 1)
    /\ UNCHANGED <<stop_, mutex_, wakeupfd_, ready, loop, rchannels, call,
                   stopper, ran>>

(* handlewakeup pops the oldest task and calls it, EventLoop.cc:114-118.    *)
PopTask ==
    /\ loop = "drain"
    /\ fn = NoTask
    /\ taskqueue_ # <<>>
    /\ fn' = Head(taskqueue_)
    /\ taskqueue_' = Tail(taskqueue_)
    /\ UNCHANGED <<stop_, mutex_, wakeupfd_, ready, loop, rchannels, call,
                   stopper, ran>>

(* The task returns to the while of EventLoop.cc:114.                       *)
TaskReturns ==
    /\ fn # NoTask
    /\ ran' = ran \cup {fn}
    /\ fn' = NoTask
    /\ UNCHANGED <<stop_, taskqueue_, mutex_, wakeupfd_, ready, loop, rchannels,
                   call, stopper>>

(* The queue is empty: handlewakeup releases mutex_ and returns, and run    *)
(* goes on to the next channel, EventLoop.cc:120-121.                       *)
Drained ==
    /\ loop = "drain"
    /\ fn = NoTask
    /\ taskqueue_ = <<>>
    /\ mutex_' = "free"
    /\ rchannels' = Tail(rchannels)
    /\ loop' = "dispatch"
    /\ UNCHANGED <<stop_, taskqueue_, wakeupfd_, ready, fn, call, stopper, ran>>

LoopStep ==
    \/ RunStart \/ LoopTest \/ EpollWait \/ DispatchEnd \/ HandleOther
    \/ ReadWakeup \/ LockQueue \/ PopTask \/ TaskReturns \/ Drained

Next ==
    \/ LoopStep
    \/ \E t \in Task : Push(t) \/ Wakeup(t)
    \/ StopSet \/ StopWakeup
    \/ \E c \in Others : BecomeReady(c)

Spec == Init /\ [][Next]_vars

(* Threads that can run do run: the loop thread, and a caller between its   *)
(* push (or the store of stop_) and its write of the eventfd.  Nobody has   *)
(* to call, and no channel has to become ready.                             *)
FairSpec ==
    /\ Spec
    /\ WF_vars(LoopStep)
    /\ \A t \in Task : WF_vars(Wakeup(t))
    /\ WF_vars(StopWakeup)

-----------------------------------------------------------------------------
(* Properties.                                                              *)

(* The types, and where the loop thread may be while it runs a task.        *)
TypeOK ==
    /\ stop_ \in BOOLEAN
    /\ taskqueue_ \in Seq(Task)
    /\ mutex_ \in {"free", "loop"}
    /\ wakeupfd_ \in Nat
    /\ ready \subseteq Others
    /\ loop \in LoopStates
    /\ rchannels \in Seq(Channels)
    /\ fn \in Task \cup {NoTask}
    /\ call \in [Task -> {"none", "pushed", "returned"}]
    /\ stopper \in {"none", "set", "returned"}
    /\ ran \subseteq Task

(* Somebody between its push or its store of stop_ and the write of the     *)
(* eventfd: the wakeup is on its way.                                       *)
WakeupOnItsWay == stopper = "set" \/ \E t \in Task : call[t] = "pushed"

(* No lost wakeup (queueinloop 91-99 against handlewakeup 107-121): a       *)
(* queued task is announced by the eventfd, or its announcement is on the   *)
(* way, or the loop is between its read of the eventfd and its drain.       *)
NoLostWakeup ==
    taskqueue_ # <<>> =>
        wakeupfd_ > 0 \/ WakeupOnItsWay \/ loop \in {"lock", "drain"}

(* stop (60-64) against run (44-46): a loop that tested stop_ before it was *)
(* set and is in epoll_wait has been or is being woken.                     *)
StopWakesTheLoop ==
    stop_ /\ loop = "wait" => wakeupfd_ > 0 \/ stopper = "set"

(* The callers that pushed, and only they, have a task in the queue, in     *)
(* execution or executed: none is lost by the drain and none runs twice.    *)
TasksAccountedFor ==
    /\ \A t \in Task : call[t] # "none" <=> t \in Queued \cup Running \cup ran
    /\ \A i, j \in 1..Len(taskqueue_) : taskqueue_[i] = taskqueue_[j] => i = j
    /\ Running \cap Queued = {}
    /\ ran \cap (Queued \cup Running) = {}

(* The loop thread executes tasks with mutex_ held and only in handlewakeup,*)
(* and what it is still to handle of a batch starts with the wake channel   *)
(* while it is in handlewakeup.                                             *)
LoopInv ==
    /\ mutex_ = "loop" <=> loop = "drain"
    /\ fn # NoTask => loop = "drain"
    /\ loop \in {"lock", "drain"} => rchannels # <<>>
    /\ stop_ <=> stopper # "none"

IInv ==
    /\ TypeOK
    /\ LoopInv
    /\ NoLostWakeup
    /\ StopWakesTheLoop
    /\ TasksAccountedFor

(* A loop is a task pool one task wide: it executes what it is given one by *)
(* one, in the order of the pushes, each once (TaskPool.tla).               *)
Abstract == INSTANCE TaskPool WITH
    Width <- 1, pending <- taskqueue_, running <- Running, finished <- ran
ImplementsTaskPool == Abstract!Spec

(* Every task handed to queueinloop is executed, unless run() returned: the *)
(* loop tests stop_ before it waits, so a stop leaves the rest queued.      *)
QueuedTasksRun ==
    \A t \in Task : call[t] # "none" ~> t \in ran \/ loop = "exit"

(* stop() makes run() return, whenever it is called, also when the loop is  *)
(* in epoll_wait with nothing to report or has not been started yet.        *)
StopEndsRun == stop_ ~> loop = "exit"

=============================================================================
