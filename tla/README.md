# MY-RPC in TLA+

Specifications, model-checking configurations and proofs for MY-RPC, an RPC
framework in C++11: a multi-reactor TCP server with a worker pool, a growing
thread pool, a double-buffered asynchronous logger, the TinyPB frame format,
a client channel and a ZooKeeper registry with a distributed read-write lock.

Paths in the modules are those of the repository (`src/net/...` is the
directory `src/net` of the repository; a bare `cc:35` means line 35 of the file
the module names at its head).

1. [The system](#1-the-system)
2. [Plan](#2-plan)
3. [The modules](#3-the-modules)
4. [The runs](#4-the-runs)
5. [Fairness](#5-fairness)
6. [What is proved](#6-what-is-proved)
7. [What the checks found](#7-what-the-checks-found)
8. [What is not modelled](#8-what-is-not-modelled)

## 1. The system

How a request travels: the **main event loop** accepts a connection and gives
it to the **sub-loop** `fd % threadnum`, which runs on a thread of the **IO
pool**. The sub-loop reads the request and queues a task on the **worker pool**;
a worker **decodes** it, **dispatches** it to a protobuf service, encodes the
answer and calls `Connection::send`, which queues `sendinloop` on the sub-loop
and wakes it through an eventfd; the sub-loop writes. Everything logs through
the **asynchronous logger**, from any thread. At start the server registers its
methods with **ZooKeeper**; the **client channel** looks them up there and calls.

| Component | State | Operations | Interacts with | Hard behaviours | Correct when |
|---|---|---|---|---|---|
| Thread pool (`common/ThreadPoll`) | queue, `threads_`, `deadThreadQueue_`, idle and current counters, `stop_` | `addtask` (may grow the pool), `Threadwork` (waits 10 s, may retire), `clearDeadThread` (the reaper), `Stop` | IO pool runs the loops, worker pool runs `OnMessage` | three mutexes, a counter changed outside its mutex, notifications outside the mutex, reused thread ids, stop against everything | bounds kept, counters exact, each task started once and in order, no task without somebody to wake for it, reaper's asserts hold, stop joins all |
| Asynchronous logger (`common/asynclog`, `Buffer`) | current and spare buffer, list of full ones, the loop's own two | `append`, `AsyncLoggerLoop`, `start`, `stop` | all threads append | swapping buffers under load, lines that do not fit, trimming, failed writes, the start handshake | asserts hold, no overflow, order kept, nothing lost but where the code says so, every line reaches the file |
| Event loop (`net/EventLoop`, `Epoll`) | task queue, eventfd, timerfd, `stop_`, `conns_` | `run`, `queueinloop`, `wakeup`, `handlewakeup`, `handletimer`, `stop` | workers queue, main thread inserts connections | push and wakeup are two steps, read and drain are two steps, stop against wait | no lost wakeup, tasks in order and once, stop ends `run` |
| Server and connections (`net/TcpServer`, `Connection`, `Channel`, `Acceptor`) | two maps by descriptor, buffers, epoll registration, `disconnect_` | accept, read, write, close, purge, `send` | main thread, IO thread, workers share a connection | lifetime by `shared_ptr` against raw pointers in epoll and in queued calls, descriptor reuse, half-built connections, edge triggering | no stale map entry, nothing gone is touched, replies written, closed connections forgotten |
| Sockets, addresses, timestamps, error codes | none worth a model | wrappers, conversions | | | |
| RPC server and dispatcher (`server/Rpc/rpc_server`, `rpc_dispatcher`, `rpc_closure`, ...) | service map | `HandleMessage`, `OnMessage`, `dispatch`, `Start`, `Stop` | connections, worker pool, registry | stop of the workers before the loops, error paths before the id is copied, concurrent replies on one connection | one reply per request, with its id |
| RPC client channel (`rpc_channel`) | socket, address | `Init`, `CallMethod` | server over TCP, registry | one `recv` per answer, no comparison of ids, no reconnection, the wrong server | a call is executed at most once and comes back; its response is its own or an error's |
| TinyPB coder (`coder/`) | none | `encode`, `decode` | server and channel | lengths found in the data, partial frames, error branches of the scan | decode of encode is the identity; the scan ends and stays inside the buffer |
| Message ids (`common/msg_id_util`) | per-thread counter string | `GenMsgID` | channel | carry, roll-over, the second round | ids of a round count up; the index stays in the string |
| Registry (`common/zookeeperutil`, `RPCServer::Start`) | session, nodes | `Start`, `Create`, `GetData` | channel, lock | ephemeral node of an old session, a lost session | a running server is registered |
| Distributed read-write lock (`common/DistributedReadWriteLock`) | sequence nodes, watches | read/write lock and unlock | registry | list and watch are two steps, crashed holders | a writer excludes all; waiters proceed |
| Logging front end (`common/log`) | global pointer | `Init`, `GetGloballLogger`, `log` | logger | lazy creation outside the mutex | one logger |
| Configuration (`common/config`) | values | read once | | | |

`PROJECT.json` lists every component with its status, and under `hazards` each
place where this code is hard to test, with the properties that watch it.

## 2. Plan

| Order | Module | Subject | State |
|---|---|---|---|
| 1 | `TaskPool` | abstract: what an executor of tasks promises | done |
| 2 | `ThreadPoll`, `ThreadPollProofs` | the pool; implements `TaskPool` | done, proved |
| 3 | `Log`, `AsyncLogger` | abstract: a plain log; the asynchronous logger, which implements it | done, proved in `LoggerProofs` |
| 4 | `EventLoop`, `EventLoopProofs` | hand-over of tasks to a loop; implements `TaskPool` of width 1 | done, proved |
| 5 | `Connections`, `ConnectionsProofs` | lifetime of connections among three threads | done, proved |
| 6 | `ZkClient`, `Network`, `RpcServer`, `RpcChannel` | a process's registry handle, a channel's streams, the two ends of a call | done |
| 7 | `RpcService` | abstract: at most one execution per call | done |
| 8 | `RpcSystem`, `RpcSystemProofs` | servers, clients, registry, crashes and restarts together; implements `RpcService` | done, proved |
| 9 | `MsgIdUtil`, `TinyPBCoder`, `TinyPBCoderProofs` | ids and frames, over a stream cut anywhere | done, proved |
| 10 | `RWLock`, `RWLockProofs` | lock nodes, listing, sessions | done, proved |
| 11 | `Logger`, `LoggerProofs` | the global logger and log statements on top of `AsyncLogger` | done, proved |
| 12 | `SequenceLemmas` | induction, and what the folds and functions on sequences compute | done |

Every safety property the passing runs check is proved.

Which module uses which:

    TaskPool    <- ThreadPoll, EventLoop            (refinement)
    Log         <- AsyncLogger                      (refinement)
    AsyncLogger <- Logger                           (EXTENDS, and refinement)
    ZkClient <- Network <- RpcServer <- RpcChannel <- RpcSystem   (EXTENDS)
    RpcService  <- RpcSystem                        (refinement)
    MsgIdUtil   <- TinyPBCoder                      (EXTENDS)
    SequenceLemmas <- LoggerProofs, RpcSystemProofs, TinyPBCoderProofs   (EXTENDS)

## 3. The modules

Every model takes as one action what the code does without another thread being
able to see its middle: a critical section, or a single access outside one.

**`TaskPool`** has a queue, a set of running and a set of finished tasks;
`Submit`, `Start`, `Finish`. At most `Width` tasks run, oldest first, each once.

**`ThreadPoll`** (`common/ThreadPoll.{h,cc}`). `mutex` is the holder of
`mutex_`; `deadThreadQueueMutex` and `threadMutex_` are held at the reaper's
control points that `DeadMutexFree` and `ThreadMutexFree` name. `state[t]` is
the control point of worker `t`:

| `state` | code |
|---|---|
| `top` | at the loop test (54) |
| `lock`, `woken`, `expired` | waits for `mutex_`: first, after a notification, after the time-out of `wait_for` (58-61) |
| `checked`, `wait` | found the predicate false with `mutex_` held; blocked in `wait_for` (59) |
| `retire` | waits for `deadThreadQueueMutex` with `mutex_` held (68-76) |
| `exec` | runs its task (84-86) |
| `dead`, `stopped`, `joined`, `none` | retired and queued for the reaper, left because of `stop_`, joined by `Stop`, not there |

`call[k]` is the control
point of the caller of `addtask(k)`: `GrowCreate` makes the thread (36-37),
`GrowRegister` puts it in `threads_` (38-47), `NotifyOne` is line 48, outside
the lock. `clear` is the reaper, `stopper` the owner. Thread ids are reused as
soon as a thread has been joined, which is what the nesting of the reaper's
mutexes is about. `clearThread` is declared before `stop_`, so its first test
reads any value: `Init` has both.

**`AsyncLogger`** (`common/asynclog.{h,cc}`, `common/Buffer.{h,cc}`). A buffer is
its capacity, its fill and its lines; a line is a value with a length.
`AppendToCurrent` and `AppendToNext` are the two branches of `append`,
`LoopSwap` the critical section 62-77, `LoopFlush` the trimming and writing
after it. The two buffers of the constructor are made with `maxBuffSize` before
it is initialised; `InitCaps` is what it may be.

**`Log`** is what remains of it for those who log: the lines recorded, those that
wait, the file, and the lines that are missing. `Accept` and `Refuse` are an append,
`Write` takes lines from the front of those that wait and puts a beginning of them
behind the file. `Waiting` of `AsyncLogger` is the contents of the loop's batch, the
full buffers and the current one, in this order.

**`EventLoop`** (`net/EventLoop.cc`, `net/Epoll.cc`). `Push`/`Wakeup` are the
halves of `queueinloop`, `StopSet`/`StopWakeup` those of `stop`;
`ReadWakeup`, `LockQueue`, `PopTask`, `TaskReturns`, `Drained` are
`handlewakeup`. `rchannels` is the batch that `epoll_wait` returned, in any order.

**`Connections`** (`net/TcpServer.cc`, `Connection.cc`, `Channel.cc`,
`EventLoop.cc`, `server/Rpc/rpc_server.cc`). Who has a `shared_ptr` to a
connection is said by `Alive`; the descriptor is in use as long as it is alive.
`main` steps through `newconnction`; the IO thread through `epoll_wait`, the
dispatch of a batch of `[ch, ev]`, the close (two erases), the drain of queued
`sendinloop` calls and the purge (two erases per connection); a worker through
the test of `disconnect_`, the queueing and the end of its task. `listed` is
epoll's ready list: a channel enters it by an edge or by `EPOLL_CTL_MOD` and
leaves it when it has been looked at, which is edge triggering. What a process
does not survive, or what has no defined effect, sets `fault`, and the model
stops there:

| `fault` | what happened |
|---|---|
| `nocallback` | an event before the callbacks are set (README.md:37 of the repository lists it as unsolved) |
| `dangling` | a channel of the batch, or a queued `sendinloop`, of a destroyed connection |
| `notinepoll` | `EPOLL_CTL_MOD` of a channel that the close removed: `exit(-1)` |
| `race` | insertion in `std::map` while the purge iterates without the mutex |
| `sigpipe` | a write after a reset |

Its `TypeOK`, map and pointer invariants hold up to and including the step that
sets a fault; its liveness properties say "or a fault".

**`Logger`** (`common/log.{h,cc}`) runs on top of `AsyncLogger`: what appends
there are the log statements of threads. `pc[t]` steps through a statement:
`get` (the test of `g_logger` outside the mutex), `lock`, `start` (`Init` with
the mutex held, which waits for the loop of `AsyncLogger`), `level`, `push`
(`pushlog`), `log` (printing, when synchronous logging is on). A statement whose
level test fails ends without a line; the test of the code lets through what the
level set is *not below*, and so does `TestLevel`.

**`MsgIdUtil`** (`common/msg_id_util.cc`) has the two `thread_local` strings;
the one of nines is its length. `Regenerate`, `Increment` and `Wrap` are what one
`GenMsgID` does when the id is used up, when some digit is no nine, and when all
are and the comparison does not see it: the second round compares the id with a
string twice its length, and the index wraps.

**`TinyPBCoder`** (`server/Rpc/coder/tinypb_coder.cc`) works on bytes, because
that is what can go wrong: `encodeTinyPB` lays out a frame, `Send` puts it in
the stream, `Receive` hands any part of the stream to `decode`, whose iterations
are `Finish`, `Skip` and `Take`. `Memory` is the buffer, its NUL and what lies
behind it, which the code may read as the rest of a length. Lengths are signed, as
`getInt32FromNetByte` returns them, and no message is put together from bytes that
are not there: where `decode` reads at an index outside the buffer (`Astray`),
copies more than an array holds (`Overrun`), or makes a string of negative length,
which throws, `pc` is `aborted` and nothing further is said. `Misled` is what the
bytes of a cut frame can do to `decode`: a start byte among them, be it the frame's
own or one of its payload (the number 515, or a text of
one letter beyond ASCII, whose length is 2), behind which the length leads out of the buffer or to an end byte.

**`ZkClient`** (`common/zookeeperutil.cc`): handles, sessions, nodes with their
owners. A session outlives its process until ZooKeeper notices. **`Network`**:
the two streams of a channel's connection; a frame is two pieces, so that any
reader can find it cut; `decode` returns the frames that are there whole, as
`TinyPBCoder` shows where it is not misled, and on a piece of a cut frame it may
not return (`MayHang`). **`RpcServer`**
(`rpc_server.cc`, `rpc_dispatcher.cc`): `phase[s]` is `zookeeper` (in
`ZkClient::Start`), `register` (creating the nodes `todo`), `serving`, `stopping`
(the pool is stopped, the loops are not) or `down`; `Exists` and `Create` are
the two requests of `ZkClient::Create`; `HandleMessage` (IO thread),
`OnMessage` (worker: decode, dispatch, encode) and `SendReplies` are the three
places where a message can wait for another thread, and `DropIdle` the purge, which
goes by age alone and spares no connection a worker is busy with. **`RpcChannel`**
(`rpc_channel.cc`): a lookup may find no node, an address, bytes read as more of its
port, or a host name, which ends the process (the model leaves open whether
`zookeeperip` is one); `pc[c]` is where
`CallMethod` is; `status` is what the caller can tell afterwards. A plain `return` leaves the caller without an error
and without an answer: `silent`. **`RpcSystem`** has all of them, with the faults
`MaxFaults` counts: crashes (also the ZooKeeper watcher's), sessions that time
out, idle connections that are closed, `Stop`. **`RpcService`** is what remains for a
caller: calls that begin, fail or come back, and handlers that run once or never.

**`RWLock`** (`common/DistributedReadWriteLock.{h,cc}`): nodes with kind, number
and owner; `CreateNode` and `List` are the start of `lock_read`/`lock_write`,
`Get` is the `zoo_get` that sets the watch. `ChildName` and `SelfName` are the
two forms of a name that the code compares.

## 4. The runs

| Run | Instance | States | Shows |
|---|---|---|---|
| `pool_safe` | 4 thread ids, 3 tasks, 1 to 3 workers, Stop after the last `addtask` returned | 91 359 | the inductive `IInv`, `CountersExact`, `NoStarvedTask`, `EveryTaskHasAWaker`, `ReaperAsserts`, `StopJoinsAll`, `ImplementsTaskPool` |
| `pool_live` | 2 ids, 2 tasks, 0 to 2 workers | 15 606 | `QueuedTasksRun`, `ReaperProgress`, `StopEndsOrReaperSleeps` |
| `log` | 2 threads, 3 lines (of length 1 and 2, and one whose level is not logged), level Info, synchronous logging on, capacity 2 (1 or 2 at first), at most 2 buffers written, writes that may fail, stop | 77 332 | `DoubleBufferAsserts`, `DroppedOnlyIfTooLong`, `NothingLostNothingReordered`, `OneLogger`, `PrintedInOrder`, `ImplementsLog`, `EveryLineWritten`, `StatementsEnd` |
| `loop` | 3 tasks, 1 connection, timer, one stop | 46 306 | `NoLostWakeup`, `TasksAccountedFor`, `ImplementsTaskPool`, `QueuedTasksRun`, `StopEndsRun` |
| `conn_safe` | 2 connections, 2 descriptors, 2 messages, symmetric | 2 941 401 | the inductive `IInv`, `ServerMapCovered`, `InsertFindsNoEntry`, `TouchedAreAlive` |
| `conn_live` | 1 connection, 2 messages | 88 599 | `ClosedConnectionsForgotten`, `RepliesWritten` |
| `conn_close` | 1 connection, 1 message | | refutes `RepliesOnlyToOpen` |
| `codec` | 2 frames, with starts, ends, a zero and a negative length among their bytes, every part of their stream; ids of 2 digits 0 and 1, 2 rounds | 176 996 | `TypeOK`, `FirstRoundStaysInString`, `WholeFramesDecoded`, `FramesInFrontDecoded`, `IdsCountUp`, `DecodeEndsUnlessMisled` |
| `decode_ends` | the same | | refutes `DecodeEnds` |
| `rpc` | 2 servers, one started twice, 1 client with 3 calls (A, A, B; only the second server has B), 1 fault | 649 732 | `TypeOK`, `AnswerIsOwnOrError`, `ServedMethodsAreFound`, `ImplementsRpcService`, `CallReturns` |
| `rpc_answer` | that of `rpc` without faults | | refutes `AnswerIsOwn` |
| `lock` | 2 processes, 3 threads, 3 nodes | | refutes `SmallestGetsTheLock` |

Why the bounds are enough. *Pool*: three tasks and at most three workers let two
callers grow the pool while a third worker retires, and the fourth id is needed
for a thread that is created while a dead one waits to be joined; with an id
joined early it is reused. The live run has a minimum of zero, so that every
worker may retire. *Logger*: the longer line fills a buffer of 2 and does not
fit into one of 1, so that it is kept, handed over at once or dropped; the loop's swap
falls before, between and after the two. The limit of 25 buffers is 2 here: with
buffers of 1 at first the longer line is in a third one and is trimmed. Two threads
suffice for the race to make the logger. *Loop*: three tasks let a push fall before, into and after one
drain. *Connections*: two connections on two descriptors are together in a
batch, in the purge, or follow each other on one descriptor; two messages are
merged into one, or answered by two workers, or leave a reply written in part.
*Codec*: a frame that is cut needs one before it and may have one behind it, so
two frames meet every case of a cut; the memory behind the buffer is zero or the
byte that ends a frame. The payload of a cut request makes `decode` abort and makes it
look at one byte for ever, depending on the cut. Whole frames among others, payloads that
hold frames and longer texts are the theorems'. Two binary digits carry, run out in the first round and
wrap in the second. *RPC*: a second run of a server meets the nodes of the first;
a second server is where a channel should go and does not; three calls let an
answer come one and two calls late; the two servers listen at ports of their own, so that
a lookup can be wrong about the server, and race for the nodes of A; one fault at any
moment is enough for every disjunct, and pairs of faults are left to the proofs. *Lock*: the finding needs
one node; three let readers and writers of one and of two processes meet.
Where a bound leaves out something, the theorems of section 6 do not.

Deadlock is not checked in runs where the system may rest: nobody has to call,
a stopped system stays stopped, a fault ends the process.

Symmetry is used only in runs that check invariants and step properties.

Every property of a passing run is violated by at least one mutant of the model:
the operators named `<Definition>_<Change>` change a mapped definition as a
plausible bug would (a missing notification, a pop that only peeks, a buffer not
cleared); `PROJECT.json` says which mutant refutes which property.

## 5. Fairness

Weak fairness of the steps of threads that can run, and of nothing that depends
on somebody's wish: nobody has to call `addtask`, `append`, `queueinloop`,
`stop`, to log, to start a server, to connect, to call, to send, to crash or to
close. In particular

- pool: workers, callers inside `addtask`, the reaper and an owner inside `Stop`
  go on; `wait_for` ends by its time-out (10 s); spurious wakeups never have to
  happen. Mutexes are fair enough that a thread does not wait for ever while
  others pass: strong fairness is stated where the definition `Fairness` says so,
  and nowhere else.
- logger: the loop and the thread that joins it go on, the timed wait of the loop
  ends, and a thread inside a log statement goes on.
- loop: the loop thread, and a caller between its push and its write.
- connections: additionally the kernel gets room for output again (peers read),
  the timer expires, and a *closed* connection, on which nothing can be received,
  gets older than the time-out.
- codec: `decode` goes on.
- RPC: ZooKeeper lets a process connect, a server that has started registers, and
  while it is `serving` its IO threads and workers go on; a call goes on whenever
  it can. TCP delivers what was sent while both ends are there, in any pieces.
- lock: a thread inside a lock call goes on.

## 6. What is proved

All theorems are for any number of threads, tasks, lines, connections, servers,
clients and calls, and any values of the constants that satisfy the module's named
assumption.

- `ThreadPollProofs`: `IInvHolds` (`Spec => []IInv`) and from it `TypeCorrect`,
  `SizeBounded` (`PoolBounds`: the size stays between the minimum and the maximum),
  `CountersCorrect`, `NoTaskStarved`, `ReaperCorrect`, `EntriesKept` (`NoOverwrite`:
  no entry of `threads_` is replaced while its thread is to be joined),
  `NoLostWakeup`, `StopIsComplete`, `PoolImplementsTaskPool`. `CountersExact` is
  not inductive: which worker counts as idle depends on where it is between the
  wait, the retirement and the task, and the id of a worker that is being joined
  must not come back before its entry is erased. `IInv` adds who may hold which mutex at
  which control point (`MutexInv`), what is true of a thread between its
  creation and its registration (`FreshInv`), while it retires (`RetireInv`),
  after it ended (`DeadInv`, `RegisteredInv`), and where each task is (`TaskInv`).
- `LoggerProofs`, about the buffer: `TypeCorrect`, `AssertsHold`, `NoOverflow`,
  `DropsOnlyTooLong`, `OrderKept`, `LoggerImplementsLog`. The asserts hold because the loop's two buffers,
  the current and the spare one and the full ones together are always enough to give
  two empty ones back. For `OrderKept` the invariant is that the lines in the file,
  in the loop's batch, in the full buffers and in the current one, read in that
  order, are what was appended without what was dropped: each step moves a border
  between two of them. That no buffer overflows (`AvailNeverWraps`) is only proved,
  as it follows from a single test. `LoggerImplementsLog` goes step by step: an append
  is an `Accept` or a `Refuse` (`AppendToWaiting`), the swap changes nothing `Log` sees
  (`SwapKeepsWaiting`), and a flush is a `Write`, because the batch is `p \o q` with
  `p` written and `q` given up (`FlushTakesFront`, `FlushLoses`); that `q` is not
  among what is written before or later needs that no line is appended twice. About
  the front end: `LoggerImplementsAsyncLogger`, and with
  it `BufferCorrectUnderLogger` and `LogUnderLogger` (what is proved of the buffer
  holds under the log statements), `MadeOnce`, which rests on who holds `g_mutex` while the logger is
  made, and `PrintingCorrect`: the lines printed and those still in `m_buffer` are
  together the lines appended, and a line in `m_buffer` has a thread that has still
  to print.
- `EventLoopProofs`: `IInvHolds`, and from it `NoWakeupLost`, `StopSeen`,
  `NoTaskLost`, `LoopImplementsTaskPool`. The strengthening `LoopInv` ties
  `mutex_`, the running task and the head of the batch to the loop's control point.
- `ConnectionsProofs`: `IInvHolds`, and from it `TypeCorrect`,
  `NoOrphanInServerMap`, `DescriptorReuseSafe`, `NothingVanishes`. The key of the
  invariant is `FdInv`: two living connections never share a descriptor, and each
  map entry is at its connection's descriptor; so an erase by descriptor hits
  nobody else. It needs that no step but an accept gives a pointer to somebody
  without one (`NoneRevived`). `InsertInv` and `EraseInv` say what the main thread
  and the IO thread are in the middle of, `BatchInv` that the batch has no closed
  connection and no connection twice, `MsgInv` where a message came from, and
  `OpenInv` that a connection neither closed nor purged has a pointer in the
  loop's map or in `newconnction`. The theorem narrows the dangling pointers of
  this code down to two causes, close and purge; both do occur (the model's
  fault `dangling`).
- `RpcSystemProofs`, in three parts. `ServedMethodsFound`, from `RegInv`: a path of
  a server whose session lasts has been skipped, is still to do, or is there with
  the server's own data, which is where a lookup leads, to the server itself if the
  constructor agrees with the configuration (`config.cc:95` and `rpc_server.cc:4` do
  not see to that); nobody's node is ever replaced, because `Create` succeeds
  only where there is none, and a node goes only with its owner's session.
  `RpcImplementsService`, from `CallInv`: the head of a call's frame is at no more
  than one place among the client's stream and the chunks the workers have to take,
  at none before the call has sent (`Clean`) and at none after its handler ran.
  The steps are treated alike by showing that each only *moves* pieces: every piece
  after it was at a place of its own before (`Moved`), which is what the lemmas
  `HandledPlaces` and `TakenPlaces` establish of `SubSeq`, `Append` and `RemoveAt`;
  only a send adds a head (`SentPlaces`). `TypeCorrect` follows from both.
  `AnswersCorrect`, from `AInv`: as long as the calls of a channel have read their
  answers whole, its stream to the client holds at most the pieces of the present
  call's answer, in order, and a chunk a worker has to take at most its request
  (`Exchange`), so that `decode` of what `recv` returns is that answer or nothing
  (`FrameParts...`).
- `TinyPBCoderProofs`. Of the ids: `IndexStaysInString`, from the sizes the string of
  nines can have, and `IdsAreCounted`: the value of an id is a sum over its digits,
  and counting up one digit and clearing those behind it adds one, by induction over
  the digits behind it (`CarryCounts`). Of the frames: `TypeCorrect`, which says that
  what `decode` takes lies in the buffer, however it is cut, and `EncodedIsDecoded`:
  the frames that begin a buffer are decoded into the messages they were made of, for
  any number of messages of any bytes, whatever follows; if nothing follows, `decode`
  of `encode` is the identity. The
  argument: `FrameLayout` says where each field of a frame lies, `FrameInside` that it
  lies there as well when other frames are around it, `FrameIsRead` that `decode` finds
  and reads what lies there, and `CodecInv` that `decode` passes these frames one by
  one and stands behind one until it has passed them all, so that the first start byte
  it sees is that of the next frame and never one in a payload. Behind the last, its
  messages stay at the front of `out_messages`, whatever becomes of the rest.
  `WholeFramesFound` is about frames that arrive whole anywhere in the buffer. Its
  invariant `CutInv` says that behind the messages taken (`Decoded`) there is nothing but
  the frames still to take and pieces of cut ones (`Reached`), where nothing looks like
  a frame unless `decode` is `Misled`; so the next frame is the first it finds
  (`NextWhole`), and behind the last there is none (`NoMore`). Both need what
  `CodecAssumption` states: the sender's fields fit the arrays of `decode`, and texts
  hold no NUL.
- `RWLockProofs`: `TypeCorrect` and `LockNeverHeld`: no call of `lock_read` or
  `lock_write` ever returns, whoever calls and whenever sessions end. `IInv` adds
  that a thread that lists the children of a live session finds its own node there.

- `SequenceLemmas`: a set of numbers that holds 0 and with every number the next holds
  all of them, and the same for sequences that grow by one element. Both come from the
  library's well-foundedness of the naturals and are stated of sets, because the
  library's induction theorems take an operator. On them rest the lemmas about
  `FlattenSeq` (of a concatenation, of one more element), elements and repetitions.

Each proof has the shape: initial states satisfy the invariant; one step per
action; the theorem by `PTL`. The assumptions are those the modules name;
`IdAssumption` and `CodecAssumption` say how long an id is and that what is sent fits
its arrays and lengths.

Only model-checked: everything under fairness (`QueuedTasksRun`, `ReaperProgress`,
`StopEndsOrReaperSleeps`, `EveryLineWritten`, `StatementsEnd`, `StopEndsRun`,
`ClosedConnectionsForgotten`, `RepliesWritten`, `DecodeEndsUnlessMisled`, `CallReturns`),
because liveness and `ENABLED` are beyond the prover. What `decode` does when it is
misled (it aborts, or does not return, or takes payload bytes for a frame) no property
says more of than `FramesInFrontDecoded`: the messages in front are not affected.

## 7. What the checks found

| Run | Code | Disagreement |
|---|---|---|
| `conn_close` | `Connection.cc:132`, `Epoll.cc:26` | a reply to a connection that is being closed ends the server |
| `decode_ends` | `tinypb_coder.cc:49` | a buffer that ends in the length of a frame behind another one, or in a frame whose payload holds 3, 2 and four zeros: `decode` may look at the same byte for ever |
| `rpc_answer` | `rpc_channel.cc:120`, `rpc_dispatcher.cc:28` | a channel takes any frame for its answer; errors are answered without the call's id |
| `lock` | `DistributedReadWriteLock.cc:61` | the name of the own node has a slash too many; the lock is never acquired |

Smaller things met while modelling. The models have them as the code does; no
property claims otherwise.

- `ThreadPoll.cc:138`: `Stop` notifies the reaper without its mutex and may then
  join it for ever (`StopEndsOrReaperSleeps` says so); `ThreadPoll.cc:92`: the
  reaper may read `stop_` before it is initialised and end at once;
  `ThreadPoll.cc:54`: workers leave with tasks queued when the pool is stopped.
- `asynclog.cc:127`: `start` may miss its only notification (`StatementsEnd`).
- `log.h:30`: the level test is the wrong way round: the higher the level set,
  the more is logged.
- `tinypb_coder.cc:47-53`: a length that reads as negative lets `tmp[j]` be read in
  front of the buffer (`aborted` behind `Astray`); the payload of a cut frame is enough.
- `rpc_server.cc:4`: a server listens where the constructor's arguments say, but
  registers the port of the configuration; and `config.cc:95` takes the address it
  registers from `zookeeperip`, while the `<ip>` of `<server>` is used by nothing. So a
  server whose ZooKeeper runs on another host is not found by those who look its
  methods up, although `rpc_channel.cc:135` says "get the server's IP from ZooKeeper".
  `ServedMethodsAreFound` says a lookup leads to the server where the two agree.
- `zookeeperutil.cc:11`: the watcher uses a context that is set only after
  `zookeeper_init` has returned; `zookeeperutil.cc:88`: the data of a node is used
  without a NUL behind it.
- `zookeeperutil.cc:66`: a server restarted before its old session has ended finds
  its old nodes, creates none, and loses them with the old session (`skipped` in
  `ServedMethodsAreFound`).
- `rpc_channel.cc:95`: a call whose `connect` fails returns without an error.
- `msg_id_util.cc:28`: the string of nines grows with every round, so from the
  second on its comparison never succeeds, and the carry leaves the string.

## 8. What is not modelled

- What a task does (pool), what a line says and how it is formatted (logger), the
  content of a protobuf message (RPC).
- `Stop` of the pool overlapping a growing `addtask`: `Stop` then iterates
  `threads_` while it changes, which is undefined. The owner's use of `Stop`
  is the constant `StopUse`; the proofs cover all its values.
- `Connection::errorcallback` (needs an event neither readable nor writable) and
  the `EPOLLRDHUP` branch (no channel asks for it); more than one sub-loop (the
  maps of sub-loops are disjoint, the server's map is locked); a worker pool of
  size 0; `TcpServer::stop` as such (`RpcServer` has it as the end of serving).
- `GetGloballLogger` reads a plain pointer that another thread writes: the model
  gives the read the old or the new value, no third one.
- `Network.decode` assumes that no bytes inside a frame are a whole frame themselves
  (in `TinyPBCoder` they may be, which is a part of `Misled`). A read out of bounds or
  an exception of `decode` on a piece of a cut frame is one of the crashes of
  `ServerDies` and `ClientDies`, not tied to the piece, and its endless loop is
  `MayHang`. `AnswerIsOwnOrError` and
  `AnswersCorrect` rest on that assumption: bytes of a response that are a frame could
  be taken for another answer.
- `rpc_channel.cc:75-79` (a node whose data has no colon): servers always write one
  (`rpc_server.cc:40`), and nobody else writes nodes.
- What happens after `decode` has copied more than an array holds (the model stops
  there), and the inner details of `Buffer` (`pickmessage`, the separator): they
  belong to line-based connections; the RPC server reads and clears the whole buffer.
- `rpc_interface` and `rpc_closure` only forward, and nothing that is built into
  a call includes them; controller fields beyond failure and error.
- Two worker steps that `RpcServer` takes as one: decode, dispatch and encode of a
  chunk touch nothing another thread can see until the reply is sent.
- The lock's watcher: the one call that would set a watch is followed by `exit`.
- Echo and Http servers: not built. Sockets, addresses, timestamps: no behaviour
  that a model would add to. `config` is the constants of the modules that read it;
  its XML reading is not modelled.
