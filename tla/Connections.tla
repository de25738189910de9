---------------------------- MODULE Connections -----------------------------
(***************************************************************************)
(* The life of connections in a TcpServer (src/net/{TcpServer,Connection,   *)
(* Channel,Acceptor,Epoll,EventLoop}.cc) under an RPCServer with worker      *)
(* threads (src/server/Rpc/rpc_server.cc).                                   *)
(*                                                                           *)
(* Threads: the main thread, which accepts; the IO thread of one sub-loop,   *)
(* on which all connections of the model live (those of other loops share    *)
(* only the server's map with them); one worker per message.  Peers and the  *)
(* kernel are the environment.                                               *)
(*                                                                           *)
(* A Connection is destroyed, its descriptor closed and taken out of epoll,  *)
(* when the last shared_ptr to it goes: Alive says who has one.  Channels in *)
(* the batch of epoll_wait and queued calls of sendinloop have none.  When   *)
(* the program meets something it does not survive, or whose effect is not   *)
(* defined, fault says what and nothing happens any more.                    *)
(*                                                                           *)
(* Taken from EventLoop.tla: the loop runs queued tasks in order and is      *)
(* woken for them.  Not modelled: errorcallback, which needs an event        *)
(* without EPOLLIN and EPOLLOUT, and the branch for EPOLLRDHUP, which no      *)
(* channel asks for; stopping; a pool without workers.                       *)
(***************************************************************************)
EXTENDS Naturals, Sequences, FiniteSets

CONSTANTS
    Conn,          \* Connection objects
    Fd,            \* file descriptors, all of this sub-loop
    Msg,           \* what a peer sends at once
    Wake, Timer,   \* the other channels of the loop
    None           \* no connection, no descriptor

ASSUME ConnectionsAssumption ==
    /\ Wake \notin Conn \cup {Timer}
    /\ Timer \notin Conn
    /\ None \notin Conn \cup Fd

VARIABLES
    main,        \* where TcpServer::newconnction is
    newconn,     \* the connection the main thread is setting up
    fdOf,        \* the descriptor of each accepted connection
    callbacks,   \* connections whose callbacks are set
    server,      \* TcpServer::conns_
    conns,       \* EventLoop::conns_
    disconnect,  \* connections with disconnect_ = true
    registered,  \* connections whose channel is in epoll
    writing,     \* those of them that ask for EPOLLOUT
    listed,      \* edges: what epoll is to look at in the next epoll_wait
    inq,         \* received by the kernel and not read
    fin,         \* the peer has closed
    full,        \* the kernel takes no more output
    out,         \* outputbuffer_
    idle,        \* silent for longer than the timeout
    timerfd,     \* the timer has expired
    io,          \* where the IO thread is
    rchannels,   \* what epoll_wait reported and is still to be handled
    closing,     \* the connection being closed or purged
    todo,        \* descriptors the purge is still to erase
    taskqueue,   \* messages whose sendinloop is queued
    from,        \* the connection a message was sent on
    worker,      \* where the handling of a message is
    written,     \* messages whose reply has been written (history)
    purged,      \* connections the purge has taken out of the maps (history)
    fault        \* "none", or what ended the program

mainVars == <<main, newconn, fdOf, callbacks>>
mapVars  == <<server, conns>>
chanVars == <<disconnect, registered, writing, out>>
sockVars == <<listed, inq, fin, full>>
ioVars   == <<io, rchannels, closing, todo>>
workVars == <<taskqueue, from, worker>>
vars == <<mainVars, mapVars, chanVars, sockVars, ioVars, workVars, idle, timerfd,
          written, purged, fault>>

Held == {"task", "tested", "queued"}

(* Somebody has a shared_ptr to c: a map, newconnction, the close callback,  *)
(* or a task of the worker pool, to which it is bound (rpc_server.cc:82).    *)
Alive(c) ==
    \/ newconn = c \/ closing = c
    \/ \E f \in Fd : server[f] = c \/ conns[f] = c
    \/ \E m \in Msg : from[m] = c /\ worker[m] \in Held

Init ==
    /\ main = "accept" /\ newconn = None
    /\ fdOf = [c \in Conn |-> None]
    /\ callbacks = {}
    /\ server = [f \in Fd |-> None] /\ conns = [f \in Fd |-> None]
    /\ disconnect = {} /\ registered = {} /\ writing = {}
    /\ out = [c \in Conn |-> <<>>]
    /\ listed = {} /\ inq = [c \in Conn |-> {}] /\ fin = {} /\ full = {}
    /\ io = "wait" /\ rchannels = {} /\ closing = None /\ todo = {}
    /\ taskqueue = <<>>
    /\ from = [m \in Msg |-> None] /\ worker = [m \in Msg |-> "none"]
    /\ idle = {} /\ timerfd = FALSE /\ written = {} /\ purged = {}
    /\ fault = "none"

-----------------------------------------------------------------------------
(* The main thread.                                                          *)

(* Mutant: the descriptor is closed with the connection, not destroyed with  *)
(* it.                                                                       *)
FdsInUse_UntilClosed == {fdOf[c] : c \in {d \in Conn : Alive(d)} \ disconnect}

(* The descriptor is closed by ~Socket, Socket.cc:20-23.                     *)
FdsInUse == {fdOf[c] : c \in {d \in Conn : Alive(d)}}

(* Acceptor::newconnction, and the constructor of Connection, which enables  *)
(* reading at its end.                                                       *)
Accept(c, f) ==
    /\ fault = "none" /\ main = "accept"
    /\ fdOf[c] = None
    /\ f \in Fd \ FdsInUse
    /\ fdOf' = [fdOf EXCEPT ![c] = f]
    /\ newconn' = c
    /\ registered' = registered \cup {c}
    /\ listed' = listed \cup {c}
    /\ main' = "built"
    /\ UNCHANGED <<callbacks, mapVars, disconnect, writing, out, inq, fin, full,
                   ioVars, workVars, idle, timerfd, written, purged, fault>>

(* TcpServer.cc:66-71                                                        *)
SetCallbacks ==
    /\ fault = "none" /\ main = "built"
    /\ callbacks' = callbacks \cup {newconn}
    /\ main' = "ready"
    /\ UNCHANGED <<newconn, fdOf, mapVars, chanVars, sockVars, ioVars, workVars,
                   idle, timerfd, written, purged, fault>>

(* TcpServer.cc:72-75                                                        *)
InsertServer ==
    /\ fault = "none" /\ main = "ready"
    /\ server' = [server EXCEPT ![fdOf[newconn]] = newconn]
    /\ main' = "inserted"
    /\ UNCHANGED <<newconn, fdOf, callbacks, conns, chanVars, sockVars, ioVars,
                   workVars, idle, timerfd, written, purged, fault>>

(* TcpServer.cc:76-79.  The purge of the IO thread iterates the same map     *)
(* without its mutex.                                                        *)
InsertLoop ==
    /\ fault = "none" /\ main = "inserted"
    /\ conns' = [conns EXCEPT ![fdOf[newconn]] = newconn]
    /\ newconn' = None
    /\ main' = "accept"
    /\ fault' \in {"none"} \cup (IF io = "purge" THEN {"race"} ELSE {})
    /\ UNCHANGED <<fdOf, callbacks, server, chanVars, sockVars, ioVars, workVars,
                   idle, timerfd, written, purged>>

-----------------------------------------------------------------------------
(* The IO thread: epoll_wait and the dispatch of Channel::handleevent.       *)

Readable(c) == inq[c] # {} \/ c \in fin

(* What epoll_wait has to report.  A channel that is readable and writable   *)
(* is handled as readable only, Channel.cc:62-79.  Connections are edge      *)
(* triggered: one that was reported must be listed anew.                     *)
Reported ==
    LET polled == {c \in listed \cap registered : Alive(c)}
        isIn == {c \in polled : Readable(c)}
        isOut == {c \in polled \cap writing : ~Readable(c) /\ c \notin full}
    IN  {[ch |-> c, ev |-> "in"] : c \in isIn} \cup {[ch |-> c, ev |-> "out"] : c \in isOut}
        \cup (IF taskqueue # <<>> THEN {[ch |-> Wake, ev |-> "in"]} ELSE {})
        \cup (IF timerfd THEN {[ch |-> Timer, ev |-> "in"]} ELSE {})

EpollWait ==
    /\ fault = "none" /\ io = "wait"
    /\ Reported # {}
    /\ rchannels' = Reported
    /\ listed' = {}
    /\ io' = "dispatch"
    /\ UNCHANGED <<mainVars, mapVars, chanVars, inq, fin, full, closing, todo,
                   workVars, idle, timerfd, written, purged, fault>>

DispatchEnd ==
    /\ fault = "none" /\ io = "dispatch"
    /\ rchannels = {}
    /\ io' = "wait"
    /\ UNCHANGED <<mainVars, mapVars, chanVars, sockVars, rchannels, closing,
                   todo, workVars, idle, timerfd, written, purged, fault>>

(* Channel::handleevent is called for r.                                     *)
Handle(r) ==
    /\ fault = "none" /\ io = "dispatch"
    /\ r \in rchannels
    /\ rchannels' = rchannels \ {r}

(* The batch has a pointer to the channel of a connection that is gone.      *)
HandleGone(r) ==
    /\ Handle(r)
    /\ r.ch \in Conn
    /\ ~Alive(r.ch)
    /\ fault' = "dangling"
    /\ UNCHANGED <<mainVars, mapVars, chanVars, sockVars, io, closing, todo,
                   workVars, idle, timerfd, written, purged>>

HandleConn(r, ev) ==
    /\ Handle(r)
    /\ r.ch \in Conn
    /\ r.ev = ev
    /\ Alive(r.ch)

(* onmessagecallback up to EAGAIN: what was received becomes one message     *)
(* (pickmessage with sep_ 0), bound with the connection to a task of the     *)
(* worker pool.  The callback may not be set yet.                            *)
HandleMessage(r) ==
    /\ HandleConn(r, "in")
    /\ r.ch \notin fin
    /\ \E m \in inq[r.ch] :
            worker' = [n \in Msg |-> IF n = m THEN "task"
                                     ELSE IF n \in inq[r.ch] THEN "merged" ELSE worker[n]]
    /\ inq' = [inq EXCEPT ![r.ch] = {}]
    /\ idle' = idle \ {r.ch}
    /\ fault' = IF r.ch \in callbacks THEN "none" ELSE "nocallback"
    /\ UNCHANGED <<mainVars, mapVars, chanVars, listed, fin, full, io, closing,
                   todo, taskqueue, from, timerfd, written, purged>>

(* Mutant: disconnect_ is not set.                                           *)
Disconnected_Never(c) == disconnect

(* Connection.cc:40                                                          *)
Disconnected(c) == disconnect \cup {c}

(* onmessagecallback up to the end of file: what was read is not handled;    *)
(* closecallback up to the call of TcpServer::closeconnection.               *)
HandleClose(r) ==
    /\ HandleConn(r, "in")
    /\ r.ch \in fin
    /\ inq' = [inq EXCEPT ![r.ch] = {}]
    /\ disconnect' = Disconnected(r.ch)
    /\ registered' = registered \ {r.ch}
    /\ closing' = r.ch
    /\ io' = "closeLoop"
    /\ fault' = IF r.ch \in callbacks THEN "none" ELSE "nocallback"
    /\ UNCHANGED <<mainVars, mapVars, writing, out, listed, fin, full, todo,
                   workVars, idle, timerfd, written, purged>>

(* TcpServer.cc:45, EventLoop::closeconnection                               *)
CloseEraseLoop ==
    /\ fault = "none" /\ io = "closeLoop"
    /\ conns' = [conns EXCEPT ![fdOf[closing]] = None]
    /\ io' = "closeServer"
    /\ UNCHANGED <<mainVars, server, chanVars, sockVars, rchannels, closing,
                   todo, workVars, idle, timerfd, written, purged, fault>>

(* TcpServer.cc:46-49; then the callbacks return and with them the pointer.  *)
CloseEraseServer ==
    /\ fault = "none" /\ io = "closeServer"
    /\ server' = [server EXCEPT ![fdOf[closing]] = None]
    /\ closing' = None
    /\ io' = "dispatch"
    /\ UNCHANGED <<mainVars, conns, chanVars, sockVars, rchannels, todo,
                   workVars, idle, timerfd, written, purged, fault>>

(* writecallback: the kernel takes the first k replies (none if the peer is  *)
(* gone).  When the peer has answered an earlier reply with a reset, send    *)
(* raises SIGPIPE, which nothing ignores.                                    *)
HandleWrite(r) ==
    /\ HandleConn(r, "out")
    /\ LET c == r.ch IN
       \E k \in (IF c \in fin THEN 0 ELSE 1)..Len(out[c]) :
            /\ out' = [out EXCEPT ![c] = SubSeq(@, k + 1, Len(@))]
            /\ written' = written \cup {out[c][i] : i \in 1..k}
            /\ IF k = Len(out[c])
               THEN /\ writing' = writing \ {c}
                    /\ listed' = listed \cup {c}
                    /\ UNCHANGED full
               ELSE /\ full' = full \cup {c}
                    /\ UNCHANGED <<writing, listed>>
            /\ fault' \in {"none"} \cup (IF c \in fin THEN {"sigpipe"} ELSE {})
    /\ UNCHANGED <<mainVars, mapVars, disconnect, registered, inq, fin, io,
                   closing, todo, workVars, idle, timerfd, purged>>

-----------------------------------------------------------------------------
(* The IO thread: queued calls and the timer.                                *)

(* handlewakeup takes the mutex of the queue.                                *)
HandleWake(r) ==
    /\ Handle(r)
    /\ r.ch = Wake
    /\ io' = "drain"
    /\ UNCHANGED <<mainVars, mapVars, chanVars, sockVars, closing, todo,
                   workVars, idle, timerfd, written, purged, fault>>

(* Mutant: writing is enabled for the first reply only.                      *)
Rearmed_Once(c) == IF out[c] = <<>> THEN {c} ELSE {}

(* enablewriting modifies the channel in epoll, which looks at it again.     *)
Rearmed(c) == {c}

(* Connection::sendinloop for the oldest queued message.  The call has no    *)
(* shared_ptr; and enablewriting modifies the channel of a closed connection *)
(* that is no longer in epoll, which ends the process, Epoll.cc:26-30.       *)
SendInLoop ==
    /\ fault = "none" /\ io = "drain"
    /\ taskqueue # <<>>
    /\ LET m == Head(taskqueue)
           c == from[m]
       IN  IF Alive(c) /\ c \in registered
           THEN /\ out' = [out EXCEPT ![c] = Append(@, m)]
                /\ writing' = writing \cup {c}
                /\ listed' = listed \cup Rearmed(c)
                /\ UNCHANGED fault
           ELSE /\ fault' = IF Alive(c) THEN "notinepoll" ELSE "dangling"
                /\ UNCHANGED <<out, writing, listed>>
    /\ taskqueue' = Tail(taskqueue)
    /\ UNCHANGED <<mainVars, mapVars, disconnect, registered, inq, fin, full,
                   ioVars, from, worker, idle, timerfd, written, purged>>

DrainEnd ==
    /\ fault = "none" /\ io = "drain"
    /\ taskqueue = <<>>
    /\ io' = "dispatch"
    /\ UNCHANGED <<mainVars, mapVars, chanVars, sockVars, rchannels, closing,
                   todo, workVars, idle, timerfd, written, purged, fault>>

(* handletimer arms the timer again and starts to look for connections that  *)
(* timed out.                                                                *)
HandleTimer(r) ==
    /\ Handle(r)
    /\ r.ch = Timer
    /\ timerfd' = FALSE
    /\ todo' = {f \in Fd : conns[f] \in idle}
    /\ io' = "purge"
    /\ UNCHANGED <<mainVars, mapVars, chanVars, sockVars, closing, workVars,
                   idle, written, purged, fault>>

(* Mutant: the server is not told, or erases nothing.                        *)
PurgeServer_NotTold(f) ==
    /\ fault = "none" /\ io = "purge"
    /\ f \in todo
    /\ purged' = purged \cup {conns[f]}
    /\ closing' = conns[f]
    /\ io' = "purgeLoop"
    /\ UNCHANGED <<mainVars, mapVars, chanVars, sockVars, rchannels, todo,
                   workVars, idle, timerfd, written, fault>>

(* timeoutcallback_, TcpServer::removeconnection                             *)
PurgeServer(f) ==
    /\ fault = "none" /\ io = "purge"
    /\ f \in todo
    /\ server' = [server EXCEPT ![f] = None]
    /\ purged' = purged \cup {conns[f]}
    /\ closing' = conns[f]
    /\ io' = "purgeLoop"
    /\ UNCHANGED <<mainVars, conns, chanVars, sockVars, rchannels, todo,
                   workVars, idle, timerfd, written, fault>>

(* EventLoop.cc:141-142                                                      *)
PurgeLoop ==
    /\ fault = "none" /\ io = "purgeLoop"
    /\ conns' = [conns EXCEPT ![fdOf[closing]] = None]
    /\ todo' = todo \ {fdOf[closing]}
    /\ closing' = None
    /\ io' = "purge"
    /\ UNCHANGED <<mainVars, server, chanVars, sockVars, rchannels, workVars,
                   idle, timerfd, written, purged, fault>>

PurgeEnd ==
    /\ fault = "none" /\ io = "purge"
    /\ todo = {}
    /\ io' = "dispatch"
    /\ UNCHANGED <<mainVars, mapVars, chanVars, sockVars, rchannels, closing,
                   todo, workVars, idle, timerfd, written, purged, fault>>

-----------------------------------------------------------------------------
(* The workers: RPCServer::OnMessage for message m, which has been decoded   *)
(* and answered, up to its end, where the task drops its shared_ptr.         *)

(* Connection.cc:121: nothing is sent on a closed connection.                *)
TestDisconnect(m) ==
    /\ fault = "none" /\ worker[m] = "task"
    /\ worker' = [worker EXCEPT ![m] = IF from[m] \in disconnect THEN "done" ELSE "tested"]
    /\ UNCHANGED <<mainVars, mapVars, chanVars, sockVars, ioVars, taskqueue,
                   from, idle, timerfd, written, purged, fault>>

(* Connection.cc:132: queueinloop, whose mutex is held during a drain.       *)
QueueSend(m) ==
    /\ fault = "none" /\ worker[m] = "tested"
    /\ io # "drain"
    /\ taskqueue' = Append(taskqueue, m)
    /\ worker' = [worker EXCEPT ![m] = "queued"]
    /\ UNCHANGED <<mainVars, mapVars, chanVars, sockVars, ioVars, from, idle,
                   timerfd, written, purged, fault>>

DropTask(m) ==
    /\ fault = "none" /\ worker[m] = "queued"
    /\ worker' = [worker EXCEPT ![m] = "done"]
    /\ UNCHANGED <<mainVars, mapVars, chanVars, sockVars, ioVars, taskqueue,
                   from, idle, timerfd, written, purged, fault>>

-----------------------------------------------------------------------------
(* The environment: peers, the kernel and the clock.                         *)

PeerSend(m, c) ==
    /\ fault = "none" /\ Alive(c) /\ c \notin fin
    /\ from[m] = None
    /\ from' = [from EXCEPT ![m] = c]
    /\ inq' = [inq EXCEPT ![c] = @ \cup {m}]
    /\ listed' = listed \cup {c}
    /\ UNCHANGED <<mainVars, mapVars, chanVars, fin, full, ioVars, taskqueue,
                   worker, idle, timerfd, written, purged, fault>>

PeerClose(c) ==
    /\ fault = "none" /\ Alive(c) /\ c \notin fin
    /\ fin' = fin \cup {c}
    /\ listed' = listed \cup {c}
    /\ UNCHANGED <<mainVars, mapVars, chanVars, inq, full, ioVars, workVars,
                   idle, timerfd, written, purged, fault>>

(* The kernel has room for output again.                                     *)
WriteSpace(c) ==
    /\ fault = "none" /\ c \in full /\ Alive(c)
    /\ full' = full \ {c}
    /\ listed' = listed \cup {c}
    /\ UNCHANGED <<mainVars, mapVars, chanVars, inq, fin, ioVars, workVars,
                   idle, timerfd, written, purged, fault>>

(* Nothing was received for longer than timeout_ on a connection in conns_.  *)
TimesOut(c) ==
    /\ fault = "none" /\ c \notin idle
    /\ \E f \in Fd : conns[f] = c
    /\ idle' = idle \cup {c}
    /\ UNCHANGED <<mainVars, mapVars, chanVars, sockVars, ioVars, workVars,
                   timerfd, written, purged, fault>>

TimerExpires ==
    /\ fault = "none" /\ ~timerfd
    /\ timerfd' = TRUE
    /\ UNCHANGED <<mainVars, mapVars, chanVars, sockVars, ioVars, workVars,
                   idle, written, purged, fault>>

-----------------------------------------------------------------------------
SetUp == SetCallbacks \/ InsertServer \/ InsertLoop

HandleEvent(r) ==
    \/ HandleGone(r) \/ HandleMessage(r) \/ HandleClose(r) \/ HandleWrite(r)
    \/ HandleWake(r) \/ HandleTimer(r)

LoopStep ==
    \/ EpollWait \/ DispatchEnd
    \/ \E r \in rchannels : HandleEvent(r)
    \/ CloseEraseLoop \/ CloseEraseServer
    \/ SendInLoop \/ DrainEnd
    \/ \E f \in Fd : PurgeServer(f)
    \/ PurgeLoop \/ PurgeEnd

OnMessage(m) == TestDisconnect(m) \/ QueueSend(m) \/ DropTask(m)

Next ==
    \/ \E c \in Conn, f \in Fd : Accept(c, f)
    \/ SetUp
    \/ LoopStep
    \/ \E m \in Msg : OnMessage(m)
    \/ \E m \in Msg, c \in Conn : PeerSend(m, c)
    \/ \E c \in Conn : PeerClose(c) \/ WriteSpace(c) \/ TimesOut(c)
    \/ TimerExpires

Spec == Init /\ [][Next]_vars

(* Threads that can run do run; a pool has a worker for every task in the    *)
(* end (ThreadPoll.tla); peers read what is written to them; the clock goes  *)
(* on, so a closed connection, on which nothing is received, times out.      *)
(* Nobody has to connect, to send or to close.                               *)
FairSpec ==
    /\ Spec
    /\ WF_vars(SetUp)
    /\ WF_vars(LoopStep)
    /\ \A m \in Msg : WF_vars(OnMessage(m))
    /\ \A c \in Conn : WF_vars(WriteSpace(c))
    /\ \A c \in Conn : WF_vars(c \in disconnect /\ TimesOut(c))
    /\ WF_vars(TimerExpires)

-----------------------------------------------------------------------------
(* Properties.                                                               *)

Faults == {"none", "nocallback", "dangling", "notinepoll", "race", "sigpipe"}

(* The types, and when a connection is being closed or set up.               *)
TypeOK ==
    /\ main \in {"accept", "built", "ready", "inserted"}
    /\ newconn \in Conn \cup {None}
    /\ main = "accept" <=> newconn = None
    /\ fdOf \in [Conn -> Fd \cup {None}]
    /\ callbacks \subseteq Conn
    /\ server \in [Fd -> Conn \cup {None}]
    /\ conns \in [Fd -> Conn \cup {None}]
    /\ disconnect \subseteq Conn
    /\ registered \subseteq Conn
    /\ writing \subseteq Conn
    /\ listed \subseteq Conn
    /\ inq \in [Conn -> SUBSET Msg]
    /\ fin \subseteq Conn
    /\ full \subseteq Conn
    /\ out \in [Conn -> Seq(Msg)]
    /\ idle \subseteq Conn
    /\ timerfd \in BOOLEAN
    /\ io \in {"wait", "dispatch", "closeLoop", "closeServer", "drain", "purge", "purgeLoop"}
    /\ rchannels \subseteq [ch : Conn \cup {Wake, Timer}, ev : {"in", "out"}]
    /\ closing \in Conn \cup {None}
    /\ closing # None <=> io \in {"closeLoop", "closeServer", "purgeLoop"}
    /\ todo \subseteq Fd
    /\ taskqueue \in Seq(Msg)
    /\ from \in [Msg -> Conn \cup {None}]
    /\ worker \in [Msg -> Held \cup {"none", "merged", "done"}]
    /\ written \subseteq Msg
    /\ purged \subseteq Conn
    /\ fault \in Faults

(* A connection in the map of the server is in the map of its loop, or on    *)
(* its way into or out of it (newconnction 72-76 against closeconnection     *)
(* 42-50 and the purge).  Only the purge, which walks the loop's map, finds  *)
(* connections that were missed: one in the server's map alone would stay    *)
(* there, and its descriptor open, for ever.                                 *)
ServerMapCovered ==
    \A f \in Fd : server[f] # None =>
        \/ conns[f] = server[f]
        \/ main = "inserted" /\ newconn = server[f]
        \/ io = "closeServer" /\ closing = server[f]

(* Both maps are indexed by descriptor, and descriptors are used again: a    *)
(* new connection never takes the place of another one in a map, and a close *)
(* never erases another connection, since ~Socket alone closes a descriptor. *)
InsertFindsNoEntry ==
    /\ newconn # None =>
        /\ server[fdOf[newconn]] \in {None, newconn}
        /\ conns[fdOf[newconn]] \in {None, newconn}
    /\ closing # None =>
        /\ server[fdOf[closing]] \in {None, closing}
        /\ conns[fdOf[closing]] \in {None, closing}

(* What the IO thread is still to touch without a shared_ptr, the channels   *)
(* of its batch and the connections of queued calls of sendinloop, is there; *)
(* except after a close or a purge, which are what leads to dangling.        *)
TouchedAreAlive ==
    /\ \A r \in rchannels : r.ch \in Conn => Alive(r.ch) \/ r.ch \in purged
    /\ \A i \in 1..Len(taskqueue) :
            LET c == from[taskqueue[i]]
            IN  Alive(c) \/ c \in disconnect \cup purged

(* The inductive invariant.  First, descriptors: one that is in use belongs  *)
(* to one connection, and the maps are indexed by it.                        *)
FdInv ==
    /\ \A c \in Conn : Alive(c) => fdOf[c] # None
    /\ \A c, d \in Conn : Alive(c) /\ Alive(d) /\ fdOf[c] = fdOf[d] => c = d
    /\ \A f \in Fd : server[f] # None => fdOf[server[f]] = f
    /\ \A f \in Fd : conns[f] # None => fdOf[conns[f]] = f

(* What the main thread inserts is new, and what the IO thread is between    *)
(* two erases of is what it was.                                             *)
InsertInv == newconn # None => \A f \in Fd : conns[f] # newconn

EraseInv ==
    /\ io \in {"closeLoop", "closeServer"} => closing \in disconnect
    /\ io = "purgeLoop" =>
        /\ closing \in purged
        /\ conns[fdOf[closing]] = closing
        /\ server[fdOf[closing]] = None
    /\ \A f \in todo : conns[f] # None
    /\ todo # {} => io \in {"purge", "purgeLoop"}

(* The batch: one entry for a connection, and none for a closed one; both    *)
(* speak of connections that were accepted.                                  *)
BatchInv ==
    /\ \A c \in disconnect : fdOf[c] # None
    /\ registered \cap disconnect = {}
    /\ \A r \in rchannels : r.ch \notin disconnect
    /\ \A r \in rchannels : r.ch \in Conn => fdOf[r.ch] # None
    /\ \A r, s \in rchannels : r.ch = s.ch => r = s

(* Messages belong to connections that were accepted.                        *)
MsgInv ==
    /\ \A m \in Msg : from[m] # None => fdOf[from[m]] # None
    /\ \A m \in Msg : worker[m] # "none" => from[m] # None
    /\ \A c \in Conn : \A m \in inq[c] : from[m] = c
    /\ \A i \in 1..Len(taskqueue) : from[taskqueue[i]] # None

(* Until it is closed or purged a connection is being set up or in the map   *)
(* of its loop.                                                              *)
OpenInv ==
    \A c \in Conn : fdOf[c] # None /\ c \notin disconnect \cup purged =>
        newconn = c \/ conns[fdOf[c]] = c

IInv ==
    /\ TypeOK
    /\ FdInv
    /\ InsertInv
    /\ EraseInv
    /\ BatchInv
    /\ MsgInv
    /\ OpenInv
    /\ ServerMapCovered

(* What Epoll.cc:28 stops the process for, and the test of disconnect_ in    *)
(* Connection.cc:121 is there to prevent: a reply is never put on a channel  *)
(* that the close has taken out of epoll.                                    *)
RepliesOnlyToOpen == fault # "notinepoll"

(* A connection whose close was handled is destroyed in the end, also when   *)
(* the close came before the main thread inserted it: then by the purge.     *)
ClosedConnectionsForgotten ==
    \A c \in Conn : c \in disconnect ~> ~Alive(c) \/ fault # "none"

(* The reply to every message given to a worker is written to its socket,    *)
(* unless the connection was closed or purged: although connections are edge *)
(* triggered, a readable channel hides that it is writable, and the kernel   *)
(* may take a reply in parts.                                                *)
RepliesWritten ==
    \A m \in Msg :
        worker[m] = "task" ~>
            m \in written \/ from[m] \in disconnect \cup purged \/ fault # "none"
=============================================================================
