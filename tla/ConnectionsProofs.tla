------------------------- MODULE ConnectionsProofs --------------------------
(***************************************************************************)
(* Theorems about Connections.tla, for any number of connections,            *)
(* descriptors and messages: no stale entry in a map, and nothing is gone    *)
(* that was neither closed nor purged.                                       *)
(***************************************************************************)
EXTENDS Connections, TLAPS

(* A connection's pointers only get fewer, but for the one being accepted:   *)
(* whoever gets a pointer copies one.                                        *)
NoneRevived == \A c \in Conn : Alive(c)' => Alive(c)

USE ConnectionsAssumption

LEMMA InitIInv == Init => IInv
<1> SUFFICES ASSUME Init PROVE IInv
  OBVIOUS
<1>1. TypeOK
  <2>1. out \in [Conn -> Seq(Msg)] /\ taskqueue \in Seq(Msg)
    BY DEF Init
  <2>2. rchannels \subseteq [ch : Conn \cup {Wake, Timer}, ev : {"in", "out"}]
    BY DEF Init
  <2>3. timerfd \in BOOLEAN /\ fault \in Faults
    BY DEF Init, Faults
  <2> QED BY <2>1, <2>2, <2>3 DEF Init, TypeOK, Held
<1>2. FdInv /\ InsertInv /\ EraseInv
  BY DEF Init, FdInv, InsertInv, EraseInv, Alive, Held
<1>3. BatchInv /\ MsgInv /\ OpenInv /\ ServerMapCovered
  BY DEF Init, BatchInv, MsgInv, OpenInv, ServerMapCovered
<1> QED BY <1>1, <1>2, <1>3 DEF IInv

-----------------------------------------------------------------------------
(* The main thread.                                                          *)

LEMMA AcceptIInv ==
  ASSUME IInv, NEW c \in Conn, NEW f \in Fd, Accept(c, f)
  PROVE  IInv'
<1> USE DEF Accept, IInv, ioVars, workVars, mapVars
<1>1. TypeOK'
  BY DEF TypeOK, Faults
<1>2. /\ ~Alive(c)
      /\ \A d \in Conn : Alive(d)' => d = c \/ Alive(d)
      /\ \A d \in Conn : Alive(d) => fdOf[d] # f
  BY DEF FdInv, Alive, FdsInUse, TypeOK
<1>3. FdInv'
  <2>1. \A d \in Conn : fdOf'[d] = IF d = c THEN f ELSE fdOf[d]
    BY DEF TypeOK
  <2>2. \A g \in Fd : server[g] # None => server[g] \in Conn /\ Alive(server[g])
    BY DEF TypeOK, Alive
  <2>3. \A g \in Fd : conns[g] # None => conns[g] \in Conn /\ Alive(conns[g])
    BY DEF TypeOK, Alive
  <2> QED BY <1>2, <2>1, <2>2, <2>3 DEF FdInv
<1>4. InsertInv'
  BY <1>2 DEF InsertInv, Alive
<1>5. EraseInv'
  <2>1. closing # None => closing # c
    BY <1>2 DEF Alive
  <2> QED BY <2>1 DEF EraseInv, TypeOK
<1>6. BatchInv'
  BY DEF BatchInv, TypeOK
<1>7. MsgInv'
  BY DEF MsgInv, TypeOK
<1>8. OpenInv'
  BY DEF OpenInv, TypeOK
<1>9. ServerMapCovered'
  BY DEF ServerMapCovered, TypeOK
<1> QED BY <1>1, <1>3, <1>4, <1>5, <1>6, <1>7, <1>8, <1>9
LEMMA SetUpIInv ==
  ASSUME IInv, SetUp
  PROVE  IInv'
<1> USE DEF IInv, ioVars, workVars, chanVars, sockVars
<1>1. CASE SetCallbacks
  <2> USE <1>1 DEF SetCallbacks, mapVars
  <2>1. TypeOK'
    BY DEF TypeOK, Faults
  <2>2. NoneRevived
    BY DEF NoneRevived, Alive
  <2>3. FdInv' /\ InsertInv' /\ EraseInv' /\ BatchInv' /\ MsgInv' /\ OpenInv'
    BY <2>2 DEF FdInv, InsertInv, EraseInv, BatchInv, MsgInv, OpenInv, NoneRevived
  <2>4. ServerMapCovered'
    BY DEF ServerMapCovered
  <2> QED BY <2>1, <2>3, <2>4
<1>2. CASE InsertServer
  <2> USE <1>2 DEF InsertServer
  <2> DEFINE f == fdOf[newconn]
  <2>1. newconn \in Conn /\ Alive(newconn) /\ f \in Fd
    BY DEF TypeOK, FdInv, Alive
  <2>2. TypeOK'
    BY <2>1 DEF TypeOK, Faults
  <2>3. \A g \in Fd : server'[g] = IF g = f THEN newconn ELSE server[g]
    BY <2>1 DEF TypeOK
  <2>4. NoneRevived
    BY <2>1, <2>3 DEF NoneRevived, Alive
  <2>5. FdInv' /\ InsertInv' /\ BatchInv' /\ MsgInv' /\ OpenInv'
    BY <2>1, <2>3, <2>4 DEF FdInv, InsertInv, BatchInv, MsgInv, OpenInv, NoneRevived
  <2>6. io = "purgeLoop" => fdOf[closing] \in Fd /\ fdOf[closing] # f
    BY <2>1 DEF TypeOK, FdInv, InsertInv, EraseInv, Alive
  <2>7. EraseInv'
    BY <2>3, <2>6 DEF EraseInv
  <2>8. ServerMapCovered'
    BY <2>1, <2>3 DEF ServerMapCovered
  <2> QED BY <2>2, <2>5, <2>7, <2>8
<1>3. CASE InsertLoop
  <2> USE <1>3 DEF InsertLoop
  <2> DEFINE f == fdOf[newconn]
  <2>1. newconn \in Conn /\ Alive(newconn) /\ f \in Fd
    BY DEF TypeOK, FdInv, Alive
  <2>2. TypeOK'
    BY <2>1 DEF TypeOK, Faults
  <2>3. \A g \in Fd : conns'[g] = IF g = f THEN newconn ELSE conns[g]
    BY <2>1 DEF TypeOK
  <2>4. NoneRevived
    BY <2>1, <2>3 DEF NoneRevived, Alive
  <2>5. FdInv' /\ InsertInv' /\ BatchInv' /\ MsgInv'
    BY <2>1, <2>3, <2>4 DEF FdInv, InsertInv, BatchInv, MsgInv, NoneRevived, TypeOK
  <2>6. EraseInv'
    <3>1. io = "purgeLoop" => fdOf[closing] \in Fd /\ fdOf[closing] # f
      BY <2>1 DEF TypeOK, FdInv, InsertInv, EraseInv, Alive
    <3> QED BY <2>1, <2>3, <3>1 DEF EraseInv, TypeOK
  <2>7. \A g \in Fd : server[g] # None => server[g] \in Conn /\ Alive(server[g])
                                           /\ fdOf[server[g]] = g
    BY DEF TypeOK, FdInv, Alive
  <2>8. ServerMapCovered'
    BY <2>1, <2>3, <2>7 DEF ServerMapCovered, FdInv, TypeOK
  <2>9. OpenInv'
    <3>1. SUFFICES ASSUME NEW c \in Conn, fdOf[c] # None, c \notin disconnect \cup purged,
                          c # newconn
                   PROVE  conns'[fdOf[c]] = c
      BY <2>1, <2>3 DEF OpenInv
    <3>2. conns[fdOf[c]] = c /\ fdOf[c] \in Fd /\ Alive(c)
      BY <3>1 DEF OpenInv, TypeOK, Alive
    <3> QED BY <2>1, <2>3, <3>1, <3>2 DEF FdInv
  <2> QED BY <2>2, <2>5, <2>6, <2>8, <2>9
<1> QED BY <1>1, <1>2, <1>3 DEF SetUp

-----------------------------------------------------------------------------
(* What leaves descriptors, maps and registrations alone.                    *)

KeepsMaps ==
    /\ UNCHANGED <<mainVars, mapVars, disconnect, registered, purged>>
    /\ closing' = closing

(* Such a step is harmless if it revives nobody and keeps the types, the     *)
(* batch, the messages and what is being erased.                             *)
LEMMA KeepsMapsIInv ==
  ASSUME IInv, KeepsMaps, NoneRevived, TypeOK',
         rchannels' \subseteq rchannels,
         MsgInv', EraseInv', io = "closeServer" => io' = "closeServer"
  PROVE  IInv'
<1> USE DEF KeepsMaps, mainVars, mapVars
<1>1. FdInv' /\ InsertInv'
  BY DEF IInv, FdInv, InsertInv, NoneRevived
<1>2. BatchInv'
  BY DEF IInv, BatchInv
<1>3. OpenInv' /\ ServerMapCovered'
  BY DEF IInv, OpenInv, ServerMapCovered
<1> QED BY <1>1, <1>2, <1>3 DEF IInv

LEMMA WorkerIInv ==
  ASSUME IInv, NEW m \in Msg, OnMessage(m)
  PROVE  IInv'
<1> USE DEF ioVars, sockVars, chanVars
<1>1. TypeOK /\ from[m] \in Conn \cup {None}
  BY DEF IInv, TypeOK
<1>2. KeepsMaps
  BY DEF OnMessage, TestDisconnect, QueueSend, DropTask, KeepsMaps
<1>3. \A n \in Msg : worker'[n] \in Held => worker[n] \in Held
  BY <1>1 DEF OnMessage, TestDisconnect, QueueSend, DropTask, TypeOK, Held
<1>4. NoneRevived
  BY <1>2, <1>3 DEF OnMessage, TestDisconnect, QueueSend, DropTask, KeepsMaps, NoneRevived,
                    Alive, mainVars, mapVars
<1>5. /\ taskqueue' \in Seq(Msg)
      /\ \A i \in 1..Len(taskqueue') : taskqueue'[i] \in {m} \cup {taskqueue[j] : j \in 1..Len(taskqueue)}
  <2>1. taskqueue \in Seq(Msg)
    BY <1>1 DEF TypeOK
  <2>2. /\ Append(taskqueue, m) \in Seq(Msg)
        /\ \A i \in 1..Len(Append(taskqueue, m)) :
               \/ Append(taskqueue, m)[i] = m
               \/ i \in 1..Len(taskqueue) /\ Append(taskqueue, m)[i] = taskqueue[i]
    BY <2>1
  <2>3. taskqueue' \in {taskqueue, Append(taskqueue, m)}
    BY DEF OnMessage, TestDisconnect, QueueSend, DropTask
  <2> QED BY <2>1, <2>2, <2>3
<1>6. TypeOK'
  BY <1>1, <1>5 DEF OnMessage, TestDisconnect, QueueSend, DropTask, TypeOK, Held, Faults,
                    mainVars, mapVars
<1>7. EraseInv' /\ rchannels' \subseteq rchannels /\ io' = io
  BY DEF OnMessage, TestDisconnect, QueueSend, DropTask, IInv, EraseInv, mainVars, mapVars
<1>8. MsgInv'
  <2>1. MsgInv /\ UNCHANGED <<from, fdOf, inq>>
    BY DEF OnMessage, TestDisconnect, QueueSend, DropTask, IInv, mainVars
  <2>2. \A n \in Msg : worker'[n] # "none" => worker[n] # "none"
    BY <1>1 DEF OnMessage, TestDisconnect, QueueSend, DropTask, TypeOK
  <2>3. from[m] # None
    BY <1>1, <2>1 DEF OnMessage, TestDisconnect, QueueSend, DropTask, MsgInv
  <2> QED BY <1>5, <2>1, <2>2, <2>3 DEF MsgInv
<1> QED BY <1>2, <1>4, <1>6, <1>7, <1>8, KeepsMapsIInv

LEMMA PeerSendIInv ==
  ASSUME IInv, NEW m \in Msg, NEW c \in Conn, PeerSend(m, c)
  PROVE  IInv'
<1> USE DEF PeerSend, ioVars, chanVars, mainVars, mapVars
<1>1. TypeOK /\ MsgInv /\ fdOf[c] # None /\ from[m] = None
  BY DEF IInv, FdInv
<1>2. KeepsMaps
  BY DEF KeepsMaps
<1>3. \A n \in Msg : from'[n] = IF n = m THEN c ELSE from[n]
  BY <1>1 DEF TypeOK
<1>4. NoneRevived
  BY <1>1, <1>3 DEF NoneRevived, Alive
<1>5. TypeOK'
  BY <1>1 DEF TypeOK, Held, Faults
<1>6. EraseInv' /\ rchannels' \subseteq rchannels /\ io' = io
  BY DEF IInv, EraseInv
<1>7. MsgInv'
  <2>1. \A d \in Conn : inq'[d] = IF d = c THEN inq[d] \cup {m} ELSE inq[d]
    BY <1>1 DEF TypeOK
  <2>2. \A d \in Conn : \A n \in inq'[d] : from'[n] = d
    <3>1. \A d \in Conn : inq[d] \subseteq Msg
      BY <1>1 DEF TypeOK
    <3>2. \A d \in Conn : m \notin inq[d]
      <4>1. \A d \in Conn : None # d
        OBVIOUS
      <4> QED BY <1>1, <4>1 DEF MsgInv
    <3> QED BY <1>1, <1>3, <2>1, <3>1, <3>2 DEF MsgInv
  <2>3. \A i \in 1..Len(taskqueue) : taskqueue[i] \in Msg
    BY <1>1 DEF TypeOK
  <2> QED BY <1>1, <1>3, <2>2, <2>3 DEF MsgInv
<1> QED BY <1>2, <1>4, <1>5, <1>6, <1>7, KeepsMapsIInv

LEMMA EnvironmentIInv ==
  ASSUME IInv,
         (\E c \in Conn : PeerClose(c) \/ WriteSpace(c) \/ TimesOut(c)) \/ TimerExpires
  PROVE  IInv'
<1> USE DEF PeerClose, WriteSpace, TimesOut, TimerExpires, ioVars, chanVars, mainVars,
            mapVars, workVars, sockVars
<1>1. KeepsMaps /\ UNCHANGED <<io, rchannels, todo, inq, workVars>>
  BY DEF KeepsMaps
<1>2. NoneRevived
  BY <1>1 DEF KeepsMaps, NoneRevived, Alive
<1>3. TypeOK'
  <2>1. /\ TypeOK
        /\ KeepsMaps
        /\ UNCHANGED <<main, newconn, fdOf, callbacks, io, rchannels, todo, inq, workVars,
                      writing, out, written, fault>>
    BY <1>1 DEF IInv
  <2>2. /\ listed' \subseteq Conn
        /\ fin' \subseteq Conn
        /\ full' \subseteq Conn
        /\ idle' \subseteq Conn
        /\ timerfd' \in BOOLEAN
    BY <2>1 DEF TypeOK
  <2> HIDE DEF PeerClose, WriteSpace, TimesOut, TimerExpires
  <2> QED BY ONLY <2>1, <2>2 DEF TypeOK, KeepsMaps, workVars, mapVars, mainVars
<1>4. EraseInv' /\ MsgInv'
  BY <1>1 DEF IInv, EraseInv, MsgInv, KeepsMaps
<1> QED BY <1>1, <1>2, <1>3, <1>4, KeepsMapsIInv

-----------------------------------------------------------------------------
(* The IO thread.                                                            *)

LEMMA EpollWaitIInv ==
  ASSUME IInv, EpollWait
  PROVE  IInv'
<1> USE DEF EpollWait, mainVars, mapVars, chanVars, workVars
<1>1. TypeOK /\ BatchInv
  BY DEF IInv
<1>2. NoneRevived
  BY DEF NoneRevived, Alive
<1>3. \A r \in Reported :
          \/ /\ r.ch \in Conn /\ r.ch \in registered
             /\ r = [ch |-> r.ch, ev |-> IF Readable(r.ch) THEN "in" ELSE "out"]
          \/ r \in {[ch |-> Wake, ev |-> "in"], [ch |-> Timer, ev |-> "in"]}
  BY <1>1 DEF Reported, TypeOK
<1>4. rchannels' \subseteq [ch : Conn \cup {Wake, Timer}, ev : {"in", "out"}]
  BY <1>3
<1>5. TypeOK'
  BY <1>1, <1>4 DEF TypeOK, Held, Faults
<1>6. \A r, s \in Reported : r.ch = s.ch => r = s
  BY <1>3
<1>7. \A r \in Reported : r.ch \notin disconnect
  <2>1. Wake \notin disconnect /\ Timer \notin disconnect
    BY <1>1 DEF TypeOK
  <2> QED BY <1>1, <1>3, <2>1 DEF BatchInv
<1>8. BatchInv'
  <2>1. \A r \in Reported : r.ch \in Conn => fdOf[r.ch] # None
    <3>1. \A r \in Reported : r.ch \in Conn => Alive(r.ch)
      BY DEF Reported
    <3> QED BY <3>1 DEF IInv, FdInv
  <2> QED BY <1>1, <1>6, <1>7, <2>1 DEF BatchInv
<1>9. FdInv' /\ InsertInv' /\ EraseInv' /\ MsgInv' /\ OpenInv' /\ ServerMapCovered'
  BY <1>2 DEF IInv, FdInv, InsertInv, EraseInv, MsgInv, OpenInv, ServerMapCovered, NoneRevived
<1> QED BY <1>5, <1>8, <1>9 DEF IInv

LEMMA LoopOnlyIInv ==
  ASSUME IInv,
         \/ DispatchEnd \/ DrainEnd \/ PurgeEnd
         \/ \E r \in rchannels : HandleGone(r) \/ HandleWake(r) \/ HandleTimer(r)
  PROVE  IInv'
<1> USE DEF DispatchEnd, DrainEnd, PurgeEnd, HandleGone, HandleWake, HandleTimer, Handle,
            mainVars, mapVars, chanVars, sockVars, workVars
<1>1. KeepsMaps /\ rchannels' \subseteq rchannels /\ UNCHANGED <<inq, workVars>>
  BY DEF KeepsMaps
<1>2. NoneRevived
  BY <1>1 DEF KeepsMaps, NoneRevived, Alive
<1>3. TypeOK'
  BY DEF IInv, TypeOK, Held, Faults
<1>4. EraseInv'
  BY <1>1 DEF IInv, EraseInv, TypeOK, KeepsMaps
<1>5. MsgInv'
  BY <1>1 DEF IInv, MsgInv, KeepsMaps
<1> QED BY <1>1, <1>2, <1>3, <1>4, <1>5, KeepsMapsIInv

LEMMA HandleMessageIInv ==
  ASSUME IInv, NEW r \in rchannels, HandleMessage(r)
  PROVE  IInv'
<1> USE DEF HandleMessage, HandleConn, Handle, mainVars, mapVars, chanVars
<1> DEFINE c == r.ch
<1>1. TypeOK /\ MsgInv /\ c \in Conn /\ Alive(c) /\ inq[c] \subseteq Msg
  BY DEF IInv, TypeOK
<1>2. PICK m \in inq[c] :
          worker' = [n \in Msg |-> IF n = m THEN "task"
                                   ELSE IF n \in inq[c] THEN "merged" ELSE worker[n]]
  OBVIOUS
<1>3. KeepsMaps /\ rchannels' \subseteq rchannels
  BY DEF KeepsMaps
<1>4. \A n \in Msg : worker'[n] \in Held => worker[n] \in Held \/ from[n] = c
  BY <1>1, <1>2 DEF Held, MsgInv
<1>5. NoneRevived
  BY <1>1, <1>4 DEF NoneRevived, Alive
<1>6. worker' \in [Msg -> Held \cup {"none", "merged", "done"}]
  BY <1>1, <1>2 DEF TypeOK, Held
<1>7. TypeOK'
  BY <1>1, <1>6 DEF TypeOK, Faults
<1>8. EraseInv'
  BY DEF IInv, EraseInv
<1>9. MsgInv'
  <2>1. \A d \in Conn : inq'[d] = IF d = c THEN {} ELSE inq[d]
    BY <1>1 DEF TypeOK
  <2>2. \A n \in Msg : worker'[n] # "none" => from[n] # None
    BY <1>1, <1>2 DEF MsgInv
  <2> QED BY <1>1, <2>1, <2>2 DEF MsgInv
<1> QED BY <1>3, <1>5, <1>7, <1>8, <1>9, KeepsMapsIInv

LEMMA HandleWriteIInv ==
  ASSUME IInv, NEW r \in rchannels, HandleWrite(r)
  PROVE  IInv'
<1> USE DEF HandleWrite, HandleConn, Handle, mainVars, mapVars, workVars
<1> DEFINE c == r.ch
<1>1. TypeOK /\ c \in Conn /\ out[c] \in Seq(Msg)
  BY DEF IInv, TypeOK
<1>2. PICK k \in (IF c \in fin THEN 0 ELSE 1)..Len(out[c]) :
          /\ out' = [out EXCEPT ![c] = SubSeq(@, k + 1, Len(@))]
          /\ written' = written \cup {out[c][i] : i \in 1..k}
          /\ writing' \in {writing, writing \ {c}}
          /\ listed' \in {listed, listed \cup {c}}
          /\ full' \in {full, full \cup {c}}
  OBVIOUS
<1>3. KeepsMaps /\ rchannels' \subseteq rchannels
  BY DEF KeepsMaps
<1>4. NoneRevived
  BY DEF NoneRevived, Alive
<1>5. SubSeq(out[c], k + 1, Len(out[c])) \in Seq(Msg) /\ {out[c][i] : i \in 1..k} \subseteq Msg
  <2>1. k \in Nat /\ k <= Len(out[c])
    BY <1>1
  <2> QED BY <1>1, <2>1
<1>6. out' \in [Conn -> Seq(Msg)] /\ written' \subseteq Msg
  BY <1>1, <1>2, <1>5 DEF TypeOK
<1>7. TypeOK'
  BY <1>1, <1>2, <1>6 DEF TypeOK, Held, Faults
<1>8. EraseInv' /\ MsgInv'
  BY DEF IInv, EraseInv, MsgInv
<1> QED BY <1>3, <1>4, <1>7, <1>8, KeepsMapsIInv

LEMMA SendInLoopIInv ==
  ASSUME IInv, SendInLoop
  PROVE  IInv'
<1> USE DEF SendInLoop, mainVars, mapVars, ioVars
<1> DEFINE m == Head(taskqueue)
           c == from[m]
<1>1. /\ TypeOK /\ MsgInv /\ m \in Msg /\ Tail(taskqueue) \in Seq(Msg)
      /\ \A i \in 1..Len(Tail(taskqueue)) :
             i + 1 \in 1..Len(taskqueue) /\ Tail(taskqueue)[i] = taskqueue[i + 1]
      /\ m = taskqueue[1] /\ 1 \in 1..Len(taskqueue)
  BY DEF IInv, TypeOK
<1>2. c \in Conn
  BY <1>1 DEF TypeOK, MsgInv
<1>3. KeepsMaps
  BY DEF KeepsMaps
<1>4. NoneRevived
  BY DEF NoneRevived, Alive
<1>5. out' \in [Conn -> Seq(Msg)]
  <2>1. out[c] \in Seq(Msg) /\ Append(out[c], m) \in Seq(Msg)
    BY <1>1, <1>2 DEF TypeOK
  <2>2. out' = out \/ out' = [out EXCEPT ![c] = Append(out[c], m)]
    OBVIOUS
  <2>3. out \in [Conn -> Seq(Msg)]
    BY <1>1 DEF TypeOK
  <2> HIDE DEF SendInLoop, m, c
  <2> QED BY ONLY <1>2, <2>1, <2>2, <2>3
<1>6. TypeOK'
  <2>1. writing' \subseteq Conn /\ listed' \subseteq Conn
    BY <1>1, <1>2 DEF TypeOK, Rearmed
  <2>2. fault' \in Faults
    BY DEF Faults
  <2>3. /\ io = "drain" /\ taskqueue' \in Seq(Msg)
        /\ UNCHANGED <<main, newconn, fdOf, callbacks, server, conns, disconnect, registered,
                      inq, fin, full, io, rchannels, closing, todo, from, worker, idle,
                      timerfd, written, purged>>
    BY <1>1
  <2> HIDE DEF SendInLoop
  <2> QED BY <1>1, <1>5, <2>1, <2>2, <2>3 DEF TypeOK
<1>7. EraseInv'
  BY DEF IInv, EraseInv
<1>8. MsgInv'
  BY <1>1 DEF MsgInv
<1> QED BY <1>3, <1>4, <1>6, <1>7, <1>8, KeepsMapsIInv

(* The close: the connection leaves epoll, the loop's map and the server's.  *)
LEMMA CloseIInv ==
  ASSUME IInv, (\E r \in rchannels : HandleClose(r)) \/ CloseEraseLoop \/ CloseEraseServer
  PROVE  IInv'
<1> USE DEF mainVars, mapVars, workVars, chanVars, sockVars
<1>a. TypeOK /\ FdInv /\ InsertInv /\ EraseInv /\ BatchInv /\ MsgInv /\ OpenInv /\ ServerMapCovered
  BY DEF IInv
<1>1. CASE \E r \in rchannels : HandleClose(r)
  <2> PICK r \in rchannels : HandleClose(r)
    BY <1>1
  <2> USE DEF HandleClose, HandleConn, Handle, Disconnected
  <2>1. r.ch \in Conn /\ Alive(r.ch) /\ fdOf[r.ch] # None /\ closing = None
    BY <1>a DEF FdInv, TypeOK
  <2>2. NoneRevived
    BY <1>a, <2>1 DEF NoneRevived, Alive
  <2>3. TypeOK'
    BY <1>a, <2>1 DEF TypeOK, Held, Faults
  <2>4. FdInv' /\ InsertInv'
    BY <1>a, <2>2 DEF FdInv, InsertInv, NoneRevived
  <2>5. EraseInv'
    BY <1>a DEF EraseInv, TypeOK
  <2>6. BatchInv'
    BY <1>a, <2>1 DEF BatchInv
  <2>7. MsgInv'
    <3>1. \A d \in Conn : inq'[d] \subseteq inq[d]
      BY <1>a, <2>1 DEF TypeOK
    <3> QED BY <1>a, <3>1 DEF MsgInv
  <2>8. OpenInv' /\ ServerMapCovered'
    BY <1>a DEF OpenInv, ServerMapCovered
  <2> QED BY <2>3, <2>4, <2>5, <2>6, <2>7, <2>8 DEF IInv
<1>2. CASE CloseEraseLoop
  <2> USE <1>2 DEF CloseEraseLoop
  <2> DEFINE f == fdOf[closing]
  <2>1. closing \in Conn /\ closing \in disconnect /\ Alive(closing) /\ f \in Fd
    BY <1>a DEF TypeOK, FdInv, EraseInv, Alive
  <2>2. \A g \in Fd : conns'[g] = IF g = f THEN None ELSE conns[g]
    BY <1>a, <2>1 DEF TypeOK
  <2>3. NoneRevived
    BY <2>2 DEF NoneRevived, Alive
  <2>4. TypeOK'
    BY <1>a DEF TypeOK, Held, Faults
  <2>5. FdInv' /\ InsertInv' /\ BatchInv' /\ MsgInv'
    BY <1>a, <2>2, <2>3 DEF FdInv, InsertInv, BatchInv, MsgInv, NoneRevived, TypeOK
  <2>6. EraseInv'
    BY <1>a, <2>1, <2>2 DEF EraseInv
  <2>7. OpenInv'
    <3>1. SUFFICES ASSUME NEW c \in Conn, fdOf[c] # None, c \notin disconnect \cup purged,
                          newconn # c
                   PROVE  conns'[fdOf[c]] = c
      BY DEF OpenInv
    <3>2. conns[fdOf[c]] = c /\ fdOf[c] \in Fd /\ Alive(c)
      BY <1>a, <3>1 DEF OpenInv, TypeOK, Alive
    <3> QED BY <1>a, <2>1, <2>2, <3>1, <3>2 DEF FdInv
  <2>8. ServerMapCovered'
    <3>1. server[f] # None => server[f] = closing
      <4>1. server[f] # None => server[f] \in Conn /\ Alive(server[f]) /\ fdOf[server[f]] = f
        BY <1>a, <2>1 DEF TypeOK, FdInv, Alive
      <4> QED BY <1>a, <2>1, <4>1 DEF FdInv
    <3> QED BY <1>a, <2>2, <3>1 DEF ServerMapCovered
  <2> QED BY <2>4, <2>5, <2>6, <2>7, <2>8 DEF IInv
<1>3. CASE CloseEraseServer
  <2> USE <1>3 DEF CloseEraseServer
  <2> DEFINE f == fdOf[closing]
  <2>1. closing \in Conn /\ Alive(closing) /\ f \in Fd
    BY <1>a DEF TypeOK, FdInv, Alive
  <2>2. \A g \in Fd : server'[g] = IF g = f THEN None ELSE server[g]
    BY <1>a, <2>1 DEF TypeOK
  <2>3. NoneRevived
    BY <2>2 DEF NoneRevived, Alive
  <2>4. TypeOK'
    BY <1>a DEF TypeOK, Held, Faults
  <2>5. FdInv' /\ InsertInv' /\ BatchInv' /\ MsgInv' /\ OpenInv'
    BY <1>a, <2>2, <2>3 DEF FdInv, InsertInv, BatchInv, MsgInv, OpenInv, NoneRevived, TypeOK
  <2>6. EraseInv'
    BY <1>a DEF EraseInv
  <2>7. ServerMapCovered'
    <3>1. \A g \in Fd : server[g] = closing => g = f
      BY <1>a, <2>1 DEF FdInv
    <3> QED BY <1>a, <2>1, <2>2, <3>1 DEF ServerMapCovered
  <2> QED BY <2>4, <2>5, <2>6, <2>7 DEF IInv
<1> QED BY <1>1, <1>2, <1>3

(* The purge: the connection leaves the server's map and the loop's.         *)
LEMMA PurgeIInv ==
  ASSUME IInv, (\E f \in Fd : PurgeServer(f)) \/ PurgeLoop
  PROVE  IInv'
<1> USE DEF mainVars, mapVars, workVars, chanVars, sockVars
<1>a. TypeOK /\ FdInv /\ InsertInv /\ EraseInv /\ BatchInv /\ MsgInv /\ OpenInv /\ ServerMapCovered
  BY DEF IInv
<1>1. CASE \E f \in Fd : PurgeServer(f)
  <2> PICK f \in Fd : PurgeServer(f)
    BY <1>1
  <2> USE DEF PurgeServer
  <2>1. conns[f] \in Conn /\ conns[f] # None /\ Alive(conns[f]) /\ fdOf[conns[f]] = f
    BY <1>a DEF TypeOK, EraseInv, FdInv, Alive
  <2>2. \A g \in Fd : server'[g] = IF g = f THEN None ELSE server[g]
    BY <1>a DEF TypeOK
  <2>3. NoneRevived
    BY <2>1, <2>2 DEF NoneRevived, Alive
  <2>4. TypeOK'
    BY <1>a, <2>1 DEF TypeOK, Held, Faults
  <2>5. FdInv' /\ InsertInv' /\ BatchInv' /\ MsgInv' /\ OpenInv'
    BY <1>a, <2>2, <2>3 DEF FdInv, InsertInv, BatchInv, MsgInv, OpenInv, NoneRevived, TypeOK
  <2>6. EraseInv'
    BY <1>a, <2>1, <2>2 DEF EraseInv
  <2>7. ServerMapCovered'
    BY <1>a, <2>2 DEF ServerMapCovered
  <2> QED BY <2>4, <2>5, <2>6, <2>7 DEF IInv
<1>2. CASE PurgeLoop
  <2> USE <1>2 DEF PurgeLoop
  <2> DEFINE f == fdOf[closing]
  <2>1. /\ closing \in Conn /\ closing \in purged /\ Alive(closing) /\ f \in Fd
        /\ conns[f] = closing /\ server[f] = None
    BY <1>a DEF TypeOK, FdInv, EraseInv, Alive
  <2>2. \A g \in Fd : conns'[g] = IF g = f THEN None ELSE conns[g]
    BY <1>a, <2>1 DEF TypeOK
  <2>3. NoneRevived
    BY <2>2 DEF NoneRevived, Alive
  <2>4. TypeOK'
    BY <1>a DEF TypeOK, Held, Faults
  <2>5. FdInv' /\ InsertInv' /\ BatchInv' /\ MsgInv'
    BY <1>a, <2>2, <2>3 DEF FdInv, InsertInv, BatchInv, MsgInv, NoneRevived, TypeOK
  <2>6. EraseInv'
    BY <1>a, <2>1, <2>2 DEF EraseInv, TypeOK
  <2>7. OpenInv'
    <3>1. SUFFICES ASSUME NEW c \in Conn, fdOf[c] # None, c \notin disconnect \cup purged,
                          newconn # c
                   PROVE  conns'[fdOf[c]] = c
      BY DEF OpenInv
    <3>2. conns[fdOf[c]] = c /\ fdOf[c] \in Fd
      BY <1>a, <3>1 DEF OpenInv, TypeOK
    <3> QED BY <2>1, <2>2, <3>1, <3>2
  <2>8. ServerMapCovered'
    BY <1>a, <2>1, <2>2 DEF ServerMapCovered
  <2> QED BY <2>4, <2>5, <2>6, <2>7, <2>8 DEF IInv
<1> QED BY <1>1, <1>2

-----------------------------------------------------------------------------
(* The invariant holds, whoever connects, sends and closes, and whenever the *)
(* three threads interleave.                                                 *)
THEOREM IInvHolds == Spec => []IInv
<1>1. IInv /\ [Next]_vars => IInv'
  <2> SUFFICES ASSUME IInv, [Next]_vars PROVE IInv'
    OBVIOUS
  <2>1. CASE \E c \in Conn, f \in Fd : Accept(c, f)
    BY <2>1, AcceptIInv
  <2>2. CASE SetUp
    BY <2>2, SetUpIInv
  <2>3. CASE LoopStep
    <3>1. CASE EpollWait
      BY <3>1, EpollWaitIInv
    <3>2. CASE DispatchEnd \/ DrainEnd \/ PurgeEnd
      BY <3>2, LoopOnlyIInv
    <3>3. CASE \E r \in rchannels : HandleEvent(r)
      <4> PICK r \in rchannels : HandleEvent(r)
        BY <3>3
      <4>1. CASE HandleGone(r) \/ HandleWake(r) \/ HandleTimer(r)
        BY <4>1, LoopOnlyIInv
      <4>2. CASE HandleMessage(r)
        BY <4>2, HandleMessageIInv
      <4>3. CASE HandleClose(r)
        BY <4>3, CloseIInv
      <4>4. CASE HandleWrite(r)
        BY <4>4, HandleWriteIInv
      <4> QED BY <4>1, <4>2, <4>3, <4>4 DEF HandleEvent
    <3>4. CASE CloseEraseLoop \/ CloseEraseServer
      BY <3>4, CloseIInv
    <3>5. CASE SendInLoop
      BY <3>5, SendInLoopIInv
    <3>6. CASE (\E f \in Fd : PurgeServer(f)) \/ PurgeLoop
      BY <3>6, PurgeIInv
    <3> QED BY <2>3, <3>1, <3>2, <3>3, <3>4, <3>5, <3>6 DEF LoopStep
  <2>4. CASE \E m \in Msg : OnMessage(m)
    BY <2>4, WorkerIInv
  <2>5. CASE \E m \in Msg, c \in Conn : PeerSend(m, c)
    BY <2>5, PeerSendIInv
  <2>6. CASE (\E c \in Conn : PeerClose(c) \/ WriteSpace(c) \/ TimesOut(c)) \/ TimerExpires
    BY <2>6, EnvironmentIInv
  <2>7. CASE UNCHANGED vars
    <3> USE <2>7 DEF vars, mainVars, mapVars, chanVars, sockVars, ioVars, workVars
    <3>1. NoneRevived
      BY DEF NoneRevived, Alive
    <3>2. TypeOK' /\ MsgInv' /\ EraseInv'
      BY DEF IInv, TypeOK, MsgInv, EraseInv
    <3> QED BY <3>1, <3>2, KeepsMapsIInv DEF KeepsMaps
  <2> QED BY <2>1, <2>2, <2>3, <2>4, <2>5, <2>6, <2>7 DEF Next
<1> QED BY <1>1, InitIInv, PTL DEF Spec

(* Type correctness.                                                         *)
THEOREM TypeCorrect == Spec => []TypeOK
<1>1. IInv => TypeOK
  BY DEF IInv
<1> QED BY <1>1, IInvHolds, PTL

(* The server's map holds no connection that the purge cannot find.          *)
THEOREM NoOrphanInServerMap == Spec => []ServerMapCovered
<1>1. IInv => ServerMapCovered
  BY DEF IInv
<1> QED BY <1>1, IInvHolds, PTL

(* Reusing descriptors confuses no two connections in the maps.              *)
THEOREM DescriptorReuseSafe == Spec => []InsertFindsNoEntry
<1>1. IInv => InsertFindsNoEntry
  <2> SUFFICES ASSUME IInv PROVE InsertFindsNoEntry
    OBVIOUS
  <2>1. TypeOK /\ FdInv
    BY DEF IInv
  <2>2. \A f \in Fd : /\ server[f] # None => /\ server[f] \in Conn /\ Alive(server[f])
                                             /\ fdOf[server[f]] = f
                      /\ conns[f] # None => /\ conns[f] \in Conn /\ Alive(conns[f])
                                            /\ fdOf[conns[f]] = f
    BY <2>1 DEF TypeOK, FdInv, Alive
  <2>3. \A c \in {newconn, closing} \ {None} : c \in Conn /\ Alive(c) /\ fdOf[c] \in Fd
    BY <2>1 DEF TypeOK, FdInv, Alive
  <2> QED BY <2>1, <2>2, <2>3 DEF FdInv, InsertFindsNoEntry
<1> QED BY <1>1, IInvHolds, PTL

(* What the IO thread is still to touch without a pointer is there, unless   *)
(* the connection was closed or purged.                                      *)
THEOREM NothingVanishes == Spec => []TouchedAreAlive
<1>1. IInv => TouchedAreAlive
  <2> SUFFICES ASSUME IInv PROVE TouchedAreAlive
    OBVIOUS
  <2>1. TypeOK /\ BatchInv /\ MsgInv /\ OpenInv
    BY DEF IInv
  <2>2. \A c \in Conn : fdOf[c] # None /\ c \notin disconnect \cup purged => Alive(c)
    BY <2>1 DEF OpenInv, TypeOK, Alive
  <2>3. \A i \in 1..Len(taskqueue) : /\ from[taskqueue[i]] \in Conn
                                     /\ fdOf[from[taskqueue[i]]] # None
    BY <2>1 DEF TypeOK, MsgInv
  <2> QED BY <2>1, <2>2, <2>3 DEF BatchInv, TouchedAreAlive
<1> QED BY <1>1, IInvHolds, PTL
=============================================================================
