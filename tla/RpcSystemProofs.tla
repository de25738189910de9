-------------------------- MODULE RpcSystemProofs ---------------------------
(***************************************************************************)
(* Theorems about RpcSystem, for any servers, clients, services and calls:  *)
(* what a server that serves has registered, a call runs at most once, and  *)
(* what it answers is its own reply, or an error's, unless an earlier call  *)
(* left a part of its answer unread.                                        *)
(***************************************************************************)
EXTENDS RpcSystem, SequenceLemmas, FiniteSetTheorems

PcStates == {"out", "lookup", "connect", "send", "recv", "looping", "dead"}
Phases == {"down", "zookeeper", "register", "serving", "stopping"}

-----------------------------------------------------------------------------
(* Registration                                                              *)

RegTypes ==
    /\ run \in [Proc -> Nat]
    /\ zk \in [Proc -> ZkStates]
    /\ live \subseteq Proc \X Nat
    /\ znodes \in [Path -> Nodes \cup {Absent}]
    /\ phase \in [Server -> Phases]
    /\ todo \in [Server -> Seq(Path)]
    /\ missing \in [Server -> BOOLEAN]
    /\ skipped \in [Server -> SUBSET Path]

OwnersLive ==
    \A x \in Path : znodes[x] # Absent /\ znodes[x].owner # Absent => znodes[x].owner \in live

(* Between Start and the end of the process, whatever has been dealt with   *)
(* and not been skipped is there, while the session is.                     *)
RegisteredBy(s) ==
    /\ phase[s] = "register" => todo[s] # <<>>
    /\ phase[s] = "serving" => todo[s] = <<>>
    /\ phase[s] # "down" /\ Session(s) \in live =>
         \A x \in Path : x \in ToSet(Paths(s)) =>
             x \in skipped[s] \/ x \in ToSet(todo[s]) \/ znodes[x] = Node(s, x)

Registered == \A s \in Server : RegisteredBy(s)

RegInv == RegTypes /\ OwnersLive /\ Registered

LEMMA PathsAreSeqs ==
  ASSUME NEW s \in Server
  PROVE  Paths(s) \in Seq(Path)
BY RpcAssumption

LEMMA ToSetTail ==
  ASSUME NEW S, NEW q \in Seq(S), q # <<>>, NEW x, x \in ToSet(q)
  PROVE  x = Head(q) \/ x \in ToSet(Tail(q))
<1>1. PICK i \in 1..Len(q) : x = q[i]
  BY DEF ToSet
<1>2. Tail(q) \in Seq(S) /\ Len(Tail(q)) = Len(q) - 1
  BY HeadTailProperties
<1>3. CASE i = 1
  BY <1>1, <1>3
<1>4. CASE i # 1
  <2>1. i - 1 \in 1..Len(Tail(q)) /\ Tail(q)[i - 1] = x
    BY <1>1, <1>2, <1>4, HeadTailProperties, LenProperties
  <2> QED BY <1>2, <2>1, LenProperties DEF ToSet
<1> QED BY <1>3, <1>4

LEMMA NodeThere ==
  ASSUME NEW s \in Server, Session(s) \in Proc \X Nat, NEW x
  PROVE  /\ Node(s, x) \in Nodes /\ Node(s, x) # Absent
         /\ Node(s, x).owner \in {Absent, Session(s)}
<1>1. Session(s) \in Server \X Nat
  BY DEF Session
<1>2. Node(s, x) \in Nodes
  BY <1>1 DEF Node, Nodes
<1> QED BY <1>2, RpcAssumption DEF Node

LEMMA InitRegInv == Init => RegInv
BY DEF Init, ZkClientInit, ServerInit, RegInv, RegTypes, OwnersLive, Registered, RegisteredBy,
       Phases, ZkStates, Proc

LEMMA ServersOwnSessions ==
  ASSUME RegTypes, NEW s \in Server
  PROVE  s \in Proc /\ Session(s) \in Proc \X Nat /\ run[s] \in Nat
BY DEF RegTypes, Session, Proc

(* What a step does not touch of a server stays registered.                 *)
LEMMA StaysRegistered ==
  ASSUME NEW s \in Server, RegisteredBy(s),
         run'[s] = run[s], phase'[s] = phase[s], todo'[s] = todo[s], skipped'[s] = skipped[s],
         Session(s) \in live' => Session(s) \in live,
         \A x \in Path : Session(s) \in live' /\ znodes[x] = Node(s, x) => znodes'[x] = Node(s, x)
  PROVE  RegisteredBy(s)'
<1>1. Session(s)' = Session(s) /\ \A x : Node(s, x)' = Node(s, x) /\ Paths(s)' = Paths(s)
  BY DEF Session, Node, Paths
<1> QED BY <1>1 DEF RegisteredBy

(* Sessions end, those of processes that have ended included.               *)
LEMMA SessionEndsReg ==
  ASSUME RegInv, NEW x \in Proc \X Nat, live' = live \ {x}, znodes' = NodesWithout(x),
         UNCHANGED <<phase, todo, missing, skipped, run, zk>>
  PROVE  RegInv'
<1>1. \A y \in Path : znodes'[y] = IF znodes[y] # Absent /\ znodes[y].owner = x
                                     THEN Absent ELSE znodes[y]
  BY DEF NodesWithout
<1>2. RegTypes'
  BY DEF RegInv, RegTypes, NodesWithout
<1>3. OwnersLive'
  BY <1>1 DEF RegInv, OwnersLive
<1>4. ASSUME NEW s \in Server PROVE RegisteredBy(s)'
  <2>1. ASSUME NEW y \in Path, Session(s) # x, znodes[y] = Node(s, y)
        PROVE  znodes'[y] = Node(s, y)
    <3>1. znodes[y].owner # x
      BY <2>1, NodeThere, ServersOwnSessions, RpcAssumption DEF RegInv
    <3> QED BY <1>1, <2>1, <3>1
  <2> QED BY <2>1, StaysRegistered DEF RegInv, Registered
<1> QED BY <1>2, <1>3, <1>4 DEF RegInv, Registered

(* A process ends: its phase, if it is a server, is down afterwards.        *)
LEMMA EndsReg ==
  ASSUME RegInv, NEW p \in Proc, HandleLost(p), UNCHANGED <<live, znodes>>,
         \/ p \notin Server /\ UNCHANGED <<phase, todo, missing, skipped>>
         \/ /\ phase' = [phase EXCEPT ![p] = "down"]
            /\ todo' = [todo EXCEPT ![p] = <<>>]
            /\ missing' = [missing EXCEPT ![p] = FALSE]
            /\ skipped' = [skipped EXCEPT ![p] = {}]
  PROVE  RegInv'
<1>1. RegTypes'
  <2>1. run' \in [Proc -> Nat] /\ zk' \in [Proc -> ZkStates]
    BY DEF RegInv, RegTypes, HandleLost, ZkStates
  <2>2. phase' \in [Server -> Phases] /\ missing' \in [Server -> BOOLEAN]
    BY DEF RegInv, RegTypes, Phases
  <2>3. todo' \in [Server -> Seq(Path)]
    <3>1. <<>> \in Seq(Path)
      BY EmptySeq
    <3>2. todo' = todo \/ todo' = [todo EXCEPT ![p] = <<>>]
      OBVIOUS
    <3>3. todo \in [Server -> Seq(Path)]
      BY DEF RegInv, RegTypes
    <3> QED BY <3>1, <3>2, <3>3
  <2>4. skipped' \in [Server -> SUBSET Path]
    BY DEF RegInv, RegTypes
  <2> QED BY <2>1, <2>2, <2>3, <2>4 DEF RegInv, RegTypes
<1>2. OwnersLive'
  BY DEF RegInv, OwnersLive
<1>3. ASSUME NEW s \in Server PROVE RegisteredBy(s)'
  <2>1. CASE s = p
    BY <2>1 DEF RegisteredBy, RegInv, RegTypes
  <2>2. CASE s # p
    BY <2>2, StaysRegistered DEF HandleLost, RegInv, Registered, RegTypes
  <2> QED BY <2>1, <2>2
<1> QED BY <1>1, <1>2, <1>3 DEF RegInv, Registered

(* A process opens a session.                                               *)
LEMMA ZkInitReg ==
  ASSUME RegInv, NEW p \in Proc, ZkInit(p),
         \/ p \notin Server /\ UNCHANGED <<phase, todo, missing, skipped>>
         \/ p \in Server /\ Start(p)
  PROVE  RegInv'
<1>1. RegTypes'
  <2>1. run' \in [Proc -> Nat] /\ zk' \in [Proc -> ZkStates] /\ live' \subseteq Proc \X Nat
    BY DEF RegInv, RegTypes, ZkInit, ZkStates, Session
  <2>2. phase' \in [Server -> Phases] /\ missing' \in [Server -> BOOLEAN]
    BY DEF RegInv, RegTypes, Phases, Start
  <2>3. todo' \in [Server -> Seq(Path)] /\ skipped' \in [Server -> SUBSET Path]
    BY PathsAreSeqs DEF RegInv, RegTypes, Start
  <2> QED BY <2>1, <2>2, <2>3 DEF RegInv, RegTypes, ZkInit
<1>2. OwnersLive'
  BY DEF RegInv, OwnersLive, ZkInit
<1>3. ASSUME NEW s \in Server PROVE RegisteredBy(s)'
  <2>1. CASE s = p
    <3>1. phase'[s] = "zookeeper" /\ todo'[s] = Paths(s)
      BY <2>1 DEF Start, RegInv, RegTypes
    <3> QED BY <3>1 DEF RegisteredBy, Paths
  <2>2. CASE s # p
    BY <2>2, StaysRegistered DEF ZkInit, Session, Start, RegInv, Registered, RegTypes
  <2> QED BY <2>1, <2>2
<1> QED BY <1>1, <1>2, <1>3 DEF RegInv, Registered

LEMMA ZkConnectedReg ==
  ASSUME RegInv, NEW p \in Proc, ZkConnected(p), UNCHANGED <<phase, todo, missing, skipped>>
  PROVE  RegInv'
<1>1. RegTypes'
  BY DEF RegInv, RegTypes, ZkConnected, ZkStates
<1>2. OwnersLive'
  BY DEF RegInv, OwnersLive, ZkConnected
<1>3. ASSUME NEW s \in Server PROVE RegisteredBy(s)'
  BY StaysRegistered DEF ZkConnected, RegInv, Registered
<1> QED BY <1>1, <1>2, <1>3 DEF RegInv, Registered

LEMMA ZkStartedReg ==
  ASSUME RegInv, NEW s \in Server, ZkStarted(s)
  PROVE  RegInv'
<1> USE DEF ZkStarted, zkVars
<1>1. RegTypes'
  BY DEF RegInv, RegTypes, Phases
<1>2. OwnersLive'
  BY DEF RegInv, OwnersLive
<1>3. ASSUME NEW r \in Server PROVE RegisteredBy(r)'
  <2>1. CASE r = s
    <3>1. /\ Paths(r)' = Paths(r) /\ Session(r)' = Session(r)
          /\ \A x : Node(r, x)' = Node(r, x)
      BY DEF Paths, Session, Node
    <3> QED BY <2>1, <3>1 DEF RegisteredBy, RegInv, Registered, RegTypes
  <2>2. CASE r # s
    BY <2>2, StaysRegistered DEF RegInv, Registered, RegTypes
  <2> QED BY <2>1, <2>2
<1> QED BY <1>1, <1>2, <1>3 DEF RegInv, Registered

LEMMA StopReg ==
  ASSUME RegInv, NEW s \in Server, Stop(s)
  PROVE  RegInv'
<1> USE DEF Stop, zkVars
<1>1. RegTypes'
  BY DEF RegInv, RegTypes, Phases
<1>2. OwnersLive'
  BY DEF RegInv, OwnersLive
<1>3. ASSUME NEW r \in Server PROVE RegisteredBy(r)'
  <2>1. CASE r = s
    <3>1. /\ Paths(r)' = Paths(r) /\ Session(r)' = Session(r)
          /\ \A x : Node(r, x)' = Node(r, x)
      BY DEF Paths, Session, Node
    <3> QED BY <2>1, <3>1 DEF RegisteredBy, RegInv, Registered, RegTypes
  <2>2. CASE r # s
    BY <2>2, StaysRegistered DEF RegInv, Registered, RegTypes
  <2> QED BY <2>1, <2>2
<1> QED BY <1>1, <1>2, <1>3 DEF RegInv, Registered

(* The first path has been found or created.                                *)
LEMMA NextPathTypes ==
  ASSUME RegInv, NEW s \in Server, NextPath(s), phase[s] = "register"
  PROVE  /\ todo[s] \in Seq(Path) /\ todo[s] # <<>> /\ Head(todo[s]) \in Path
         /\ todo' \in [Server -> Seq(Path)] /\ phase' \in [Server -> Phases]
         /\ todo'[s] = Tail(todo[s])
         /\ phase'[s] = "register" => todo'[s] # <<>>
         /\ phase'[s] = "serving" => todo'[s] = <<>>
<1>1. todo[s] \in Seq(Path) /\ todo[s] # <<>>
  BY DEF RegInv, RegTypes, Registered, RegisteredBy
<1>2. /\ Head(todo[s]) \in Path /\ Tail(todo[s]) \in Seq(Path)
      /\ Len(Tail(todo[s])) = Len(todo[s]) - 1 /\ Len(todo[s]) \in Nat
  BY <1>1, HeadTailProperties, LenProperties
<1>3. Len(todo[s]) = 1 <=> Tail(todo[s]) = <<>>
  <2>1. Tail(todo[s]) # <<>> => Len(Tail(todo[s])) \in Nat \ {0}
    BY <1>2, EmptySeq
  <2>2. Tail(todo[s]) = <<>> => Len(Tail(todo[s])) = 0
    BY EmptySeq
  <2> QED BY <1>2, <2>1, <2>2
<1>4. todo' \in [Server -> Seq(Path)] /\ todo'[s] = Tail(todo[s])
  BY <1>2 DEF NextPath, RegInv, RegTypes
<1>5. /\ phase' \in [Server -> Phases]
      /\ phase'[s] = IF Len(todo[s]) = 1 THEN "serving" ELSE "register"
  BY DEF NextPath, RegInv, RegTypes, Phases
<1> QED BY <1>1, <1>2, <1>3, <1>4, <1>5

LEMMA ExistsReg ==
  ASSUME RegInv, NEW s \in Server, Exists(s)
  PROVE  RegInv'
<1> USE DEF zkVars
<1>1. phase[s] = "register" /\ UNCHANGED <<run, zk, live, znodes>>
  BY DEF Exists
<1>2. OwnersLive'
  BY <1>1 DEF RegInv, OwnersLive
<1>3. CASE SaysNoNode(s, Head(todo[s]))
  <2>1. missing' = [missing EXCEPT ![s] = TRUE] /\ UNCHANGED <<phase, todo, skipped>>
    BY <1>3 DEF Exists
  <2>2. RegTypes'
    BY <1>1, <2>1 DEF RegInv, RegTypes
  <2>3. ASSUME NEW r \in Server PROVE RegisteredBy(r)'
    BY <1>1, <2>1, StaysRegistered DEF RegInv, Registered
  <2> QED BY <1>2, <2>2, <2>3 DEF RegInv, Registered
<1>4. CASE ~SaysNoNode(s, Head(todo[s]))
  <2>1. /\ NextPath(s) /\ skipped' = [skipped EXCEPT ![s] = @ \cup {Head(todo[s])}]
        /\ UNCHANGED missing
    BY <1>4 DEF Exists
  <2>2. RegTypes'
    BY <1>1, <2>1, NextPathTypes DEF RegInv, RegTypes
  <2>3. ASSUME NEW r \in Server PROVE RegisteredBy(r)'
    <3>1. CASE r = s
      <4>1. /\ Paths(r)' = Paths(r) /\ Session(r)' = Session(r)
            /\ \A x : Node(r, x)' = Node(r, x)
        BY <1>1 DEF Paths, Session, Node
      <4>2. skipped'[r] = skipped[r] \cup {Head(todo[r])}
        BY <2>1, <3>1 DEF RegInv, RegTypes
      <4>3. \A x : x \in ToSet(todo[r]) => x = Head(todo[r]) \/ x \in ToSet(todo'[r])
        BY <1>1, <2>1, <3>1, NextPathTypes, ToSetTail
      <4>4. /\ phase'[r] = "register" => todo'[r] # <<>>
            /\ phase'[r] = "serving" => todo'[r] = <<>>
        BY <1>1, <2>1, <3>1, NextPathTypes
      <4> QED BY <1>1, <3>1, <4>1, <4>2, <4>3, <4>4 DEF RegInv, Registered, RegisteredBy
    <3>2. CASE r # s
      BY <1>1, <2>1, <3>2, StaysRegistered DEF NextPath, RegInv, Registered, RegTypes
    <3> QED BY <3>1, <3>2
  <2> QED BY <1>2, <2>2, <2>3 DEF RegInv, Registered
<1> QED BY <1>3, <1>4

(* What Create makes was not there: nobody's node is replaced.              *)
LEMMA CreateReg ==
  ASSUME RegInv, NEW s \in Server, phase[s] = "register",
         CreateSucceeds(s, Head(todo[s])), NextPath(s),
         znodes' = [znodes EXCEPT ![Head(todo[s])] = Node(s, Head(todo[s]))],
         missing' = [missing EXCEPT ![s] = FALSE],
         UNCHANGED <<skipped, run, zk, live>>
  PROVE  RegInv'
<1> DEFINE x == Head(todo[s])
<1>1. x \in Path /\ Session(s) \in live /\ znodes[x] = Absent
  BY NextPathTypes DEF CreateSucceeds
<1>2. Node(s, x) \in Nodes /\ Node(s, x).owner \in {Absent, Session(s)}
  BY NodeThere, ServersOwnSessions DEF RegInv
<1>3. RegTypes'
  <2>1. znodes' \in [Path -> Nodes \cup {Absent}]
    BY <1>1, <1>2 DEF RegInv, RegTypes
  <2> QED BY <2>1, NextPathTypes DEF RegInv, RegTypes
<1>4. \A y \in Path : znodes'[y] = IF y = x THEN Node(s, x) ELSE znodes[y]
  BY <1>1 DEF RegInv, RegTypes
<1>5. OwnersLive'
  BY <1>1, <1>2, <1>4 DEF RegInv, OwnersLive
<1>6. ASSUME NEW r \in Server PROVE RegisteredBy(r)'
  <2>1. /\ Paths(r)' = Paths(r) /\ Session(r)' = Session(r)
        /\ \A y : Node(r, y)' = Node(r, y)
    BY DEF Paths, Session, Node
  <2>2. \A y \in Path : znodes[y] = Node(r, y) => znodes'[y] = Node(r, y)
    BY <1>1, <1>4, NodeThere, ServersOwnSessions DEF RegInv
  <2>3. CASE r = s
    <3>1. \A y : y \in ToSet(todo[r]) => y = x \/ y \in ToSet(todo'[r])
      BY <2>3, NextPathTypes, ToSetTail
    <3>2. /\ phase'[r] = "register" => todo'[r] # <<>>
          /\ phase'[r] = "serving" => todo'[r] = <<>>
      BY <2>3, NextPathTypes
    <3> QED BY <1>4, <2>1, <2>2, <2>3, <3>1, <3>2 DEF RegInv, Registered, RegisteredBy
  <2>4. CASE r # s
    BY <2>2, <2>4, StaysRegistered DEF NextPath, RegInv, Registered, RegTypes
  <2> QED BY <2>3, <2>4
<1> QED BY <1>3, <1>5, <1>6 DEF RegInv, Registered

LEMMA GoneReg ==
  ASSUME RegInv, NEW s \in Server, ServerGone(s), UNCHANGED <<live, znodes>>
  PROVE  RegInv'
BY EndsReg DEF ServerGone, Proc

(* Stop's end is the end of the process and then of its session.            *)
LEMMA StoppedReg ==
  ASSUME RegInv, NEW s \in Server, Stopped(s)
  PROVE  RegInv'
<1>1. Session(s) \in Proc \X Nat /\ s \in Proc
  BY ServersOwnSessions DEF RegInv
<1>2. RegTypes'
  <2>1. run' \in [Proc -> Nat] /\ zk' \in [Proc -> ZkStates]
    BY <1>1 DEF RegInv, RegTypes, Stopped, ServerGone, HandleLost, ZkStates
  <2>2. phase' \in [Server -> Phases] /\ missing' \in [Server -> BOOLEAN]
    BY DEF RegInv, RegTypes, Phases, Stopped, ServerGone
  <2>3. todo' \in [Server -> Seq(Path)]
    <3>1. <<>> \in Seq(Path)
      BY EmptySeq
    <3>2. todo' = [todo EXCEPT ![s] = <<>>]
      BY DEF Stopped, ServerGone
    <3> QED BY <3>1, <3>2 DEF RegInv, RegTypes
  <2>4. skipped' \in [Server -> SUBSET Path] /\ live' \subseteq Proc \X Nat
    BY DEF RegInv, RegTypes, Stopped, ServerGone
  <2>5. znodes' \in [Path -> Nodes \cup {Absent}]
    BY DEF RegInv, RegTypes, Stopped, NodesWithout
  <2> QED BY <2>1, <2>2, <2>3, <2>4, <2>5 DEF RegTypes
<1>3. \A y \in Path : znodes'[y] = IF znodes[y] # Absent /\ znodes[y].owner = Session(s)
                                     THEN Absent ELSE znodes[y]
  BY DEF Stopped, NodesWithout
<1>4. OwnersLive'
  BY <1>3 DEF RegInv, OwnersLive, Stopped
<1>5. ASSUME NEW r \in Server PROVE RegisteredBy(r)'
  <2>1. CASE r = s
    BY <2>1 DEF Stopped, ServerGone, RegisteredBy, RegInv, RegTypes
  <2>2. CASE r # s
    <3>1. /\ run'[r] = run[r] /\ phase'[r] = phase[r] /\ todo'[r] = todo[r]
          /\ skipped'[r] = skipped[r] /\ live' \subseteq live
      BY <2>2 DEF Stopped, ServerGone, HandleLost, RegInv, RegTypes, Proc
    <3>2. ASSUME NEW y \in Path, znodes[y] = Node(r, y)
          PROVE  znodes'[y] = Node(r, y)
      <4>1. znodes[y].owner \in {Absent, Session(r)}
        BY <3>2, NodeThere, ServersOwnSessions DEF RegInv
      <4>2. znodes[y].owner # Session(s)
        BY <1>1, <2>2, <4>1, RpcAssumption DEF Session
      <4> QED BY <1>3, <3>2, <4>2
    <3> QED BY <3>1, <3>2, StaysRegistered DEF RegInv, Registered
  <2> QED BY <2>1, <2>2
<1> QED BY <1>2, <1>4, <1>5 DEF RegInv, Registered

LEMMA SameReg ==
  ASSUME RegInv, UNCHANGED <<registering, zkVars>>
  PROVE  RegInv'
BY DEF registering, zkVars, RegInv, RegTypes, OwnersLive, Registered, RegisteredBy,
       Session, Node, Paths

(* Clients are no servers: what they do concerns no server's registration.  *)
LEMMA ClientReg ==
  ASSUME RegInv, NEW c \in Client, ClientStep(c) \/ ClientDies(c)
  PROVE  RegInv'
<1>1. c \in Proc /\ c \notin Server
  BY RpcAssumption DEF Proc
<1> USE DEF serverVars, registering, zkVars
<1>2. CASE InitChannel(c)
  BY <1>1, <1>2, ZkInitReg DEF InitChannel
<1>3. CASE ChannelConnected(c)
  BY <1>1, <1>3, ZkConnectedReg DEF ChannelConnected
<1>4. CASE ClientDies(c) \/ Send(c) \/ RecvEnd(c)
  <2>1. CASE Dies(c) /\ UNCHANGED <<serverVars, live, znodes>>
    BY <1>1, <2>1, EndsReg DEF Dies
  <2>2. CASE UNCHANGED <<serverVars, zkVars>>
    BY <2>2, SameReg
  <2> QED BY <1>4, <2>1, <2>2 DEF ClientDies, Send, RecvEnd
<1>5. CASE CallMethod(c) \/ Connect(c) \/ Recv(c)
  BY <1>5, SameReg DEF CallMethod, Connect, Recv
<1>6. CASE Lookup(c)
  <2>1. CASE Dies(c) /\ UNCHANGED <<serverVars, live, znodes>>
    BY <1>1, <2>1, EndsReg DEF Dies
  <2>2. CASE UNCHANGED <<serverVars, zkVars>>
    BY <2>2, SameReg
  <2> QED BY <1>6, <2>1, <2>2 DEF Lookup
<1> QED BY <1>2, <1>3, <1>4, <1>5, <1>6 DEF ClientStep, Works

LEMMA ServerReg ==
  ASSUME RegInv, NEW s \in Server, ServerStep(s) \/ ServerFault(s)
  PROVE  RegInv'
<1>1. s \in Proc
  BY DEF Proc
<1>2. CASE Start(s)
  BY <1>1, <1>2, ZkInitReg DEF Start
<1>3. CASE ServerConnected(s)
  BY <1>1, <1>3, ZkConnectedReg DEF ServerConnected, serverVars
<1>4. CASE ZkStarted(s) \/ Exists(s) \/ Stop(s) \/ Stopped(s)
  BY <1>4, ZkStartedReg, ExistsReg, StopReg, StoppedReg
<1>5. CASE Create(s)
  BY <1>5, CreateReg, GoneReg DEF Create
<1>6. CASE ServerDies(s)
  BY <1>6, GoneReg DEF ServerDies
<1>7. CASE \E c \in Client : Serves(s, c) \/ DropIdle(s, c)
  BY <1>7, SameReg
     DEF Serves, HandleMessage, OnMessage, SendReplies, DropIdle, serverVars, registering
<1> QED BY <1>2, <1>3, <1>4, <1>5, <1>6, <1>7 DEF ServerStep, ServerFault, ServerWorks

(* What is registered, and by whom, at every moment.                        *)
THEOREM RegInvHolds == Spec => []RegInv
<1>1. Init => RegInv
  BY InitRegInv
<1>2. RegInv /\ [Next]_vars => RegInv'
  <2> SUFFICES ASSUME RegInv, [Next]_vars PROVE RegInv'
    OBVIOUS
  <2>1. ASSUME NEW s \in Server, ServerStep(s) \/ ServerFault(s) PROVE RegInv'
    BY <2>1, ServerReg
  <2>2. ASSUME NEW c \in Client, ClientStep(c) \/ ClientDies(c) PROVE RegInv'
    BY <2>2, ClientReg
  <2>3. ASSUME NEW x \in live, SessionTimeout(x) PROVE RegInv'
    <3>1. x \in Proc \X Nat
      BY DEF RegInv, RegTypes
    <3> QED BY <2>3, <3>1, SessionEndsReg DEF SessionTimeout, SessionEnds, serverVars
  <2>4. CASE UNCHANGED vars
    BY <2>4, SameReg DEF vars, serverVars, registering
  <2> QED BY <2>1, <2>2, <2>3, <2>4 DEF Next, Step, Fault
<1> QED BY <1>1, <1>2, PTL DEF Spec

(* While its session lasts, a server that serves has the nodes of its        *)
(* methods, unless Start found the path taken (rpc_server.cc:31-44); and if   *)
(* it listens where its configuration says (rpc_server.cc:4, config.cc:94-95) *)
(* whoever looks a method up is led to it.                                   *)
THEOREM ServedMethodsFound == Spec => []ServedMethodsAreFound
<1>1. RegInv => ServedMethodsAreFound
  <2> SUFFICES ASSUME RegInv, NEW s \in Server, phase[s] = "serving", Session(s) \in live,
                      NEW x \in ToSet(Paths(s)) \ skipped[s]
               PROVE  /\ znodes[x] = Node(s, x)
                      /\ Len(x) = 2 /\ method_path_data(s) = Listens(s) => LeadsTo(s, x)
    BY DEF ServedMethodsAreFound
  <2>1. x \in Path
    BY PathsAreSeqs, ElementOfSeq, LenProperties DEF ToSet
  <2>2. x \notin ToSet(todo[s])
    <3>1. todo[s] = <<>>
      BY DEF RegInv, Registered, RegisteredBy
    <3> QED BY <3>1 DEF ToSet
  <2>3. znodes[x] = Node(s, x)
    BY <2>1, <2>2 DEF RegInv, Registered, RegisteredBy
  <2>4. ASSUME Len(x) = 2, method_path_data(s) = Listens(s),
               NEW c \in Client, Session(c) \in live
        PROVE  ListensAt(s, GetData(c, x))
    <3>1. Node(s, x) # Absent /\ Node(s, x).data = method_path_data(s)
      BY <2>4, NodeThere, ServersOwnSessions DEF Node, RegInv
    <3>2. GetData(c, x) = Listens(s)
      BY <2>1, <2>3, <2>4, <3>1 DEF GetData
    <3> QED BY <3>2 DEF ListensAt
  <2> QED BY <2>3, <2>4 DEF LeadsTo
<1> QED BY <1>1, RegInvHolds, PTL

-----------------------------------------------------------------------------
(* At most one execution                                                     *)

Statuses == {"idle", "calling", "failed", "silent", "answered"}
Piece == [msg : {Request(k) : k \in Call}, part : {"head", "tail"}]

(* Where pieces of client c's requests are: place <<0, j>> is in the stream, *)
(* <<i, j>> in the i-th chunk the workers have to take.                      *)
Stream(c, i) == IF i = 0 THEN c2s[c] ELSE queued[c][i]

Places(c) == {p \in Nat \X Nat : /\ p[1] <= Len(queued[c])
                                 /\ 1 <= p[2] /\ p[2] <= Len(Stream(c, p[1]))}

At(c, p) == Stream(c, p[1])[p[2]]

Heads(c, k) == {p \in Places(c) : At(c, p).part = "head" /\ At(c, p).msg.call = k}

(* Nothing of the call has been sent yet.                                    *)
Clean(k) ==
    \/ status[k] \in {"idle", "failed"}
    \/ /\ status[k] = "calling" /\ k = This(k[1])
       /\ pc[k[1]] \in {"lookup", "connect", "send"}

CallTypes ==
    /\ pc \in [Client -> PcStates]
    /\ current \in [Client -> Nat]
    /\ status \in [Call -> Statuses]
    /\ executed \in [Call -> {0, 1}]
    /\ c2s \in [Client -> Seq(Piece)]
    /\ queued \in [Client -> Seq(Seq(Piece))]

Control ==
    /\ \A c \in Client : pc[c] \in {"lookup", "connect", "send", "recv"} =>
         This(c) \in Call /\ status[This(c)] = "calling"
    /\ \A k \in Call : status[k] = "idle" <=> k[2] > current[k[1]]
    /\ \A k \in Call : Clean(k) => executed[k] = 0

(* One head of each call is on its way at most, and none once it has run.    *)
Flow(c) ==
    /\ \A p \in Places(c) : At(c, p).msg.call[1] = c
    /\ \A k \in Call : \A p, q \in Heads(c, k) : p = q
    /\ \A k \in Call : Heads(c, k) # {} => executed[k] = 0 /\ ~Clean(k)

CallInv == CallTypes /\ Control /\ \A c \in Client : Flow(c)

(* Every piece there is after a step was at one of the places kept before.   *)
Moved(c, kept) ==
    \E f \in [Places(c)' -> kept] :
        /\ \A p \in Places(c)' : At(c, p)' = At(c, f[p])
        /\ \A p, q \in Places(c)' : f[p] = f[q] => p = q

LEMMA CallParts ==
  /\ \A k \in Call : /\ k = <<k[1], k[2]>> /\ k[1] \in Client
                     /\ k[2] \in 1..Len(Script[k[1]]) /\ k[2] \in Nat \ {0}
  /\ \A c \in Client : Len(Script[c]) \in Nat
  /\ \A c \in Client : \A i \in 1..Len(Script[c]) : <<c, i>> \in Call
<1>1. \A c \in Client : DOMAIN Script[c] = 1..Len(Script[c]) /\ Len(Script[c]) \in Nat
  BY RpcAssumption, LenProperties
<1>2. \A k \in Call : \E c \in Client : \E i \in 1..Len(Script[c]) : k = <<c, i>>
  BY <1>1 DEF Call
<1>3. \A c \in Client : \A i \in 1..Len(Script[c]) : <<c, i>> \in Call
  BY <1>1 DEF Call
<1> QED BY <1>1, <1>2, <1>3

LEMMA PieceFields ==
  ASSUME CallTypes, NEW c \in Client, NEW p \in Places(c)
  PROVE  At(c, p) \in Piece /\ At(c, p).msg.call \in Call
<1>1. Stream(c, p[1]) \in Seq(Piece)
  BY ElementOfSeq DEF CallTypes, Stream, Places
<1>2. At(c, p) \in Piece
  BY <1>1, ElementOfSeq DEF At, Places
<1> QED BY <1>2 DEF Piece, Request

LEMMA SamePlaces ==
  ASSUME NEW c \in Client, c2s'[c] = c2s[c], queued'[c] = queued[c]
  PROVE  Places(c)' = Places(c) /\ Moved(c, Places(c))
<1>1. /\ Places(c)' = Places(c)
      /\ \A p \in Places(c) : At(c, p)' = At(c, p)
  BY DEF Places, At, Stream
<1>2. [p \in Places(c) |-> p] \in [Places(c)' -> Places(c)]
  BY <1>1
<1> QED BY <1>1, <1>2 DEF Moved

LEMMA NoPlaces ==
  ASSUME NEW c \in Client, c2s'[c] = <<>>, queued'[c] = <<>>
  PROVE  Moved(c, Places(c))
<1>1. Places(c)' = {}
  BY DEF Places, Stream
<1>2. [p \in {} |-> p] \in [Places(c)' -> Places(c)]
  BY <1>1
<1> QED BY <1>1, <1>2 DEF Moved

LEMMA FewerPlaces ==
  ASSUME NEW c \in Client, c2s'[c] = <<>>, queued'[c] = queued[c]
  PROVE  Moved(c, Places(c))
<1>1. ASSUME NEW p \in Places(c)'
      PROVE  p \in Places(c) /\ At(c, p)' = At(c, p)
  <2>1. p[1] # 0
    BY DEF Places, Stream
  <2>2. Stream(c, p[1])' = Stream(c, p[1])
    BY <2>1 DEF Stream
  <2> QED BY <2>2 DEF Places, At
<1>2. [p \in Places(c)' |-> p] \in [Places(c)' -> Places(c)]
  BY <1>1
<1> QED BY <1>1, <1>2 DEF Moved

(* What sequences are after SubSeq and RemoveAt.                             *)
LEMMA SuffixProperties ==
  ASSUME NEW S, NEW q \in Seq(S), NEW n \in 0..Len(q)
  PROVE  /\ SubSeq(q, n + 1, Len(q)) \in Seq(S)
         /\ Len(SubSeq(q, n + 1, Len(q))) = Len(q) - n
         /\ \A i \in 1..Len(q) - n : SubSeq(q, n + 1, Len(q))[i] = q[n + i]
<1>1. Len(q) \in Nat /\ n + 1 \in Int /\ Len(q) - (n + 1) + 1 = Len(q) - n
  BY LenProperties
<1>2. \A i \in n + 1..Len(q) : q[i] \in S
  BY <1>1, ElementOfSeq
<1>3. /\ SubSeq(q, n + 1, Len(q)) \in Seq(S)
      /\ Len(SubSeq(q, n + 1, Len(q))) = IF n + 1 <= Len(q) THEN Len(q) - (n + 1) + 1 ELSE 0
      /\ \A i \in 1..Len(q) - (n + 1) + 1 : SubSeq(q, n + 1, Len(q))[i] = q[n + 1 + i - 1]
  BY <1>1, <1>2, SubSeqProperties
<1>4. Len(SubSeq(q, n + 1, Len(q))) = Len(q) - n
  <2>1. CASE n + 1 <= Len(q)
    BY <1>1, <1>3, <2>1
  <2>2. CASE n = Len(q)
    <3>1. ~(n + 1 <= Len(q)) /\ Len(q) - n = 0
      BY <1>1, <2>2
    <3> QED BY <1>3, <3>1
  <2>3. n + 1 <= Len(q) \/ n = Len(q)
    BY LenProperties
  <2> QED BY <2>1, <2>2, <2>3
<1>5. ASSUME NEW i \in 1..Len(q) - n
      PROVE  SubSeq(q, n + 1, Len(q))[i] = q[n + i]
  <2>1. i \in 1..Len(q) - (n + 1) + 1 /\ n + 1 + i - 1 = n + i
    BY <1>1
  <2> QED BY <1>3, <2>1
<1> QED BY <1>3, <1>4, <1>5

LEMMA PrefixProperties ==
  ASSUME NEW S, NEW q \in Seq(S), NEW n \in 0..Len(q)
  PROVE  /\ SubSeq(q, 1, n) \in Seq(S)
         /\ Len(SubSeq(q, 1, n)) = n
         /\ \A i \in 1..n : SubSeq(q, 1, n)[i] = q[i]
<1>1. Len(q) \in Nat
  BY LenProperties
<1>2. \A i \in 1..n : q[i] \in S
  BY <1>1, ElementOfSeq
<1> QED BY <1>1, <1>2, SubSeqProperties

LEMMA RemoveAtProperties ==
  ASSUME NEW S, NEW q \in Seq(S), NEW r \in 1..Len(q)
  PROVE  /\ RemoveAt(q, r) \in Seq(S)
         /\ Len(RemoveAt(q, r)) = Len(q) - 1
         /\ \A i \in 1..r - 1 : RemoveAt(q, r)[i] = q[i]
         /\ \A i \in r..Len(q) - 1 : RemoveAt(q, r)[i] = q[i + 1]
<1> DEFINE a == SubSeq(q, 1, r - 1)
           b == SubSeq(q, r + 1, Len(q))
<1>1. Len(q) \in Nat
  BY LenProperties
<1>2. a \in Seq(S) /\ Len(a) = r - 1 /\ \A i \in 1..r - 1 : a[i] = q[i]
  BY <1>1, PrefixProperties
<1>3. b \in Seq(S) /\ Len(b) = Len(q) - r /\ \A i \in 1..Len(q) - r : b[i] = q[r + i]
  BY <1>1, SuffixProperties
<1>4. RemoveAt(q, r) = a \o b
  BY DEF RemoveAt
<1> HIDE DEF a, b
<1>5. /\ a \o b \in Seq(S) /\ Len(a \o b) = Len(a) + Len(b)
      /\ \A i \in 1..Len(a) + Len(b) :
           (a \o b)[i] = IF i <= Len(a) THEN a[i] ELSE b[i - Len(a)]
  BY <1>2, <1>3, ConcatProperties
<1>6. ASSUME NEW i \in 1..r - 1 PROVE (a \o b)[i] = q[i]
  BY <1>1, <1>2, <1>3, <1>5
<1>7. ASSUME NEW i \in r..Len(q) - 1 PROVE (a \o b)[i] = q[i + 1]
  <2>1. i - (r - 1) \in 1..Len(q) - r /\ r + (i - (r - 1)) = i + 1
    BY <1>1
  <2>2. (a \o b)[i] = b[i - (r - 1)]
    BY <1>1, <1>2, <1>3, <1>5
  <2> QED BY <1>3, <2>1, <2>2
<1> QED BY <1>1, <1>2, <1>3, <1>4, <1>5, <1>6, <1>7

(* An IO thread makes a task of what it has read.                            *)
LEMMA HandledPlaces ==
  ASSUME CallTypes, NEW c \in Client, NEW chunk \in Reads(c2s[c]),
         c2s'[c] = Rest(c2s[c], chunk), queued'[c] = Append(queued[c], chunk)
  PROVE  Moved(c, Places(c)) /\ chunk \in Seq(Piece) /\ Rest(c2s[c], chunk) \in Seq(Piece)
<1> DEFINE q == c2s[c]
           m == Len(queued[c])
<1>1. q \in Seq(Piece) /\ queued[c] \in Seq(Seq(Piece))
  BY DEF CallTypes
<1>2. PICK n \in 1..Len(q) : chunk = SubSeq(q, 1, n)
  BY DEF Reads
<1>3. Len(q) \in Nat /\ m \in Nat /\ n \in Nat
  BY <1>1, LenProperties
<1>4. /\ chunk \in Seq(Piece) /\ Len(chunk) = n
      /\ \A i \in 1..n : chunk[i] = q[i]
  BY <1>1, <1>2, <1>3, PrefixProperties
<1>5. /\ c2s'[c] \in Seq(Piece) /\ Len(c2s'[c]) = Len(q) - n
      /\ \A i \in 1..Len(q) - n : c2s'[c][i] = q[n + i]
  BY <1>1, <1>3, <1>4, SuffixProperties DEF Rest
<1>6. /\ Len(queued'[c]) = m + 1 /\ queued'[c][m + 1] = chunk
      /\ \A i \in 1..m : queued'[c][i] = queued[c][i]
  BY <1>1, <1>4, AppendProperties
<1> DEFINE f == [p \in Places(c)' |-> IF p[1] = 0 THEN <<0, p[2] + n>>
                                      ELSE IF p[1] = m + 1 THEN <<0, p[2]>> ELSE p]
<1>7. ASSUME NEW p \in Places(c)'
      PROVE  /\ p \in Nat \X Nat /\ p[1] \in 0..m + 1 /\ 1 <= p[2]
             /\ p[1] = 0 => p[2] <= Len(q) - n /\ At(c, p)' = q[n + p[2]]
             /\ p[1] = m + 1 => p[2] <= n /\ At(c, p)' = q[p[2]]
             /\ p[1] \in 1..m => p[2] <= Len(queued[c][p[1]]) /\ At(c, p)' = queued[c][p[1]][p[2]]
  <2>1. p \in Nat \X Nat /\ p[1] \in 0..m + 1 /\ 1 <= p[2]
    BY <1>3, <1>6 DEF Places
  <2>2. p[2] <= Len(Stream(c, p[1])') /\ At(c, p)' = Stream(c, p[1])'[p[2]]
    BY DEF Places, At
  <2>3. p[1] = 0 => Stream(c, p[1])' = c2s'[c]
    BY DEF Stream
  <2>4. p[1] # 0 => Stream(c, p[1])' = queued'[c][p[1]]
    BY DEF Stream
  <2>5. ASSUME p[1] = 0 PROVE p[2] <= Len(q) - n /\ At(c, p)' = q[n + p[2]]
    <3>1. p[2] <= Len(c2s'[c]) /\ At(c, p)' = c2s'[c][p[2]]
      BY <2>2, <2>3, <2>5, Zenon
    <3>2. p[2] \in 1..Len(q) - n
      BY <1>3, <1>5, <2>1, <3>1
    <3> QED BY <1>3, <1>5, <3>1, <3>2
  <2>6. ASSUME p[1] = m + 1 PROVE p[2] <= n /\ At(c, p)' = q[p[2]]
    <3>1. Stream(c, p[1])' = chunk
      BY <1>3, <1>6, <2>4, <2>6
    <3> QED BY <1>3, <1>4, <2>1, <2>2, <3>1
  <2>7. ASSUME p[1] \in 1..m
        PROVE  p[2] <= Len(queued[c][p[1]]) /\ At(c, p)' = queued[c][p[1]][p[2]]
    BY <1>3, <1>6, <2>2, <2>4, <2>7
  <2> QED BY <2>1, <2>5, <2>6, <2>7
<1>8. ASSUME NEW p \in Places(c)'
      PROVE  /\ p[1] = 0 => f[p] = <<0, p[2] + n>>
             /\ p[1] = m + 1 => f[p] = <<0, p[2]>>
             /\ p[1] \in 1..m => f[p] = p
  BY <1>3
<1>9. f = [p \in Places(c)' |-> f[p]]
  OBVIOUS
<1> HIDE DEF f, m, q
<1>10. ASSUME NEW i \in Nat, NEW j \in Nat, 1 <= j, i <= m, j <= Len(Stream(c, i))
       PROVE  <<i, j>> \in Places(c) /\ At(c, <<i, j>>) = Stream(c, i)[j]
  BY <1>10 DEF Places, At, m
<1>11. Stream(c, 0) = q /\ \A i \in 1..m : Stream(c, i) = queued[c][i]
  BY <1>3 DEF Stream, q
<1>12. ASSUME NEW p \in Places(c)'
       PROVE  f[p] \in Places(c) /\ At(c, p)' = At(c, f[p])
  <2>1. p \in Nat \X Nat /\ p[1] \in 0..m + 1 /\ 1 <= p[2]
    BY <1>7
  <2>2. CASE p[1] = 0
    <3>1. p[2] + n \in Nat /\ 1 <= p[2] + n /\ p[2] + n <= Len(q) /\ n + p[2] = p[2] + n
      BY <1>3, <1>7, <2>1, <2>2
    <3>2. f[p] = <<0, p[2] + n>> /\ At(c, p)' = q[p[2] + n]
      BY <1>7, <1>8, <2>2, <3>1
    <3>3. <<0, p[2] + n>> \in Places(c) /\ At(c, <<0, p[2] + n>>) = q[p[2] + n]
      BY <1>3, <1>10, <1>11, <3>1
    <3> QED BY <3>2, <3>3
  <2>3. CASE p[1] = m + 1
    <3>1. p[2] \in Nat /\ 1 <= p[2] /\ p[2] <= Len(q)
      BY <1>2, <1>3, <1>7, <2>1, <2>3 DEF q
    <3> QED BY <1>3, <1>7, <1>8, <1>10, <1>11, <2>3, <3>1
  <2>4. CASE p[1] \in 1..m
    <3>1. p = <<p[1], p[2]>> /\ f[p] = p /\ p[1] \in Nat /\ p[2] \in Nat /\ p[1] <= m
      BY <1>3, <1>8, <2>1, <2>4
    <3>2. At(c, p)' = Stream(c, p[1])[p[2]] /\ p[2] <= Len(Stream(c, p[1]))
      BY <1>7, <1>11, <2>4
    <3>3. /\ <<p[1], p[2]>> \in Places(c)
          /\ At(c, <<p[1], p[2]>>) = Stream(c, p[1])[p[2]]
      BY <1>10, <2>1, <3>1, <3>2
    <3> QED BY <3>1, <3>2, <3>3
  <2> QED BY <1>3, <2>1, <2>2, <2>3, <2>4
<1>13. ASSUME NEW p \in Places(c)', NEW r \in Places(c)', f[p] = f[r]
       PROVE  p = r
  <2>1. p \in Nat \X Nat /\ p[1] \in 0..m + 1 /\ 1 <= p[2] /\ (p[1] = m + 1 => p[2] <= n)
    BY <1>7
  <2>2. r \in Nat \X Nat /\ r[1] \in 0..m + 1 /\ 1 <= r[2] /\ (r[1] = m + 1 => r[2] <= n)
    BY <1>7
  <2>3. /\ p[1] = 0 => f[p][1] = 0 /\ f[p][2] = p[2] + n
        /\ p[1] = m + 1 => f[p][1] = 0 /\ f[p][2] = p[2]
        /\ p[1] \in 1..m => f[p][1] = p[1] /\ f[p][2] = p[2]
    BY <1>8
  <2>4. /\ r[1] = 0 => f[p][1] = 0 /\ f[p][2] = r[2] + n
        /\ r[1] = m + 1 => f[p][1] = 0 /\ f[p][2] = r[2]
        /\ r[1] \in 1..m => f[p][1] = r[1] /\ f[p][2] = r[2]
    BY <1>8, <1>13
  <2>5. p[1] = r[1] /\ p[2] = r[2]
    BY <1>3, <2>1, <2>2, <2>3, <2>4, SMTT(20)
  <2> QED BY <2>1, <2>2, <2>5
<1>14. f \in [Places(c)' -> Places(c)]
  BY <1>9, <1>12
<1> QED BY <1>4, <1>5, <1>12, <1>13, <1>14 DEF Moved

(* A worker takes the r-th chunk.                                            *)
LEMMA TakenPlaces ==
  ASSUME CallTypes, NEW c \in Client, NEW r \in DOMAIN queued[c],
         c2s'[c] = c2s[c], queued'[c] = RemoveAt(queued[c], r)
  PROVE  /\ Moved(c, {p \in Places(c) : p[1] # r})
         /\ RemoveAt(queued[c], r) \in Seq(Seq(Piece))
<1> DEFINE m == Len(queued[c])
           kept == {p \in Places(c) : p[1] # r}
           f == [p \in Places(c)' |-> IF p[1] < r THEN p ELSE <<p[1] + 1, p[2]>>]
<1>1. queued[c] \in Seq(Seq(Piece))
  BY DEF CallTypes
<1>2. m \in Nat /\ r \in 1..m
  BY <1>1, LenProperties
<1>3. /\ queued'[c] \in Seq(Seq(Piece)) /\ Len(queued'[c]) = m - 1
      /\ \A i \in 1..r - 1 : queued'[c][i] = queued[c][i]
      /\ \A i \in r..m - 1 : queued'[c][i] = queued[c][i + 1]
  BY <1>1, <1>2, RemoveAtProperties
<1>4. ASSUME NEW p \in Places(c)'
      PROVE  /\ p \in Nat \X Nat /\ p[1] \in 0..m - 1 /\ 1 <= p[2]
             /\ p[1] < r => Stream(c, p[1])' = Stream(c, p[1])
             /\ p[1] >= r => Stream(c, p[1])' = Stream(c, p[1] + 1)
             /\ p[2] <= Len(Stream(c, p[1])') /\ At(c, p)' = Stream(c, p[1])'[p[2]]
  <2>1. p \in Nat \X Nat /\ p[1] \in 0..m - 1 /\ 1 <= p[2]
    BY <1>2, <1>3 DEF Places
  <2>2. p[2] <= Len(Stream(c, p[1])') /\ At(c, p)' = Stream(c, p[1])'[p[2]]
    BY DEF Places, At
  <2>3. ASSUME p[1] < r PROVE Stream(c, p[1])' = Stream(c, p[1])
    <3>1. CASE p[1] = 0
      BY <3>1 DEF Stream
    <3>2. CASE p[1] \in 1..r - 1
      BY <1>3, <3>2 DEF Stream
    <3> QED BY <1>2, <2>1, <2>3, <3>1, <3>2
  <2>4. ASSUME p[1] >= r PROVE Stream(c, p[1])' = Stream(c, p[1] + 1)
    <3>1. p[1] \in r..m - 1 /\ p[1] # 0 /\ p[1] + 1 # 0
      BY <1>2, <2>1, <2>4
    <3> QED BY <1>3, <3>1 DEF Stream
  <2> QED BY <2>1, <2>2, <2>3, <2>4
<1>5. ASSUME NEW p \in Places(c)'
      PROVE  /\ p[1] < r => f[p] = p
             /\ ~(p[1] < r) => f[p] = <<p[1] + 1, p[2]>>
  OBVIOUS
<1>6. f = [p \in Places(c)' |-> f[p]]
  OBVIOUS
<1> HIDE DEF f, m
<1>7. ASSUME NEW i \in Nat, NEW j \in Nat, 1 <= j, i <= m, j <= Len(Stream(c, i)), i # r
      PROVE  <<i, j>> \in kept /\ At(c, <<i, j>>) = Stream(c, i)[j]
  BY <1>7 DEF Places, At, m
<1>8. ASSUME NEW p \in Places(c)'
      PROVE  f[p] \in kept /\ At(c, p)' = At(c, f[p])
  <2>1. p \in Nat \X Nat /\ p[1] \in 0..m - 1 /\ 1 <= p[2]
    BY <1>4
  <2>2. CASE p[1] < r
    <3>1. p = <<p[1], p[2]>> /\ p[1] \in Nat /\ p[2] \in Nat /\ p[1] <= m /\ p[1] # r
      BY <1>2, <2>1, <2>2
    <3> QED BY <1>4, <1>5, <1>7, <2>2, <3>1
  <2>3. CASE ~(p[1] < r)
    <3>1. p[1] + 1 \in Nat /\ p[2] \in Nat /\ p[1] + 1 <= m /\ p[1] + 1 # r /\ p[1] >= r
      BY <1>2, <2>1, <2>3
    <3>2. 1 <= p[2] /\ p[2] <= Len(Stream(c, p[1] + 1)) /\ At(c, p)' = Stream(c, p[1] + 1)[p[2]]
      BY <1>4, <2>3, <3>1
    <3>3. <<p[1] + 1, p[2]>> \in kept
          /\ At(c, <<p[1] + 1, p[2]>>) = Stream(c, p[1] + 1)[p[2]]
      BY <1>7, <3>1, <3>2, Zenon
    <3> QED BY <1>5, <2>3, <3>2, <3>3, Zenon
  <2> QED BY <2>2, <2>3
<1>9. ASSUME NEW p \in Places(c)', NEW q \in Places(c)', f[p] = f[q]
      PROVE  p = q
  <2>1. p \in Nat \X Nat /\ q \in Nat \X Nat
    BY <1>4
  <2>2. /\ p[1] < r => f[p][1] = p[1] /\ f[p][2] = p[2]
        /\ ~(p[1] < r) => f[p][1] = p[1] + 1 /\ f[p][2] = p[2]
    BY <1>5
  <2>3. /\ q[1] < r => f[p][1] = q[1] /\ f[p][2] = q[2]
        /\ ~(q[1] < r) => f[p][1] = q[1] + 1 /\ f[p][2] = q[2]
    BY <1>5, <1>9
  <2>4. p[1] = q[1] /\ p[2] = q[2]
    BY <1>2, <2>1, <2>2, <2>3
  <2> QED BY <2>1, <2>4
<1>10. f \in [Places(c)' -> kept]
  BY <1>6, <1>8
<1> QED BY <1>3, <1>8, <1>9, <1>10 DEF Moved

(* A client sends a request.                                                 *)
LEMMA SentPlaces ==
  ASSUME CallTypes, NEW c \in Client, NEW k \in Call,
         c2s'[c] = c2s[c] \o Frame(Request(k)), queued'[c] = queued[c]
  PROVE  /\ c2s[c] \o Frame(Request(k)) \in Seq(Piece)
         /\ \A p \in Places(c)' :
              \/ p \in Places(c) /\ At(c, p)' = At(c, p)
              \/ /\ At(c, p)'.msg = Request(k)
                 /\ At(c, p)'.part = "head" => p = <<0, Len(c2s[c]) + 1>>
<1> DEFINE q == c2s[c]
           h == [msg |-> Request(k), part |-> "head"]
           e == [msg |-> Request(k), part |-> "tail"]
           w == <<h, e>>
<1>1. q \in Seq(Piece) /\ h \in Piece /\ e \in Piece
  BY DEF CallTypes, Piece
<1>2. w \in Seq(Piece) /\ Len(w) = 2 /\ w[1] = h /\ w[2] = e
  BY <1>1
<1>3. c2s'[c] = q \o w
  BY DEF Frame
<1>4. h.msg = Request(k) /\ e.msg = Request(k) /\ e.part # "head"
  OBVIOUS
<1>5. Len(q) \in Nat
  BY <1>1, LenProperties
<1> HIDE DEF q, w, h, e
<1>6. /\ q \o w \in Seq(Piece) /\ Len(q \o w) = Len(q) + 2
      /\ \A i \in 1..Len(q) + 2 : (q \o w)[i] = IF i <= Len(q) THEN q[i] ELSE w[i - Len(q)]
  <2>1. /\ q \o w \in Seq(Piece) /\ Len(q \o w) = Len(q) + Len(w)
        /\ \A i \in 1..Len(q) + Len(w) : (q \o w)[i] = IF i <= Len(q) THEN q[i] ELSE w[i - Len(q)]
    BY <1>1, <1>2, ConcatProperties
  <2>2. Len(w) = 2
    BY <1>2
  <2> QED BY <2>1, <2>2
<1>7. ASSUME NEW p \in Places(c)'
      PROVE  \/ p \in Places(c) /\ At(c, p)' = At(c, p)
             \/ /\ At(c, p)'.msg = Request(k)
                /\ At(c, p)'.part = "head" => p = <<0, Len(c2s[c]) + 1>>
  <2>1. CASE p[1] # 0
    BY <2>1 DEF Places, At, Stream
  <2>2. CASE p[1] = 0
    <3>1. /\ p \in Nat \X Nat /\ p[2] \in 1..Len(q) + 2 /\ At(c, p)' = (q \o w)[p[2]]
      BY <1>3, <1>5, <1>6, <2>2 DEF Places, At, Stream
    <3>2. CASE p[2] <= Len(q)
      <4>1. At(c, p)' = q[p[2]]
        BY <1>5, <1>6, <3>1, <3>2
      <4>2. Stream(c, p[1]) = q /\ 0 <= Len(queued[c])
        BY <2>2, LenProperties DEF Stream, q, CallTypes
      <4> QED BY <1>5, <2>2, <3>1, <3>2, <4>1, <4>2 DEF Places, At
    <3>3. CASE p[2] = Len(q) + 1
      <4>1. At(c, p)' = h
        <5>1. ~(p[2] <= Len(q)) /\ p[2] - Len(q) = 1
          BY <1>5, <3>3
        <5> QED BY <1>2, <1>6, <3>1, <5>1
      <4>2. p = <<p[1], p[2]>>
        BY <3>1
      <4>3. p = <<0, Len(c2s[c]) + 1>>
        BY <2>2, <3>3, <4>2 DEF q
      <4>4. At(c, p)'.msg = Request(k)
        BY <1>4, <4>1
      <4> QED BY <4>3, <4>4
    <3>4. CASE p[2] = Len(q) + 2
      <4>1. At(c, p)' = e
        <5>1. ~(p[2] <= Len(q)) /\ p[2] - Len(q) = 2
          BY <1>5, <3>4
        <5> QED BY <1>2, <1>6, <3>1, <5>1
      <4> QED BY <1>4, <4>1
    <3>5. p[2] <= Len(q) \/ p[2] = Len(q) + 1 \/ p[2] = Len(q) + 2
      BY <1>5, <3>1
    <3> QED BY <3>2, <3>3, <3>4, <3>5
  <2> QED BY <2>1, <2>2
<1>8. c2s[c] \o Frame(Request(k)) \in Seq(Piece)
  BY <1>3, <1>6
<1> QED BY <1>7, <1>8

(* Where pieces only move or vanish, the flow stays as it must be.           *)
LEMMA FlowKept ==
  ASSUME NEW c \in Client, Flow(c), NEW kept \in SUBSET Places(c), Moved(c, kept),
         \A k \in Call : Heads(c, k) \cap kept # {} => executed'[k] = executed[k],
         \A k \in Call : Clean(k)' => Clean(k)
  PROVE  Flow(c)'
<1>1. PICK f \in [Places(c)' -> kept] :
        /\ \A p \in Places(c)' : At(c, p)' = At(c, f[p])
        /\ \A p, q \in Places(c)' : f[p] = f[q] => p = q
  BY DEF Moved
<1>2. ASSUME NEW k \in Call, NEW p \in Heads(c, k)'
      PROVE  p \in Places(c)' /\ f[p] \in Heads(c, k) \cap kept
  <2>1. p \in Places(c)' /\ At(c, p)'.part = "head" /\ At(c, p)'.msg.call = k
    BY DEF Heads
  <2>2. f[p] \in kept /\ At(c, p)' = At(c, f[p])
    BY <1>1, <2>1
  <2> QED BY <2>1, <2>2 DEF Heads
<1>3. \A p \in Places(c)' : At(c, p)'.msg.call[1] = c
  BY <1>1 DEF Flow
<1>4. ASSUME NEW k \in Call, NEW p \in Heads(c, k)', NEW q \in Heads(c, k)'
      PROVE  p = q
  <2>1. f[p] = f[q]
    BY <1>2 DEF Flow
  <2> QED BY <1>1, <1>2, <2>1
<1>5. ASSUME NEW k \in Call, Heads(c, k)' # {}
      PROVE  executed'[k] = 0 /\ ~Clean(k)'
  BY <1>2, <1>5 DEF Flow
<1> QED BY <1>3, <1>4, <1>5 DEF Flow

(* What servers do, but for the execution of handlers.                       *)
LEMMA ServerQuiet ==
  ASSUME CallInv, UNCHANGED <<channelVars, executed>>,
         c2s' \in [Client -> Seq(Piece)], queued' \in [Client -> Seq(Seq(Piece))],
         \A c \in Client : Moved(c, Places(c))
  PROVE  CallInv'
<1> USE DEF channelVars
<1>1. CallTypes'
  BY DEF CallInv, CallTypes
<1>2. \A k \in Call : Clean(k)' <=> Clean(k)
  BY DEF Clean, This
<1>3. Control'
  BY <1>2 DEF CallInv, Control, This
<1>4. ASSUME NEW c \in Client PROVE Flow(c)'
  BY <1>2, FlowKept DEF CallInv
<1> QED BY <1>1, <1>3, <1>4 DEF CallInv

LEMMA SameCalls ==
  ASSUME CallInv, UNCHANGED <<channelVars, executed, c2s, queued>>
  PROVE  CallInv'
BY ServerQuiet, SamePlaces DEF CallInv, CallTypes

(* A server ends, or closes a connection: streams are emptied.               *)
LEMMA SomeEmptied ==
  ASSUME CallInv, NEW C \in SUBSET Client, UNCHANGED <<channelVars, executed>>,
         c2s' = [c \in Client |-> IF c \in C THEN <<>> ELSE c2s[c]],
         queued' = [c \in Client |-> IF c \in C THEN <<>> ELSE queued[c]]
  PROVE  CallInv'
<1>1. c2s' \in [Client -> Seq(Piece)]
  BY EmptySeq DEF CallInv, CallTypes
<1>2. queued' \in [Client -> Seq(Seq(Piece))]
  BY EmptySeq DEF CallInv, CallTypes
<1>3. ASSUME NEW c \in Client PROVE Moved(c, Places(c))
  <2>1. CASE c \in C
    BY <2>1, NoPlaces
  <2>2. CASE c \notin C
    BY <2>2, SamePlaces
  <2> QED BY <2>1, <2>2
<1> QED BY <1>1, <1>2, <1>3, ServerQuiet

(* A connection is closed; what workers have taken from it they keep.        *)
LEMMA CutOffCalls ==
  ASSUME CallInv, NEW c \in Client, UNCHANGED <<channelVars, executed, queued>>,
         c2s' = [d \in Client |-> IF d \in {c} THEN <<>> ELSE c2s[d]]
  PROVE  CallInv'
<1>1. c2s' \in [Client -> Seq(Piece)]
  BY EmptySeq DEF CallInv, CallTypes
<1>2. queued' \in [Client -> Seq(Seq(Piece))]
  BY DEF CallInv, CallTypes
<1>3. ASSUME NEW d \in Client PROVE Moved(d, Places(d))
  <2>1. CASE d = c
    BY <2>1, FewerPlaces
  <2>2. CASE d # c
    BY <2>2, SamePlaces
  <2> QED BY <2>1, <2>2
<1> QED BY <1>1, <1>2, <1>3, ServerQuiet

LEMMA HandleMessageCalls ==
  ASSUME CallInv, NEW s \in Server, NEW c \in Client, HandleMessage(s, c), UNCHANGED channelVars
  PROVE  CallInv'
<1>1. PICK chunk \in Reads(c2s[c]) : /\ c2s' = [c2s EXCEPT ![c] = Rest(@, chunk)]
                                      /\ queued' = [queued EXCEPT ![c] = Append(@, chunk)]
  BY DEF HandleMessage
<1>2. /\ c2s'[c] = Rest(c2s[c], chunk) /\ queued'[c] = Append(queued[c], chunk)
      /\ \A d \in Client \ {c} : c2s'[d] = c2s[d] /\ queued'[d] = queued[d]
  BY <1>1 DEF CallInv, CallTypes
<1>3. Moved(c, Places(c)) /\ chunk \in Seq(Piece) /\ Rest(c2s[c], chunk) \in Seq(Piece)
  BY <1>2, HandledPlaces DEF CallInv
<1>4. \A d \in Client : Moved(d, Places(d))
  BY <1>2, <1>3, SamePlaces
<1>5. c2s' \in [Client -> Seq(Piece)]
  BY <1>1, <1>3 DEF CallInv, CallTypes
<1>6. queued' \in [Client -> Seq(Seq(Piece))]
  <2>1. Append(queued[c], chunk) \in Seq(Seq(Piece))
    BY <1>3, AppendProperties DEF CallInv, CallTypes
  <2> QED BY <1>1, <2>1 DEF CallInv, CallTypes
<1> QED BY <1>4, <1>5, <1>6, ServerQuiet DEF HandleMessage

(* A chunk holds the head of a call once at most: its handler runs once.     *)
LEMMA OnMessageCalls ==
  ASSUME CallInv, NEW s \in Server, NEW c \in Client, OnMessage(s, c), UNCHANGED channelVars
  PROVE  /\ CallInv'
         /\ \E K \in SUBSET Call :
              /\ \A k \in K : status[k] \in {"calling", "silent", "answered"} /\ executed[k] = 0
              /\ executed' = [k \in Call |-> IF k \in K THEN 1 ELSE executed[k]]
<1> USE DEF channelVars
<1>1. PICK r \in DOMAIN queued[c] :
        /\ queued' = [queued EXCEPT ![c] = RemoveAt(@, r)]
        /\ \/ executed' = [k \in DOMAIN executed |-> executed[k] +
                Cardinality({j \in Whole(queued[c][r]) :
                   queued[c][r][j].msg.call = k /\ Runs(s, queued[c][r][j].msg)})]
           \/ UNCHANGED executed
  BY DEF OnMessage
<1>2. /\ UNCHANGED c2s /\ queued'[c] = RemoveAt(queued[c], r)
      /\ \A d \in Client \ {c} : queued'[d] = queued[d]
  BY <1>1 DEF OnMessage, netVars, CallInv, CallTypes
<1> DEFINE kept == {p \in Places(c) : p[1] # r}
           chunk == queued[c][r]
           Of(k) == {j \in Whole(chunk) : chunk[j].msg.call = k /\ Runs(s, chunk[j].msg)}
<1>3. Moved(c, kept) /\ RemoveAt(queued[c], r) \in Seq(Seq(Piece))
  BY <1>2, TakenPlaces DEF CallInv
<1>4. queued[c] \in Seq(Seq(Piece)) /\ r \in 1..Len(queued[c]) /\ r \in Nat /\ r # 0
      /\ Len(queued[c]) \in Nat
  BY LenProperties DEF CallInv, CallTypes
<1>5. chunk \in Seq(Piece) /\ Len(chunk) \in Nat
  BY <1>4, ElementOfSeq, LenProperties
<1>6. ASSUME NEW k \in Call, NEW j \in Of(k)
      PROVE  <<r, j>> \in Heads(c, k) /\ j \in Nat
  <2>1. j \in 1..Len(chunk) - 1 /\ chunk[j].part = "head" /\ chunk[j].msg.call = k
    BY DEF Whole
  <2>2. Stream(c, r) = chunk
    BY <1>4 DEF Stream
  <2>3. <<r, j>> \in Places(c) /\ At(c, <<r, j>>) = chunk[j]
    BY <1>4, <1>5, <2>1, <2>2 DEF Places, At
  <2> QED BY <2>1, <2>3 DEF Heads
<1>7. ASSUME NEW k \in Call
      PROVE  \/ Of(k) = {} /\ Cardinality(Of(k)) = 0
             \/ /\ Of(k) # {} /\ Cardinality(Of(k)) = 1
                /\ executed[k] = 0 /\ ~Clean(k) /\ Heads(c, k) \cap kept = {} /\ k[1] = c
  <2>1. CASE Of(k) = {}
    BY <2>1, FS_EmptySet
  <2>2. CASE Of(k) # {}
    <3>1. PICK j : j \in Of(k)
      BY <2>2
    <3>2. c = k[1] /\ <<r, j>> \in Heads(c, k)
      BY <1>6, <3>1 DEF CallInv, Flow, Heads
    <3>3. \A p \in Heads(c, k) : p = <<r, j>>
      BY <3>2 DEF CallInv, Flow
    <3>4. Of(k) = {j}
      <4>1. ASSUME NEW i \in Of(k) PROVE i = j
        BY <1>6, <3>3
      <4> QED BY <3>1, <4>1
    <3>5. Cardinality(Of(k)) = 1
      BY <3>4, FS_Singleton
    <3>6. executed[k] = 0 /\ ~Clean(k)
      BY <3>2 DEF CallInv, Flow
    <3>7. Heads(c, k) \cap kept = {}
      BY <3>3
    <3> QED BY <2>2, <3>2, <3>5, <3>6, <3>7
  <2> QED BY <2>1, <2>2
<1> DEFINE K == {k \in Call : Of(k) # {} /\ executed'[k] # executed[k]}
<1>8. ASSUME NEW k \in Call
      PROVE  executed'[k] = IF k \in K THEN 1 ELSE executed[k]
  <2>1. CASE UNCHANGED executed
    BY <2>1
  <2>2. CASE executed' = [i \in DOMAIN executed |-> executed[i] + Cardinality(Of(i))]
    <3>1. executed'[k] = executed[k] + Cardinality(Of(k)) /\ executed[k] \in {0, 1}
      BY <2>2 DEF CallInv, CallTypes
    <3> HIDE DEF Of
    <3> QED BY <1>7, <3>1
  <2> QED BY <1>1, <2>1, <2>2
<1>9. DOMAIN executed' = Call
  BY <1>1 DEF CallInv, CallTypes
<1>10. /\ executed' \in [Call -> {0, 1}]
       /\ executed' = [k \in Call |-> IF k \in K THEN 1 ELSE executed[k]]
  <2>1. executed' = [k \in DOMAIN executed' |-> executed'[k]]
    BY <1>1 DEF CallInv, CallTypes
  <2> HIDE DEF K
  <2> QED BY <1>8, <1>9, <2>1 DEF CallInv, CallTypes
<1>11. ASSUME NEW k \in K
       PROVE  executed[k] = 0 /\ ~Clean(k) /\ Heads(c, k) \cap kept = {} /\ k[1] = c
  <2>1. k \in Call /\ Of(k) # {}
    OBVIOUS
  <2> HIDE DEF Of
  <2> QED BY <1>7, <2>1
<1> HIDE DEF K, Of
<1>12. K \subseteq Call
  BY DEF K
<1>13. \A k \in Call : Clean(k)' <=> Clean(k)
  BY DEF Clean, This
<1>14. CallTypes'
  <2>1. queued' \in [Client -> Seq(Seq(Piece))]
    BY <1>1, <1>3 DEF CallInv, CallTypes
  <2> QED BY <1>2, <1>10, <2>1 DEF CallInv, CallTypes
<1>15. Control'
  <2>1. \A k \in Call : Clean(k)' => executed'[k] = 0
    BY <1>8, <1>11, <1>13 DEF CallInv, Control
  <2> QED BY <2>1 DEF CallInv, Control, This
<1>16. ASSUME NEW d \in Client PROVE Flow(d)'
  <2>1. CASE d = c
    <3>1. \A k \in Call : Heads(c, k) \cap kept # {} => executed'[k] = executed[k]
      BY <1>8, <1>11
    <3>2. Flow(c)'
      BY <1>3, <1>13, <3>1, FlowKept DEF CallInv
    <3> QED BY <2>1, <3>2
  <2>2. CASE d # c
    <3>1. \A k \in Call : Heads(d, k) # {} => executed'[k] = executed[k]
      <4>1. \A k \in Call : Heads(d, k) # {} => k[1] = d
        BY DEF CallInv, Flow, Heads
      <4> QED BY <1>8, <1>11, <2>2, <4>1
    <3>2. Moved(d, Places(d))
      BY <1>2, <2>2, SamePlaces
    <3> QED BY <1>13, <3>1, <3>2, FlowKept DEF CallInv
  <2> QED BY <2>1, <2>2
<1>17. \A k \in K : status[k] \in {"calling", "silent", "answered"} /\ executed[k] = 0
  BY <1>11, <1>12 DEF Clean, CallInv, CallTypes, Statuses
<1> QED BY <1>10, <1>12, <1>14, <1>15, <1>16, <1>17 DEF CallInv

(* A call goes on, or its process ends or hangs.                             *)
LEMMA CallGoesOn ==
  ASSUME CallInv, NEW c \in Client, NEW x \in PcStates,
         pc' = [pc EXCEPT ![c] = x], UNCHANGED <<status, current, executed>>,
         x \in {"lookup", "connect", "send", "recv"} =>
             pc[c] \in {"lookup", "connect", "send", "recv"},
         x \in {"lookup", "connect", "send"} => pc[c] \in {"lookup", "connect", "send"}
  PROVE  Control' /\ pc' \in [Client -> PcStates] /\ \A k \in Call : Clean(k)' => Clean(k)
<1>1. pc' \in [Client -> PcStates] /\ pc'[c] = x /\ \A d \in Client \ {c} : pc'[d] = pc[d]
  BY DEF CallInv, CallTypes
<1>2. \A d \in Client : This(d)' = This(d)
  BY DEF This
<1>3. ASSUME NEW k \in Call, Clean(k)' PROVE Clean(k)
  BY <1>1, <1>2, <1>3, CallParts DEF Clean
<1>4. Control'
  BY <1>1, <1>2, <1>3 DEF CallInv, Control
<1> QED BY <1>1, <1>3, <1>4

LEMMA CallBack ==
  ASSUME CallInv, NEW c \in Client, NEW y \in {"failed", "silent", "answered"},
         pc[c] \in {"lookup", "connect", "send", "recv"},
         y = "failed" => pc[c] \in {"lookup", "connect", "send"},
         Return(c, y), UNCHANGED <<current, executed>>
  PROVE  /\ Control' /\ pc' \in [Client -> PcStates] /\ status' \in [Call -> Statuses]
         /\ \A k \in Call : Clean(k)' => Clean(k)
         /\ This(c) \in Call /\ status[This(c)] = "calling"
         /\ y = "failed" => executed[This(c)] = 0
<1>1. This(c) \in Call /\ status[This(c)] = "calling"
  BY DEF CallInv, Control
<1>2. /\ pc' \in [Client -> PcStates] /\ pc'[c] = "out"
      /\ \A d \in Client \ {c} : pc'[d] = pc[d]
  BY DEF CallInv, CallTypes, Return, PcStates
<1>3. /\ status' \in [Call -> Statuses] /\ status'[This(c)] = y
      /\ \A k \in Call \ {This(c)} : status'[k] = status[k]
  BY <1>1 DEF CallInv, CallTypes, Return, Statuses
<1>4. \A d \in Client : This(d)' = This(d)
  BY DEF This
<1>5. ASSUME NEW k \in Call, Clean(k)' PROVE Clean(k)
  <2>1. CASE k = This(c)
    <3>1. y = "failed" /\ k[1] = c
      BY <1>2, <1>3, <1>4, <1>5, <2>1 DEF Clean, This
    <3> QED BY <1>1, <2>1, <3>1 DEF Clean
  <2>2. CASE k # This(c)
    BY <1>2, <1>3, <1>4, <1>5, <2>2, CallParts DEF Clean
  <2> QED BY <2>1, <2>2
<1>6. ASSUME NEW d \in Client, pc'[d] \in {"lookup", "connect", "send", "recv"}
      PROVE  This(d)' \in Call /\ status'[This(d)'] = "calling"
  <2>1. d # c /\ pc'[d] = pc[d]
    BY <1>2, <1>6
  <2>2. This(d) \in Call /\ status[This(d)] = "calling" /\ This(d) # This(c)
    BY <1>6, <2>1 DEF CallInv, Control, This
  <2> QED BY <1>3, <1>4, <2>2
<1>7. \A k \in Call : status'[k] = "idle" <=> k[2] > current'[k[1]]
  BY <1>1, <1>3 DEF CallInv, Control
<1>8. Control'
  BY <1>5, <1>6, <1>7 DEF CallInv, Control
<1>9. y = "failed" => executed[This(c)] = 0
  <2>1. ASSUME y = "failed" PROVE Clean(This(c))
    BY <1>1, <2>1 DEF Clean, This
  <2> QED BY <1>1, <2>1 DEF CallInv, Control
<1> QED BY <1>1, <1>2, <1>3, <1>5, <1>8, <1>9

LEMMA CallMethodCalls ==
  ASSUME CallInv, NEW c \in Client, CallMethod(c)
  PROVE  /\ CallInv'
         /\ \E k \in Call : /\ status[k] = "idle"
                            /\ \E to \in {"calling", "failed"} :
                                 status' = [status EXCEPT ![k] = to]
<1> DEFINE k == <<c, current[c] + 1>>
<1>1. /\ current[c] \in Nat /\ current[c] + 1 \in Nat
      /\ current[c] + 1 \in 1..Len(Script[c]) /\ Len(Script[c]) \in Nat
  BY CallParts DEF CallMethod, CallInv, CallTypes
<1>2. k \in Call /\ k[1] = c /\ k[2] = current[c] + 1 /\ status[k] = "idle"
  BY <1>1, CallParts DEF CallInv, Control
<1>3. UNCHANGED <<executed, c2s, queued>> /\ pc[c] = "out"
  BY DEF CallMethod, serverVars, netVars
<1>4. /\ current' \in [Client -> Nat] /\ current'[c] = current[c] + 1
      /\ \A d \in Client \ {c} : current'[d] = current[d]
  BY <1>1 DEF CallMethod, CallInv, CallTypes
<1>5. PICK to \in {"calling", "failed"} :
        /\ status' = [status EXCEPT ![k] = to]
        /\ pc' = [pc EXCEPT ![c] = IF to = "failed" THEN "out" ELSE "lookup"]
  BY DEF CallMethod
<1>6. /\ pc' \in [Client -> PcStates] /\ pc'[c] = (IF to = "failed" THEN "out" ELSE "lookup")
      /\ \A d \in Client \ {c} : pc'[d] = pc[d]
  BY <1>5 DEF CallInv, CallTypes, PcStates
<1>7. /\ status' \in [Call -> Statuses] /\ status'[k] = to
      /\ \A j \in Call \ {k} : status'[j] = status[j]
  BY <1>2, <1>5 DEF CallInv, CallTypes, Statuses
<1>8. This(c)' = k /\ \A d \in Client \ {c} : This(d)' = This(d)
  BY <1>4 DEF This
<1> HIDE DEF k
<1>9. ASSUME NEW j \in Call, Clean(j)' PROVE Clean(j)
  <2>1. CASE j = k
    BY <1>2, <2>1 DEF Clean
  <2>2. CASE j # k /\ j[1] = c
    BY <1>7, <1>8, <1>9, <2>2 DEF Clean
  <2>3. CASE j # k /\ j[1] # c
    BY <1>6, <1>7, <1>8, <1>9, <2>3, CallParts DEF Clean
  <2> QED BY <2>1, <2>2, <2>3
<1>10. ASSUME NEW d \in Client, pc'[d] \in {"lookup", "connect", "send", "recv"}
       PROVE  This(d)' \in Call /\ status'[This(d)'] = "calling"
  <2>1. CASE d = c
    BY <1>2, <1>6, <1>7, <1>8, <1>10, <2>1
  <2>2. CASE d # c
    <3>1. This(d) \in Call /\ status[This(d)] = "calling"
      BY <1>6, <1>10, <2>2 DEF CallInv, Control
    <3> QED BY <1>2, <1>7, <1>8, <2>2, <3>1
  <2> QED BY <2>1, <2>2
<1>11. ASSUME NEW j \in Call PROVE status'[j] = "idle" <=> j[2] > current'[j[1]]
  <2>1. CASE j = k
    BY <1>1, <1>2, <1>4, <1>7, <2>1
  <2>2. CASE j # k /\ j[1] = c
    <3>1. j[2] # current[c] + 1 /\ j[2] \in Nat
      BY <2>2, CallParts DEF k
    <3>2. status'[j] = status[j] /\ (status[j] = "idle" <=> j[2] > current[c])
      BY <1>7, <2>2 DEF CallInv, Control
    <3> QED BY <1>1, <1>4, <2>2, <3>1, <3>2
  <2>3. CASE j # k /\ j[1] # c
    <3>1. current'[j[1]] = current[j[1]]
      BY <1>4, <2>3, CallParts
    <3> QED BY <1>7, <2>3, <3>1 DEF CallInv, Control
  <2> QED BY <2>1, <2>2, <2>3
<1>12. Control'
  BY <1>3, <1>9, <1>10, <1>11 DEF CallInv, Control
<1>13. CallTypes'
  BY <1>3, <1>4, <1>6, <1>7 DEF CallInv, CallTypes
<1>14. ASSUME NEW d \in Client PROVE Flow(d)'
  BY <1>3, <1>9, SamePlaces, FlowKept DEF CallInv
<1> QED BY <1>2, <1>5, <1>12, <1>13, <1>14 DEF CallInv

LEMMA ClientQuiet ==
  ASSUME CallInv, UNCHANGED <<executed, c2s, queued, current>>, Control',
         pc' \in [Client -> PcStates], status' \in [Call -> Statuses],
         \A k \in Call : Clean(k)' => Clean(k)
  PROVE  CallInv'
<1>1. CallTypes'
  BY DEF CallInv, CallTypes
<1>2. ASSUME NEW d \in Client PROVE Flow(d)'
  BY SamePlaces, FlowKept DEF CallInv
<1> QED BY <1>1, <1>2 DEF CallInv

(* The only step that adds to the stream.                                    *)
LEMMA SendCalls ==
  ASSUME CallInv, NEW c \in Client, pc[c] = "send", Goto(c, "recv"),
         c2s' = [c2s EXCEPT ![c] = @ \o Frame(Request(This(c)))],
         UNCHANGED <<executed, queued, current>>
  PROVE  CallInv'
<1>k. PICK k \in Call : k = This(c)
  BY DEF CallInv, Control
<1>1. /\ k \in Call /\ k[1] = c /\ status[k] = "calling" /\ Clean(k) /\ executed[k] = 0
      /\ Request(k).call = k /\ Heads(c, k) = {}
  <2>1. k \in Call /\ k[1] = c /\ status[k] = "calling"
    BY <1>k DEF CallInv, Control, This
  <2>2. Clean(k) /\ Request(k).call = k
    BY <1>k, <2>1 DEF Clean, Request
  <2> QED BY <2>1, <2>2 DEF CallInv, Control, Flow
<1>2. /\ Control' /\ pc' \in [Client -> PcStates]
      /\ \A j \in Call : Clean(j)' => Clean(j)
  BY CallGoesOn DEF Goto, PcStates
<1>3. ~Clean(k)'
  <2>1. pc'[c] = "recv" /\ status'[k] = "calling"
    BY <1>1 DEF Goto, CallInv, CallTypes
  <2> QED BY <1>1, <2>1 DEF Clean
<1>4. /\ c2s'[c] = c2s[c] \o Frame(Request(k)) /\ queued'[c] = queued[c]
      /\ \A d \in Client \ {c} : c2s'[d] = c2s[d] /\ queued'[d] = queued[d]
  BY <1>k DEF CallInv, CallTypes
<1>5. /\ c2s[c] \o Frame(Request(k)) \in Seq(Piece)
      /\ \A p \in Places(c)' :
           \/ p \in Places(c) /\ At(c, p)' = At(c, p)
           \/ /\ At(c, p)'.msg = Request(k)
              /\ At(c, p)'.part = "head" => p = <<0, Len(c2s[c]) + 1>>
  BY <1>1, <1>4, SentPlaces DEF CallInv
<1>6. CallTypes'
  <2>1. c2s' \in [Client -> Seq(Piece)]
    BY <1>k, <1>5 DEF CallInv, CallTypes
  <2> QED BY <1>2, <2>1 DEF CallInv, CallTypes, Goto
<1>7. ASSUME NEW j \in Call, NEW p \in Heads(c, j)'
      PROVE  \/ j # k /\ p \in Heads(c, j)
             \/ j = k /\ p = <<0, Len(c2s[c]) + 1>>
  <2>1. p \in Places(c)' /\ At(c, p)'.part = "head" /\ At(c, p)'.msg.call = j
    BY DEF Heads
  <2>2. CASE p \in Places(c) /\ At(c, p)' = At(c, p)
    BY <1>1, <2>1, <2>2 DEF Heads
  <2>3. CASE /\ At(c, p)'.msg = Request(k)
             /\ At(c, p)'.part = "head" => p = <<0, Len(c2s[c]) + 1>>
    BY <1>1, <2>1, <2>3
  <2> QED BY <1>5, <2>1, <2>2, <2>3
<1>8. Flow(c)'
  <2>1. ASSUME NEW p \in Places(c)' PROVE At(c, p)'.msg.call[1] = c
    <3>1. CASE p \in Places(c) /\ At(c, p)' = At(c, p)
      BY <3>1 DEF CallInv, Flow
    <3>2. CASE At(c, p)'.msg = Request(k)
      BY <1>1, <3>2
    <3> QED BY <1>5, <3>1, <3>2
  <2>2. ASSUME NEW j \in Call, NEW p \in Heads(c, j)', NEW q \in Heads(c, j)'
        PROVE  p = q
    BY <1>7 DEF CallInv, Flow
  <2>3. ASSUME NEW j \in Call, Heads(c, j)' # {}
        PROVE  executed'[j] = 0 /\ ~Clean(j)'
    <3>1. CASE j = k
      BY <1>1, <1>3, <3>1
    <3>2. CASE j # k
      <4>1. Heads(c, j) # {}
        BY <1>7, <2>3, <3>2
      <4> QED BY <1>2, <4>1 DEF CallInv, Flow
    <3> QED BY <3>1, <3>2
  <2> QED BY <2>1, <2>2, <2>3 DEF Flow
<1>9. ASSUME NEW d \in Client, d # c PROVE Flow(d)'
  BY <1>2, <1>4, <1>9, SamePlaces, FlowKept DEF CallInv
<1> QED BY <1>2, <1>6, <1>8, <1>9 DEF CallInv

(* How a call begins and how it comes back.                                  *)
Begins(k) ==
    /\ status[k] = "idle"
    /\ \E to \in {"calling", "failed"} : status' = [status EXCEPT ![k] = to]

ComesBack(k) ==
    /\ status[k] = "calling"
    /\ \E how \in {"failed", "silent", "answered"} :
         /\ status' = [status EXCEPT ![k] = how]
         /\ how = "failed" => executed[k] = 0

LEMMA ReturnCalls ==
  ASSUME CallInv, NEW c \in Client, NEW y \in {"failed", "silent", "answered"},
         pc[c] \in {"lookup", "connect", "send", "recv"},
         y = "failed" => pc[c] \in {"lookup", "connect", "send"},
         Return(c, y), UNCHANGED <<executed, c2s, queued, current>>
  PROVE  CallInv' /\ \E k \in Call : ComesBack(k)
BY CallBack, ClientQuiet DEF Return, ComesBack

LEMMA GotoCalls ==
  ASSUME CallInv, NEW c \in Client, NEW x \in PcStates,
         pc' = [pc EXCEPT ![c] = x],
         UNCHANGED <<status, executed, c2s, queued, current>>,
         x \in {"lookup", "connect", "send", "recv"} =>
             pc[c] \in {"lookup", "connect", "send", "recv"},
         x \in {"lookup", "connect", "send"} => pc[c] \in {"lookup", "connect", "send"}
  PROVE  CallInv'
<1>1. status' \in [Call -> Statuses]
  BY DEF CallInv, CallTypes
<1> QED BY <1>1, CallGoesOn, ClientQuiet

LEMMA ClientCalls ==
  ASSUME CallInv, NEW c \in Client, ClientStep(c) \/ ClientDies(c)
  PROVE  /\ CallInv' /\ UNCHANGED executed
         /\ UNCHANGED status \/ \E k \in Call : Begins(k) \/ ComesBack(k)
<1> USE DEF serverVars, netVars, channelVars
<1>1. CASE InitChannel(c) \/ ChannelConnected(c)
  BY <1>1, SameCalls DEF InitChannel, ChannelConnected
<1>2. CASE CallMethod(c)
  BY <1>2, CallMethodCalls DEF CallMethod, Begins
<1>3. CASE Lookup(c)
  <2>1. CASE Return(c, "failed") /\ UNCHANGED netVars
    BY <1>3, <2>1, ReturnCalls DEF Lookup
  <2>2. CASE Goto(c, "connect") /\ UNCHANGED netVars
    BY <1>3, <2>2, GotoCalls DEF Lookup, Goto, PcStates
  <2>3. CASE Dies(c) /\ UNCHANGED status
    BY <1>3, <2>3, GotoCalls DEF Lookup, Dies, PcStates
  <2> QED BY <1>3, <2>1, <2>2, <2>3 DEF Lookup
<1>4. CASE Connect(c)
  <2>1. CASE Return(c, "silent")
    BY <1>4, <2>1, ReturnCalls DEF Connect
  <2>2. CASE Goto(c, "send")
    BY <1>4, <2>2, GotoCalls DEF Connect, Goto, PcStates
  <2> QED BY <1>4, <2>1, <2>2 DEF Connect
<1>5. CASE Send(c)
  <2>1. CASE c2s' = [c2s EXCEPT ![c] = @ \o Frame(Request(This(c)))] /\ Goto(c, "recv")
    BY <1>5, <2>1, SendCalls DEF Send, Goto
  <2>2. CASE Goto(c, "recv") /\ UNCHANGED netVars
    BY <1>5, <2>2, GotoCalls DEF Send, Goto, PcStates
  <2>3. CASE Dies(c) /\ UNCHANGED status
    BY <1>5, <2>3, GotoCalls DEF Send, Dies, PcStates
  <2> QED BY <1>5, <2>1, <2>2, <2>3 DEF Send
<1>6. CASE Recv(c)
  <2>1. pc[c] = "recv" /\ UNCHANGED <<executed, c2s, queued, current>>
    BY <1>6 DEF Recv
  <2>2. CASE Return(c, "silent") \/ Return(c, "answered")
    BY <2>1, <2>2, ReturnCalls
  <2>3. CASE Goto(c, "looping")
    BY <2>1, <2>3, GotoCalls DEF Goto, PcStates
  <2>4. \/ Return(c, "silent") \/ Return(c, "answered") \/ Goto(c, "looping")
    BY <1>6 DEF Recv
  <2> QED BY <2>1, <2>2, <2>3, <2>4 DEF Goto
<1>7. CASE RecvEnd(c)
  <2>1. CASE Return(c, "silent") /\ UNCHANGED netVars
    BY <1>7, <2>1, ReturnCalls DEF RecvEnd
  <2>2. CASE Dies(c) /\ UNCHANGED status
    BY <1>7, <2>2, GotoCalls DEF RecvEnd, Dies, PcStates
  <2> QED BY <1>7, <2>1, <2>2 DEF RecvEnd
<1>8. CASE ClientDies(c)
  BY <1>8, GotoCalls DEF ClientDies, Dies, PcStates
<1> QED BY <1>1, <1>2, <1>3, <1>4, <1>5, <1>6, <1>7, <1>8 DEF ClientStep, Works

(* All that servers do but OnMessage.                                        *)
LEMMA ServerCalls ==
  ASSUME CallInv, NEW s \in Server, ServerStep(s) \/ ServerFault(s), UNCHANGED channelVars,
         \A c \in Client : ~OnMessage(s, c)
  PROVE  CallInv' /\ UNCHANGED executed
<1> USE DEF netVars, serverVars, working
<1>1. CASE Start(s) \/ ServerConnected(s) \/ ZkStarted(s) \/ Exists(s) \/ Stop(s)
  BY <1>1, SameCalls DEF Start, ServerConnected, ZkStarted, Exists, Stop
<1>2. CASE ServerGone(s)
  <2>1. LinksTo(Session(s)) \in SUBSET Client
    BY DEF LinksTo
  <2> QED BY <1>2, <2>1, SomeEmptied DEF ServerGone, LinksDown
<1>3. CASE Create(s) \/ Stopped(s) \/ ServerDies(s)
  BY <1>2, <1>3, SameCalls DEF Create, Stopped, ServerDies
<1>4. ASSUME NEW c \in Client, HandleMessage(s, c) PROVE CallInv' /\ UNCHANGED executed
  BY <1>4, HandleMessageCalls DEF HandleMessage
<1>5. ASSUME NEW c \in Client, SendReplies(s, c) PROVE CallInv' /\ UNCHANGED executed
  BY <1>5, SameCalls DEF SendReplies
<1>6. ASSUME NEW c \in Client, DropIdle(s, c) PROVE CallInv' /\ UNCHANGED executed
  BY <1>6, CutOffCalls DEF DropIdle, LinksDown
<1> QED BY <1>1, <1>3, <1>4, <1>5, <1>6 DEF ServerStep, ServerFault, ServerWorks, Serves

LEMMA InitCallInv == Init => CallInv
<1> SUFFICES ASSUME Init PROVE CallInv
  OBVIOUS
<1> USE DEF Init, ChannelInit, ServerInit, NetworkInit
<1>1. CallTypes
  BY EmptySeq DEF CallTypes, PcStates, Statuses
<1>2. Control
  BY CallParts DEF Control
<1>3. \A c \in Client : Places(c) = {}
  BY DEF Places, Stream
<1>4. \A c \in Client : Flow(c)
  BY <1>3 DEF Flow, Heads
<1> QED BY <1>1, <1>2, <1>4 DEF CallInv

(* Every step is one of a call, an execution of several, or neither.         *)
Executes(K) ==
    /\ \A k \in K : status[k] \in {"calling", "silent", "answered"} /\ executed[k] = 0
    /\ executed' = [k \in Call |-> IF k \in K THEN 1 ELSE executed[k]]

LEMMA NextCalls ==
  ASSUME CallInv, [Next]_vars
  PROVE  /\ CallInv'
         /\ \/ UNCHANGED <<status, executed>>
            \/ UNCHANGED executed /\ \E k \in Call : Begins(k) \/ ComesBack(k)
            \/ UNCHANGED status /\ \E K \in SUBSET Call : Executes(K)
<1> DEFINE Goal == /\ CallInv'
                   /\ \/ UNCHANGED <<status, executed>>
                      \/ UNCHANGED executed /\ \E k \in Call : Begins(k) \/ ComesBack(k)
                      \/ UNCHANGED status /\ \E K \in SUBSET Call : Executes(K)
<1>1. ASSUME NEW s \in Server, ServerStep(s) \/ ServerFault(s), UNCHANGED channelVars
      PROVE  Goal
  <2>1. UNCHANGED status
    BY <1>1 DEF channelVars
  <2>2. ASSUME NEW c \in Client, OnMessage(s, c) PROVE Goal
    BY <1>1, <2>1, <2>2, OnMessageCalls DEF Executes
  <2>3. ASSUME \A c \in Client : ~OnMessage(s, c) PROVE Goal
    BY <1>1, <2>1, <2>3, ServerCalls
  <2> QED BY <2>2, <2>3
<1>2. ASSUME NEW c \in Client, ClientStep(c) \/ ClientDies(c)
      PROVE  Goal
  BY <1>2, ClientCalls
<1>3. ASSUME NEW x \in live, SessionTimeout(x)
      PROVE  Goal
  BY <1>3, SameCalls DEF SessionTimeout, serverVars, netVars, channelVars
<1>4. CASE UNCHANGED vars
  BY <1>4, SameCalls DEF vars, serverVars, netVars, channelVars
<1> QED BY <1>1, <1>2, <1>3, <1>4 DEF Next, Step, Fault

THEOREM CallInvHolds == Spec => []CallInv
BY InitCallInv, NextCalls, PTL DEF Spec

(* A call's handler runs at most once, after the call has begun and not if   *)
(* it failed, for any faults, cuts and orders (rpc_channel.cc:42-124,        *)
(* rpc_server.cc:73-101).                                                    *)
THEOREM RpcImplementsService == Spec => ImplementsRpcService
<1>1. Init => Abstract!Init
  BY DEF Init, ChannelInit, ServerInit, Abstract!Init
<1>2. CallInv /\ [Next]_vars => [Abstract!Next]_(Abstract!vars)
  <2> SUFFICES ASSUME CallInv, [Next]_vars
               PROVE  [Abstract!Next]_(Abstract!vars)
    OBVIOUS
  <2> DEFINE State == [k \in Call |-> IF status[k] \in {"silent", "answered"} THEN "back"
                                      ELSE status[k]]
  <2>1. status \in [Call -> Statuses] /\ executed \in [Call -> {0, 1}]
    BY DEF CallInv, CallTypes
  <2>2. CASE UNCHANGED <<status, executed>>
    BY <2>2 DEF Abstract!vars
  <2>3. ASSUME UNCHANGED executed, NEW k \in Call, Begins(k)
        PROVE  Abstract!Begin(k)
    <3>1. PICK to \in {"calling", "failed"} : status' = [status EXCEPT ![k] = to]
      BY <2>3 DEF Begins
    <3>2. State[k] = "idle" /\ State' = [State EXCEPT ![k] = to]
      BY <2>1, <2>3, <3>1 DEF Begins
    <3> QED BY <2>3, <3>2 DEF Abstract!Begin
  <2>4. ASSUME UNCHANGED executed, NEW k \in Call, ComesBack(k)
        PROVE  Abstract!Fail(k) \/ Abstract!ComeBack(k)
    <3>1. PICK how \in {"failed", "silent", "answered"} :
            status' = [status EXCEPT ![k] = how] /\ (how = "failed" => executed[k] = 0)
      BY <2>4 DEF ComesBack
    <3>2. /\ State[k] = "calling"
          /\ State' = [State EXCEPT ![k] = IF how = "failed" THEN "failed" ELSE "back"]
      BY <2>1, <2>4, <3>1 DEF ComesBack
    <3> QED BY <2>4, <3>1, <3>2 DEF Abstract!Fail, Abstract!ComeBack
  <2>5. ASSUME UNCHANGED status, NEW K \in SUBSET Call, Executes(K)
        PROVE  Abstract!Execute(K)
    BY <2>1, <2>5 DEF Executes, Abstract!Execute
  <2> QED BY <2>2, <2>3, <2>4, <2>5, NextCalls DEF Abstract!Next
<1> QED BY <1>1, <1>2, CallInvHolds, PTL DEF Spec, ImplementsRpcService, Abstract!Spec

-----------------------------------------------------------------------------
(* Answers                                                                   *)

(* What one frame is read as, whole and in parts.                            *)
LEMMA FrameParts ==
  ASSUME NEW m
  PROVE  /\ Len(Frame(m)) = 2 /\ DOMAIN Frame(m) = 1..2 /\ Frame(m) # <<>>
         /\ Frame(m)[1] = [msg |-> m, part |-> "head"]
         /\ Frame(m)[2] = [msg |-> m, part |-> "tail"]
         /\ Frame(m) \in Seq({[msg |-> m, part |-> "head"], [msg |-> m, part |-> "tail"]})
BY DEF Frame

LEMMA NothingToRead == Reads(<<>>) = {}
BY DEF Reads

LEMMA FrameReads ==
  ASSUME NEW m, NEW chunk \in Reads(Frame(m))
  PROVE  \/ chunk = Frame(m) /\ Rest(Frame(m), chunk) = <<>>
         \/ Len(chunk) = 1 /\ Len(Rest(Frame(m), chunk)) = 1
<1> DEFINE S == {[msg |-> m, part |-> "head"], [msg |-> m, part |-> "tail"]}
<1>1. PICK f \in Seq(S) : f = Frame(m)
  BY FrameParts
<1>2. Len(f) = 2
  BY <1>1, FrameParts
<1>3. PICK n \in 1..2 : chunk = SubSeq(f, 1, n)
  BY <1>1, <1>2 DEF Reads
<1> HIDE DEF S
<1>4. Len(chunk) = n
  BY <1>2, <1>3, PrefixProperties
<1>5. Len(SubSeq(f, n + 1, Len(f))) = 2 - n
  BY <1>2, SuffixProperties
<1>6. SubSeq(f, 1, 2) = f
  BY <1>2, SubSeqFull
<1>7. SubSeq(f, 3, 2) = <<>>
  BY SubSeqEmpty
<1>8. Rest(f, chunk) = SubSeq(f, n + 1, Len(f))
  BY <1>4 DEF Rest
<1>9. CASE n = 1
  <2>1. Len(chunk) = 1 /\ Len(Rest(f, chunk)) = 1
    BY <1>4, <1>5, <1>8, <1>9
  <2> QED BY <1>1, <2>1, Zenon
<1>10. CASE n = 2
  <2>1. chunk = f
    BY <1>3, <1>6, <1>10
  <2>2. Rest(f, chunk) = <<>>
    BY <1>2, <1>7, <1>8, <1>10
  <2> QED BY <1>1, <2>1, <2>2, Zenon
<1> QED BY <1>3, <1>9, <1>10

(* A single piece is no frame.                                               *)
LEMMA ShortReads ==
  ASSUME NEW S, NEW q \in Seq(S), Len(q) <= 1, NEW chunk \in Reads(q)
  PROVE  chunk \in Seq(S) /\ Len(chunk) = 1 /\ Len(Rest(q, chunk)) = 0
<1>1. Len(q) = 1 /\ chunk = SubSeq(q, 1, 1)
  <2>1. Len(q) \in Nat
    BY LenProperties
  <2>2. PICK n \in 1..Len(q) : chunk = SubSeq(q, 1, n)
    BY DEF Reads
  <2> QED BY <2>1, <2>2
<1>2. chunk = q
  BY <1>1, SubSeqFull
<1>3. SubSeq(q, 2, 1) = <<>>
  BY SubSeqEmpty
<1> QED BY <1>1, <1>2, <1>3 DEF Rest

LEMMA ShortDecodes ==
  ASSUME NEW S, NEW chunk \in Seq(S), Len(chunk) <= 1
  PROVE  Whole(chunk) = {} /\ decode(chunk) = <<>>
<1>1. Len(chunk) \in Nat
  BY LenProperties
<1>2. Whole(chunk) = {}
  BY <1>1 DEF Whole
<1> DEFINE t == [i \in DOMAIN chunk |-> IF i \in Whole(chunk) THEN <<chunk[i].msg>> ELSE <<>>]
<1>3. decode(chunk) = FlattenSeq(t)
  BY DEF decode
<1>4. t = [i \in 1..Len(chunk) |-> <<>>]
  BY <1>2, LenProperties
<1> HIDE DEF t
<1>5. CASE Len(chunk) = 0
  <2>1. t = <<>>
    BY <1>4, <1>5
  <2> QED BY <1>2, <1>3, <2>1, FlattenEmpty
<1>6. CASE Len(chunk) = 1
  <2>1. t = <<<<>>>>
    BY <1>4, <1>6
  <2>2. Len(t) = 1 /\ t[1] = <<>>
    BY <2>1
  <2> QED BY <1>2, <1>3, <2>2, FlattenOne
<1> QED BY <1>1, <1>5, <1>6

LEMMA FrameDecodes ==
  ASSUME NEW m
  PROVE  Whole(Frame(m)) = {1} /\ decode(Frame(m)) = <<m>>
<1>1. Whole(Frame(m)) = {1}
  <2>1. Whole(Frame(m)) = {i \in 1..2 - 1 : Frame(m)[i].part = "head" /\ Frame(m)[i + 1].part = "tail"}
    BY FrameParts, Zenon DEF Whole
  <2>2. Frame(m)[1].part = "head" /\ Frame(m)[1 + 1].part = "tail" /\ 1..2 - 1 = {1}
    BY DEF Frame
  <2> QED BY <2>1, <2>2
<1> DEFINE t == [i \in DOMAIN Frame(m) |-> IF i \in Whole(Frame(m)) THEN <<Frame(m)[i].msg>> ELSE <<>>]
<1>2. decode(Frame(m)) = FlattenSeq(t)
  BY DEF decode
<1>3. t[1] = <<m>> /\ t[2] = <<>> /\ t = [i \in 1..2 |-> t[i]]
  <2>1. DOMAIN Frame(m) = 1..2 /\ 1 \in 1..2 /\ 2 \in 1..2 /\ Frame(m)[1].msg = m
    BY DEF Frame
  <2>2. 1 \in Whole(Frame(m)) /\ 2 \notin Whole(Frame(m))
    BY <1>1
  <2> QED BY <2>1, <2>2, Zenon
<1> HIDE DEF t
<1>4. <<<<m>>>> \in Seq(Seq({m})) /\ <<>> \in Seq({m}) /\ <<m>> \in Seq({m})
  OBVIOUS
<1>5. t = Append(<<<<m>>>>, <<>>)
  BY <1>3
<1>6. FlattenSeq(t) = FlattenSeq(<<<<m>>>>) \o <<>>
  BY <1>4, <1>5, FlattenAppend
<1>7. FlattenSeq(<<<<m>>>>) = <<m>>
  <2>1. PICK u : u = <<<<m>>>>
    OBVIOUS
  <2>2. Len(u) = 1 /\ u[1] = <<m>>
    BY <2>1
  <2> QED BY <2>1, <2>2, FlattenOne
<1>8. <<m>> \o <<>> = <<m>>
  BY <1>4, ConcatEmptySeq
<1> QED BY <1>1, <1>2, <1>6, <1>7, <1>8

LEMMA FramesOfNone == Frames(<<>>) = <<>>
<1>1. [i \in DOMAIN <<>> |-> Frame(<<>>[i])] = <<>>
  OBVIOUS
<1> QED BY <1>1, FlattenEmpty DEF Frames

LEMMA FramesOfOne == ASSUME NEW r PROVE Frames(<<r>>) = Frame(r)
<1>1. PICK u : u = [i \in DOMAIN <<r>> |-> Frame(<<r>>[i])]
  OBVIOUS
<1>2. Len(u) = 1 /\ u[1] = Frame(r)
  BY <1>1
<1> QED BY <1>1, <1>2, FlattenOne, Zenon DEF Frames

(* Where a call that waits for its answer is: no two messages of a channel   *)
(* are ever under way.                                                       *)
Nothing(c) == c2s[c] = <<>> /\ queued[c] = <<>> /\ replies[c] = <<>> /\ s2c[c] = <<>>

(* The request is in the stream, with a worker, its reply is in a worker's   *)
(* hands, in the stream.                                                     *)
Asked(c) ==
    /\ c2s[c] = Frame(Request(This(c)))
    /\ queued[c] = <<>> /\ replies[c] = <<>> /\ s2c[c] = <<>>

Taken(c) ==
    /\ queued[c] = <<Frame(Request(This(c)))>>
    /\ c2s[c] = <<>> /\ replies[c] = <<>> /\ s2c[c] = <<>>

IsReply(c, r) ==
    \/ r.msg_id = This(c) /\ executed[This(c)] = 1
    \/ r.msg_id = Absent

Replied(c) ==
    /\ \E r : IsReply(c, r) /\ replies[c] = <<<<r>>>>
    /\ c2s[c] = <<>> /\ queued[c] = <<>> /\ s2c[c] = <<>>

Answered(c) ==
    /\ \E r : IsReply(c, r) /\ s2c[c] = Frame(r)
    /\ c2s[c] = <<>> /\ queued[c] = <<>> /\ replies[c] = <<>>

(* No frame is whole any more, or the connection is gone.                    *)
NoAnswer(c) ==
    /\ Len(c2s[c]) <= 1
    /\ \A i \in DOMAIN queued[c] : Len(queued[c][i]) <= 1
    /\ replies[c] \in Seq({<<>>})
    /\ s2c[c] = <<>>

WasSilent(c) == \E k \in Call : k[1] = c /\ status[k] = "silent"

Exchange(c) ==
    \/ pc[c] \in {"dead", "looping"}
    \/ WasSilent(c)
    \/ pc[c] # "recv" /\ Nothing(c)
    \/ pc[c] = "recv" /\ (Asked(c) \/ Taken(c) \/ Replied(c) \/ Answered(c) \/ NoAnswer(c))

AnswerTypes == DOMAIN answer = Call /\ DOMAIN s2c = Client /\ DOMAIN replies = Client

AInv == AnswerTypes /\ AnswerIsOwnOrError /\ \A c \in Client : Exchange(c)

(* Steps that give no answer.                                                *)
LEMMA AnswersStay ==
  ASSUME AnswerIsOwnOrError, answer' = answer,
         \A k \in Call : status'[k] = "answered" => status[k] = "answered",
         \A k \in Call : status[k] = "silent" => status'[k] = "silent",
         \A k \in Call : executed[k] = 1 => executed'[k] = 1
  PROVE  AnswerIsOwnOrError'
<1> SUFFICES ASSUME NEW k \in Call, status'[k] = "answered"
             PROVE  \/ answer'[k].msg_id = k /\ executed'[k] = 1
                    \/ answer'[k].msg_id = Absent
                    \/ \E i \in 1..k[2] - 1 : status'[<<k[1], i>>] = "silent"
  BY DEF AnswerIsOwnOrError
<1>1. \/ answer[k].msg_id = k /\ executed[k] = 1
      \/ answer[k].msg_id = Absent
      \/ \E i \in 1..k[2] - 1 : status[<<k[1], i>>] = "silent"
  BY DEF AnswerIsOwnOrError
<1>2. ASSUME NEW i \in 1..k[2] - 1 PROVE <<k[1], i>> \in Call
  <2>1. /\ k[1] \in Client /\ k[2] \in Nat /\ k[2] \in 1..Len(Script[k[1]])
        /\ Len(Script[k[1]]) \in Nat
    BY CallParts
  <2>2. i \in 1..Len(Script[k[1]])
    BY <2>1
  <2> QED BY <2>1, <2>2, CallParts
<1> QED BY <1>1, <1>2

(* A client whose exchange a step does not touch.                            *)
Untouched(c) ==
    /\ c2s'[c] = c2s[c] /\ s2c'[c] = s2c[c]
    /\ queued'[c] = queued[c] /\ replies'[c] = replies[c]
    /\ pc'[c] = pc[c] /\ current'[c] = current[c]

LEMMA ExchangeStays ==
  ASSUME CallInv, NEW c \in Client, Exchange(c), Untouched(c),
         \A k \in Call : status[k] = "silent" => status'[k] = "silent",
         \A k \in Call : executed[k] = 1 => executed'[k] = 1
  PROVE  Exchange(c)'
<1>1. This(c)' = This(c)
  BY DEF Untouched, This
<1>2. WasSilent(c) => WasSilent(c)'
  BY DEF WasSilent
<1>3. CASE pc[c] = "recv"
  <2>1. This(c) \in Call
    BY <1>3 DEF CallInv, Control
  <2>2. \A r : IsReply(c, r) => IsReply(c, r)'
    BY <1>1, <2>1 DEF IsReply
  <2>3. /\ Asked(c) => Asked(c)'
        /\ Taken(c) => Taken(c)'
        /\ NoAnswer(c) => NoAnswer(c)'
    BY <1>1 DEF Asked, Taken, NoAnswer, Untouched, Request
  <2>4. Replied(c) => Replied(c)'
    BY <2>2 DEF Replied, Untouched
  <2>5. Answered(c) => Answered(c)'
    BY <2>2 DEF Answered, Untouched
  <2>6. pc'[c] = pc[c]
    BY DEF Untouched
  <2> QED BY <1>2, <1>3, <2>3, <2>4, <2>5, <2>6, Zenon DEF Exchange
<1>4. CASE pc[c] # "recv"
  BY <1>2, <1>4 DEF Exchange, Nothing, Untouched
<1> QED BY <1>3, <1>4

(* What servers do, but for the execution of handlers.                       *)
LEMMA ServerLeavesAnswers ==
  ASSUME AInv, UNCHANGED <<channelVars, executed>>, AnswerTypes',
         \A c \in Client : Exchange(c)'
  PROVE  AInv'
BY AnswersStay DEF AInv, channelVars

LEMMA NobodyTouched ==
  ASSUME CallInv, AInv,
         UNCHANGED <<channelVars, executed, c2s, s2c, queued, replies>>
  PROVE  AInv'
<1>1. ASSUME NEW c \in Client PROVE Exchange(c)'
  <2>1. Untouched(c)
    BY DEF Untouched, channelVars
  <2> QED BY <2>1, ExchangeStays DEF AInv, channelVars
<1>2. AnswerTypes'
  BY DEF AInv, AnswerTypes, channelVars
<1> QED BY <1>1, <1>2, ServerLeavesAnswers

(* A server ends, or closes a connection; what it has sent may still come.   *)
LEMMA SomeCutOff ==
  ASSUME CallInv, AInv, NEW C \in SUBSET Client, UNCHANGED <<channelVars, executed>>,
         LinksDown(C),
         \A c \in Client : /\ queued'[c] = IF c \in C THEN <<>> ELSE queued[c]
                           /\ replies'[c] = IF c \in C THEN <<>> ELSE replies[c],
         DOMAIN replies' = Client
  PROVE  AInv'
<1>1. PICK L \in SUBSET {c \in C : s2c[c] # <<>>} :
        s2c' = [c \in Client |-> IF c \in L THEN <<>> ELSE s2c[c]]
  BY DEF LinksDown
<1>0. /\ \A c \in Client : /\ c2s'[c] = IF c \in C THEN <<>> ELSE c2s[c]
                           /\ c \notin C => s2c'[c] = s2c[c]
                           /\ s2c'[c] \in {s2c[c], <<>>}
      /\ UNCHANGED <<pc, current>>
  BY <1>1 DEF LinksDown, channelVars
<1>2. ASSUME NEW c \in Client, c \notin C PROVE Exchange(c)'
  <2>1. Untouched(c)
    BY <1>0, <1>2 DEF Untouched
  <2> QED BY <2>1, ExchangeStays DEF AInv, channelVars
<1>3. ASSUME NEW c \in C PROVE Exchange(c)'
  <2>1. /\ c2s'[c] = <<>> /\ queued'[c] = <<>> /\ replies'[c] = <<>>
        /\ s2c'[c] \in {s2c[c], <<>>} /\ pc'[c] = pc[c]
    BY <1>0
  <2>2. WasSilent(c)' = WasSilent(c)
    BY DEF WasSilent, channelVars
  <2>3. CASE s2c'[c] = <<>>
    <3>1. Nothing(c)' /\ NoAnswer(c)'
      BY <2>1, <2>3, EmptySeq DEF Nothing, NoAnswer
    <3> QED BY <3>1 DEF Exchange
  <2>4. CASE s2c'[c] = s2c[c] /\ s2c[c] # <<>>
    <3>1. CASE Answered(c)
      <4>1. Answered(c)'
        BY <2>1, <2>4, <3>1 DEF Answered, IsReply, This, channelVars
      <4> QED BY <2>1, <2>2, <3>1, <4>1 DEF AInv, Exchange, Nothing
    <3>2. CASE ~Answered(c)
      BY <2>1, <2>2, <2>4, <3>2 DEF AInv, Exchange, Nothing, Asked, Taken, Replied, NoAnswer
    <3> QED BY <3>1, <3>2
  <2> QED BY <2>1, <2>3, <2>4
<1>4. AnswerTypes'
  BY <1>1 DEF AInv, AnswerTypes, channelVars
<1> QED BY <1>2, <1>3, <1>4, ServerLeavesAnswers

(* A connection is closed; what workers do for it nobody will see.           *)
LEMMA OneCutOff ==
  ASSUME CallInv, AInv, NEW c \in Client, LinksDown({c}),
         UNCHANGED <<channelVars, executed, queued, replies>>
  PROVE  AInv'
<1>1. PICK L \in SUBSET {d \in {c} : s2c[d] # <<>>} :
        s2c' = [d \in Client |-> IF d \in L THEN <<>> ELSE s2c[d]]
  BY DEF LinksDown
<1>2. /\ \A d \in Client : d # c => c2s'[d] = c2s[d] /\ s2c'[d] = s2c[d]
      /\ c2s'[c] = <<>> /\ s2c'[c] \in {s2c[c], <<>>}
      /\ UNCHANGED <<pc, current, queued, replies>>
  BY <1>1 DEF LinksDown, channelVars
<1>3. ASSUME NEW d \in Client, d # c PROVE Exchange(d)'
  <2>1. Untouched(d)
    BY <1>2, <1>3 DEF Untouched
  <2> QED BY <2>1, ExchangeStays DEF AInv, channelVars
<1>4. Exchange(c)'
  <2>1. WasSilent(c)' = WasSilent(c) /\ This(c)' = This(c)
    BY DEF WasSilent, This, channelVars
  <2>2. \A r : IsReply(c, r)' = IsReply(c, r)
    BY <2>1 DEF IsReply
  <2>3. Nothing(c) => Nothing(c)'
    BY <1>2 DEF Nothing
  <2>4. /\ Asked(c) => NoAnswer(c)'
        /\ NoAnswer(c) => NoAnswer(c)'
    <3>1. Len(c2s'[c]) <= 1 /\ <<>> \in Seq({<<>>}) /\ DOMAIN <<>> = {}
      BY <1>2, EmptySeq
    <3>2. queued'[c] = queued[c] /\ replies'[c] = replies[c] /\ s2c'[c] \in {s2c[c], <<>>}
      BY <1>2
    <3>3. Asked(c) => NoAnswer(c)'
      BY <3>1, <3>2 DEF Asked, NoAnswer
    <3>4. NoAnswer(c) => NoAnswer(c)'
      BY <3>1, <3>2 DEF NoAnswer
    <3> QED BY <3>3, <3>4
  <2>5. Taken(c) => Taken(c)'
    BY <1>2, <2>1 DEF Taken, Request
  <2>6. Replied(c) => Replied(c)'
    BY <1>2, <2>2 DEF Replied
  <2>7. Answered(c) => Answered(c)' \/ NoAnswer(c)'
    <3>1. CASE s2c'[c] = s2c[c]
      BY <1>2, <2>2, <3>1 DEF Answered
    <3>2. CASE s2c'[c] = <<>>
      BY <1>2, <3>2, EmptySeq DEF Answered, NoAnswer
    <3> QED BY <1>2, <3>1, <3>2
  <2> QED BY <1>2, <2>1, <2>3, <2>4, <2>5, <2>6, <2>7, Zenon DEF AInv, Exchange
<1>5. AnswerTypes'
  BY <1>1 DEF AInv, AnswerTypes, channelVars
<1> QED BY <1>3, <1>4, <1>5, ServerLeavesAnswers

LEMMA StillAsks ==
  ASSUME NEW c, pc'[c] = pc[c], pc[c] = "recv",
         Asked(c)' \/ Taken(c)' \/ Replied(c)' \/ Answered(c)' \/ NoAnswer(c)'
  PROVE  Exchange(c)'
BY DEF Exchange

(* An IO thread has read the whole request, or a part: then the worker that  *)
(* gets it finds no frame in it.                                             *)
LEMMA HandleMessageAnswers ==
  ASSUME CallInv, AInv, NEW s \in Server, NEW c \in Client, HandleMessage(s, c),
         UNCHANGED channelVars
  PROVE  AInv'
<1>1. PICK chunk \in Reads(c2s[c]) : /\ c2s' = [c2s EXCEPT ![c] = Rest(@, chunk)]
                                      /\ queued' = [queued EXCEPT ![c] = Append(@, chunk)]
  BY DEF HandleMessage
<1>2. /\ c2s'[c] = Rest(c2s[c], chunk) /\ queued'[c] = Append(queued[c], chunk)
      /\ \A d \in Client \ {c} : c2s'[d] = c2s[d] /\ queued'[d] = queued[d]
      /\ c2s[c] \in Seq(Piece) /\ queued[c] \in Seq(Seq(Piece))
  BY <1>1 DEF CallInv, CallTypes
<1>3. UNCHANGED <<s2c, replies, executed, pc, current, status, answer>>
  BY DEF HandleMessage, channelVars
<1>0. pc'[c] = pc[c]
  BY <1>3
<1>4. ASSUME NEW d \in Client \ {c} PROVE Exchange(d)'
  <2>1. Untouched(d)
    BY <1>2, <1>3 DEF Untouched
  <2> QED BY <1>3, <2>1, ExchangeStays DEF AInv
<1>5. c2s[c] # <<>>
  BY NothingToRead
<1>6. WasSilent(c) => WasSilent(c)'
  BY <1>3 DEF WasSilent
<1>7. This(c)' = This(c)
  BY <1>3 DEF This
<1>8. ASSUME pc[c] = "recv" /\ Asked(c)
      PROVE  Exchange(c)'
  <2>1. PICK m : m = Request(This(c)) /\ c2s[c] = Frame(m) /\ m = Request(This(c))'
    BY <1>7, <1>8 DEF Asked, Request
  <2>2. queued[c] = <<>> /\ replies'[c] = <<>> /\ s2c'[c] = <<>>
    BY <1>3, <1>8 DEF Asked
  <2>3. queued'[c] = <<chunk>>
    BY <1>2, <2>2
  <2>4. CASE chunk = Frame(m) /\ Rest(Frame(m), chunk) = <<>>
    <3>1. Taken(c)'
      BY <1>2, <2>1, <2>2, <2>3, <2>4, Zenon DEF Taken
    <3> QED BY <1>0, <1>8, <3>1, StillAsks
  <2>5. CASE Len(chunk) = 1 /\ Len(Rest(Frame(m), chunk)) = 1
    <3>1. Len(c2s'[c]) <= 1
      <4>1. PICK rest : rest = Rest(Frame(m), chunk)
        OBVIOUS
      <4>2. c2s'[c] = rest
        BY <1>2, <2>1, <4>1, Zenon
      <4>3. Len(rest) = 1
        BY <2>5, <4>1, Zenon
      <4> QED BY <4>2, <4>3
    <3>2. \A i \in DOMAIN queued'[c] : Len(queued'[c][i]) <= 1
      <4>1. Len(chunk) = 1 /\ queued'[c] = <<chunk>>
        BY <2>3, <2>5
      <4> HIDE <2>1
      <4> QED BY <4>1
    <3>3. NoAnswer(c)'
      BY <2>2, <3>1, <3>2, EmptySeq DEF NoAnswer
    <3> QED BY <1>0, <1>8, <3>3, StillAsks
  <2> QED BY <2>1, <2>4, <2>5, FrameReads
<1>9. ASSUME pc[c] = "recv" /\ NoAnswer(c)
      PROVE  Exchange(c)'
  <2>1. Len(c2s[c]) <= 1 /\ \A i \in DOMAIN queued[c] : Len(queued[c][i]) <= 1
    BY <1>9 DEF NoAnswer
  <2>2. chunk \in Seq(Piece) /\ Len(chunk) = 1 /\ Len(Rest(c2s[c], chunk)) = 0
    BY <1>2, <2>1, ShortReads
  <2>3. \A i \in DOMAIN queued'[c] : Len(queued'[c][i]) <= 1
    <3>1. PICK q \in Seq(Seq(Piece)) : q = queued[c]
      BY <1>2
    <3>2. /\ Len(q) \in Nat /\ Len(Append(q, chunk)) = Len(q) + 1
          /\ DOMAIN Append(q, chunk) = 1..Len(q) + 1
          /\ \A i \in 1..Len(q) : Append(q, chunk)[i] = q[i]
          /\ Append(q, chunk)[Len(q) + 1] = chunk
      BY <2>2
    <3>3. \A i \in 1..Len(q) : Len(q[i]) <= 1
      BY <2>1, <3>1
    <3>4. ASSUME NEW i \in 1..Len(q) + 1 PROVE Len(Append(q, chunk)[i]) <= 1
      <4>1. CASE i \in 1..Len(q)
        BY <3>2, <3>3, <4>1
      <4>2. CASE i = Len(q) + 1
        <5>1. Append(q, chunk)[i] = chunk /\ Len(chunk) <= 1
          BY <2>2, <3>2, <4>2
        <5> QED BY <5>1
      <4> QED BY <3>2, <4>1, <4>2
    <3> QED BY <1>2, <3>1, <3>2, <3>4
  <2>4. NoAnswer(c)'
    <3>1. Len(c2s'[c]) <= 1
      BY <1>2, <2>2
    <3>2. s2c'[c] = <<>> /\ replies'[c] \in Seq({<<>>})
      BY <1>3, <1>9 DEF NoAnswer
    <3> QED BY <2>3, <3>1, <3>2 DEF NoAnswer
  <2> QED BY <1>0, <1>9, <2>4, StillAsks
<1>10. Exchange(c)'
  <2>1. ~Nothing(c) /\ ~Taken(c) /\ ~Replied(c) /\ ~Answered(c)
    BY <1>5 DEF Nothing, Taken, Replied, Answered
  <2> QED BY <1>0, <1>6, <1>8, <1>9, <2>1 DEF AInv, Exchange
<1> QED BY <1>3, <1>4, <1>10, ServerLeavesAnswers DEF AInv, AnswerTypes

(* RemoveAt on the sequences there are.                                      *)
LEMMA RemoveOnly == ASSUME NEW x PROVE RemoveAt(<<x>>, 1) = <<>>
<1>1. <<x>> \in Seq({x}) /\ Len(<<x>>) = 1
  OBVIOUS
<1>2. PICK q \in Seq({x}) : q = <<x>> /\ Len(q) = 1
  BY <1>1
<1>3. 1 \in 1..Len(q)
  BY <1>2
<1>4. PICK u : u = RemoveAt(q, 1)
  OBVIOUS
<1>5. u \in Seq({x}) /\ Len(u) = Len(q) - 1
  BY <1>3, <1>4, RemoveAtProperties
<1>6. u = <<>>
  BY <1>2, <1>5, EmptySeq
<1> QED BY <1>2, <1>4, <1>6

LEMMA RemoveShort ==
  ASSUME NEW q \in Seq(Seq(Piece)), NEW r \in 1..Len(q), \A i \in DOMAIN q : Len(q[i]) <= 1
  PROVE  \A i \in DOMAIN RemoveAt(q, r) : Len(RemoveAt(q, r)[i]) <= 1
<1>1. Len(q) \in Nat /\ DOMAIN q = 1..Len(q)
  BY LenProperties
<1>2. PICK u : u = RemoveAt(q, r)
  OBVIOUS
<1>3. /\ u \in Seq(Seq(Piece)) /\ Len(u) = Len(q) - 1
      /\ \A i \in 1..r - 1 : u[i] = q[i]
      /\ \A i \in r..Len(q) - 1 : u[i] = q[i + 1]
  BY <1>2, RemoveAtProperties
<1>4. DOMAIN u = 1..Len(u)
  BY <1>3, LenProperties
<1>5. ASSUME NEW i \in 1..Len(q) - 1 PROVE Len(u[i]) <= 1
  <2>1. CASE i <= r - 1
    <3>1. i \in 1..r - 1 /\ i \in DOMAIN q
      BY <1>1, <2>1
    <3>2. u[i] = q[i] /\ Len(q[i]) <= 1
      BY <1>3, <3>1
    <3> QED BY <3>2
  <2>2. CASE i > r - 1
    <3>1. i \in r..Len(q) - 1 /\ i + 1 \in DOMAIN q
      BY <1>1, <2>2
    <3>2. u[i] = q[i + 1] /\ Len(q[i + 1]) <= 1
      BY <1>3, <3>1
    <3> QED BY <3>2
  <2> QED BY <1>1, <2>1, <2>2
<1> QED BY <1>2, <1>3, <1>4, <1>5

LEMMA RepliesToNone == ASSUME NEW s PROVE ReplyMessages(s, <<>>) = <<>>
BY DEF ReplyMessages

LEMMA RepliesToOne == ASSUME NEW s, NEW m PROVE ReplyMessages(s, <<m>>) = <<Reply(s, m)>>
BY DEF ReplyMessages

(* A worker sends the replies of one buffer.                                 *)
LEMMA SendRepliesAnswers ==
  ASSUME CallInv, AInv, NEW s \in Server, NEW c \in Client, SendReplies(s, c),
         UNCHANGED channelVars
  PROVE  AInv'
<1>1. PICK i \in DOMAIN replies[c] :
        /\ s2c' = IF link[c].up
                    THEN [s2c EXCEPT ![c] = @ \o Frames(replies[c][i])] ELSE s2c
        /\ replies' = [replies EXCEPT ![c] = RemoveAt(@, i)]
  BY DEF SendReplies
<1>2. /\ s2c'[c] = IF link[c].up THEN s2c[c] \o Frames(replies[c][i]) ELSE s2c[c]
      /\ replies'[c] = RemoveAt(replies[c], i)
      /\ \A d \in Client \ {c} : s2c'[d] = s2c[d] /\ replies'[d] = replies[d]
      /\ DOMAIN s2c' = Client /\ DOMAIN replies' = Client
  BY <1>1 DEF AInv, AnswerTypes
<1>3. UNCHANGED <<c2s, queued, executed, pc, current, status, answer>>
  BY DEF SendReplies, channelVars
<1>0. pc'[c] = pc[c]
  BY <1>3
<1>4. ASSUME NEW d \in Client \ {c} PROVE Exchange(d)'
  <2>1. Untouched(d)
    BY <1>2, <1>3 DEF Untouched
  <2> QED BY <1>3, <2>1, ExchangeStays DEF AInv
<1>5. replies[c] # <<>>
  BY <1>1
<1>6. WasSilent(c) => WasSilent(c)'
  BY <1>3 DEF WasSilent
<1>7. This(c)' = This(c)
  BY <1>3 DEF This
<1>8. ASSUME pc[c] = "recv" /\ Replied(c)
      PROVE  Exchange(c)'
  <2>1. PICK r : IsReply(c, r) /\ replies[c] = <<<<r>>>>
    BY <1>8 DEF Replied
  <2>2. i = 1 /\ replies[c][i] = <<r>> /\ s2c[c] = <<>>
    BY <1>1, <1>8, <2>1 DEF Replied
  <2>3. replies'[c] = <<>> /\ c2s'[c] = <<>> /\ queued'[c] = <<>>
    BY <1>2, <1>3, <1>8, <2>1, <2>2, RemoveOnly DEF Replied
  <2>4. s2c'[c] = Frame(r) \/ s2c'[c] = <<>>
    <3>1. <<>> \o Frame(r) = Frame(r)
      BY FrameParts, ConcatEmptySeq
    <3> QED BY <1>2, <2>2, <3>1, FramesOfOne, Zenon
  <2>5. IsReply(c, r)'
    BY <1>3, <1>7, <2>1 DEF IsReply
  <2>6. Answered(c)' \/ NoAnswer(c)'
    <3>1. CASE s2c'[c] = Frame(r)
      BY <2>3, <2>5, <3>1, Zenon DEF Answered
    <3>2. CASE s2c'[c] = <<>>
      BY <2>3, <3>2, EmptySeq DEF NoAnswer
    <3> QED BY <2>4, <3>1, <3>2
  <2> QED BY <1>0, <1>8, <2>6, StillAsks
<1>9. ASSUME pc[c] = "recv" /\ NoAnswer(c)
      PROVE  Exchange(c)'
  <2>1. /\ Len(c2s[c]) <= 1 /\ \A j \in DOMAIN queued[c] : Len(queued[c][j]) <= 1
        /\ replies[c] \in Seq({<<>>}) /\ s2c[c] = <<>>
    BY <1>9 DEF NoAnswer
  <2>2. i \in 1..Len(replies[c]) /\ replies[c][i] = <<>>
    BY <1>1, <2>1, LenProperties, ElementOfSeq
  <2>3. replies'[c] \in Seq({<<>>})
    BY <1>2, <2>1, <2>2, RemoveAtProperties
  <2>4. s2c'[c] = <<>>
    <3>1. <<>> \o <<>> = <<>>
      OBVIOUS
    <3> QED BY <1>2, <2>1, <2>2, <3>1, FramesOfNone, Zenon
  <2>5. NoAnswer(c)'
    BY <1>3, <2>1, <2>3, <2>4 DEF NoAnswer
  <2> QED BY <1>0, <1>9, <2>5, StillAsks
<1>10. Exchange(c)'
  <2>1. ~Nothing(c) /\ ~Taken(c) /\ ~Asked(c) /\ ~Answered(c)
    BY <1>5 DEF Nothing, Taken, Asked, Answered
  <2> QED BY <1>0, <1>6, <1>8, <1>9, <2>1 DEF AInv, Exchange
<1>11. AnswerTypes'
  BY <1>2, <1>3 DEF AInv, AnswerTypes
<1> QED BY <1>3, <1>4, <1>10, <1>11, ServerLeavesAnswers

(* A worker takes the request, or a part of one, and makes the reply.        *)
LEMMA OnMessageAnswers ==
  ASSUME CallInv, AInv, NEW s \in Server, NEW c \in Client, OnMessage(s, c),
         UNCHANGED channelVars
  PROVE  AInv'
<1>1. PICK i \in DOMAIN queued[c] :
        /\ queued' = [queued EXCEPT ![c] = RemoveAt(@, i)]
        /\ \/ /\ replies' = [replies EXCEPT ![c] =
                               Append(@, ReplyMessages(s, decode(queued[c][i])))]
              /\ executed' = [k \in DOMAIN executed |-> executed[k] +
                   Cardinality({j \in Whole(queued[c][i]) :
                      queued[c][i][j].msg.call = k /\ Runs(s, queued[c][i][j].msg)})]
           \/ MayHang(queued[c][i]) /\ UNCHANGED <<replies, executed>>
  BY DEF OnMessage
<1>2. /\ queued'[c] = RemoveAt(queued[c], i)
      /\ \A d \in Client \ {c} : queued'[d] = queued[d] /\ replies'[d] = replies[d]
      /\ DOMAIN replies' = Client
  BY <1>1 DEF AInv, AnswerTypes, CallInv, CallTypes
<1>3. UNCHANGED <<c2s, s2c, pc, current, status, answer>>
  BY DEF OnMessage, channelVars, netVars
<1>4. CallInv' /\ \A k \in Call : executed[k] = 1 => executed'[k] = 1
  BY OnMessageCalls
<1>5. pc'[c] = pc[c] /\ This(c)' = This(c) /\ (WasSilent(c) => WasSilent(c)')
  BY <1>3 DEF This, WasSilent
<1>6. ASSUME NEW d \in Client \ {c} PROVE Exchange(d)'
  <2>1. Untouched(d)
    BY <1>2, <1>3 DEF Untouched
  <2> QED BY <1>3, <1>4, <2>1, ExchangeStays DEF AInv
<1>7. queued[c] # <<>>
  BY <1>1
<1>8. ASSUME pc[c] = "recv", Taken(c)
      PROVE  Exchange(c)'
  <2>1. PICK m : m = Request(This(c)) /\ queued[c] = <<Frame(m)>>
    BY <1>8 DEF Taken
  <2>2. PICK chunk : chunk = Frame(m)
    OBVIOUS
  <2>3. /\ i = 1 /\ queued[c][i] = chunk /\ queued'[c] = <<>>
        /\ c2s'[c] = <<>> /\ s2c'[c] = <<>> /\ replies[c] = <<>>
    BY <1>1, <1>2, <1>3, <1>8, <2>1, <2>2, RemoveOnly DEF Taken
  <2>4. This(c) \in Call /\ m.call = This(c)
    BY <1>8, <2>1 DEF CallInv, Control, Request
  <2>5. CASE replies'[c] = replies[c]
    <3>1. NoAnswer(c)'
      BY <2>3, <2>5, EmptySeq DEF NoAnswer
    <3> QED BY <1>5, <1>8, <3>1, StillAsks
  <2>6. CASE /\ replies' = [replies EXCEPT ![c] =
                              Append(@, ReplyMessages(s, decode(queued[c][i])))]
             /\ executed' = [k \in DOMAIN executed |-> executed[k] +
                  Cardinality({j \in Whole(queued[c][i]) :
                     queued[c][i][j].msg.call = k /\ Runs(s, queued[c][i][j].msg)})]
    <3>1. Whole(chunk) = {1} /\ decode(chunk) = <<m>> /\ chunk[1].msg = m
      <4>1. Frame(m)[1].msg = m
        BY DEF Frame
      <4> QED BY <2>2, <4>1, FrameDecodes, Zenon
    <3>2. PICK r : r = Reply(s, m)
      OBVIOUS
    <3>3. ReplyMessages(s, decode(queued[c][i])) = <<r>>
      BY <2>3, <3>1, <3>2, RepliesToOne, Zenon
    <3>4. replies'[c] = <<<<r>>>>
      BY <2>3, <2>6, <3>3 DEF AInv, AnswerTypes
    <3>5. Runs(s, m) => executed'[This(c)] = 1
      <4>1. ASSUME Runs(s, m)
            PROVE  {j \in Whole(chunk) : chunk[j].msg.call = This(c) /\ Runs(s, chunk[j].msg)}
                     = {1}
        BY <2>4, <3>1, <4>1
      <4>2. DOMAIN executed = Call
        BY DEF CallInv, CallTypes
      <4>3. executed'[This(c)] = executed[This(c)] +
              Cardinality({j \in Whole(chunk) :
                 chunk[j].msg.call = This(c) /\ Runs(s, chunk[j].msg)})
        BY <2>3, <2>4, <2>6, <4>2
      <4>4. executed[This(c)] \in {0, 1} /\ executed'[This(c)] \in {0, 1}
        BY <1>4, <2>4 DEF CallInv, CallTypes
      <4>5. Runs(s, m) => Cardinality({j \in Whole(chunk) :
                 chunk[j].msg.call = This(c) /\ Runs(s, chunk[j].msg)}) = 1
        BY <4>1, FS_Singleton
      <4> QED BY <4>3, <4>4, <4>5
    <3>6. IsReply(c, r)'
      BY <1>5, <2>4, <3>2, <3>5 DEF IsReply, Reply
    <3>7. Replied(c)'
      BY <2>3, <3>4, <3>6 DEF Replied
    <3> QED BY <1>5, <1>8, <3>7, StillAsks
  <2> QED BY <1>1, <2>5, <2>6
<1>9. ASSUME pc[c] = "recv", NoAnswer(c)
      PROVE  Exchange(c)'
  <2>1. /\ Len(c2s[c]) <= 1 /\ \A j \in DOMAIN queued[c] : Len(queued[c][j]) <= 1
        /\ replies[c] \in Seq({<<>>}) /\ s2c[c] = <<>>
    BY <1>9 DEF NoAnswer
  <2>2. queued[c] \in Seq(Seq(Piece)) /\ i \in 1..Len(queued[c])
    BY LenProperties DEF CallInv, CallTypes
  <2>3. \A j \in DOMAIN queued'[c] : Len(queued'[c][j]) <= 1
    BY <1>2, <2>1, <2>2, RemoveShort
  <2>4. ReplyMessages(s, decode(queued[c][i])) = <<>>
    <3>1. PICK chunk \in Seq(Piece) : chunk = queued[c][i] /\ Len(chunk) <= 1
      BY <2>1, <2>2, ElementOfSeq
    <3>2. decode(chunk) = <<>>
      BY <3>1, ShortDecodes
    <3> QED BY <3>1, <3>2, RepliesToNone, Zenon
  <2>5. replies'[c] \in Seq({<<>>})
    <3>1. replies'[c] \in {replies[c], Append(replies[c], <<>>)}
      BY <1>1, <2>4 DEF AInv, AnswerTypes
    <3>2. Append(replies[c], <<>>) \in Seq({<<>>})
      BY <2>1, AppendProperties
    <3> QED BY <2>1, <3>1, <3>2
  <2>6. NoAnswer(c)'
    BY <1>3, <2>1, <2>3, <2>5 DEF NoAnswer
  <2> QED BY <1>5, <1>9, <2>6, StillAsks
<1>10. Exchange(c)'
  <2>1. ~Nothing(c) /\ ~Asked(c) /\ ~Replied(c) /\ ~Answered(c)
    BY <1>7 DEF Nothing, Asked, Replied, Answered
  <2> QED BY <1>5, <1>8, <1>9, <2>1 DEF AInv, Exchange
<1>11. AnswerTypes'
  BY <1>2, <1>3 DEF AInv, AnswerTypes
<1>12. AnswerIsOwnOrError'
  BY <1>3, <1>4, AnswersStay DEF AInv
<1> QED BY <1>6, <1>10, <1>11, <1>12 DEF AInv

(* All that servers do.                                                      *)
LEMMA ServerAnswers ==
  ASSUME CallInv, AInv, NEW s \in Server, ServerStep(s) \/ ServerFault(s),
         UNCHANGED channelVars
  PROVE  AInv'
<1> USE DEF netVars, serverVars, working
<1>1. CASE Start(s) \/ ServerConnected(s) \/ ZkStarted(s) \/ Exists(s) \/ Stop(s)
  BY <1>1, NobodyTouched DEF Start, ServerConnected, ZkStarted, Exists, Stop
<1>2. CASE ServerGone(s)
  <2>1. LinksTo(Session(s)) \in SUBSET Client
    BY DEF LinksTo
  <2>2. PICK C \in SUBSET Client : C = LinksTo(Session(s))
    BY <2>1
  <2>3. /\ \A c \in Client : /\ queued'[c] = IF c \in C THEN <<>> ELSE queued[c]
                             /\ replies'[c] = IF c \in C THEN <<>> ELSE replies[c]
        /\ DOMAIN replies' = Client /\ LinksDown(C) /\ UNCHANGED executed
    BY <1>2, <2>2 DEF ServerGone
  <2> QED BY <2>3, SomeCutOff
<1>3. CASE Create(s) \/ Stopped(s) \/ ServerDies(s)
  BY <1>2, <1>3, NobodyTouched DEF Create, Stopped, ServerDies
<1>4. ASSUME NEW c \in Client, Serves(s, c) PROVE AInv'
  BY <1>4, HandleMessageAnswers, OnMessageAnswers, SendRepliesAnswers DEF Serves
<1>5. ASSUME NEW c \in Client, DropIdle(s, c) PROVE AInv'
  BY <1>5, OneCutOff DEF DropIdle
<1> QED BY <1>1, <1>3, <1>4, <1>5 DEF ServerStep, ServerFault, ServerWorks

(* A step of client c; what follows the name of the step is what it does.    *)
LEMMA OneClientAnswers ==
  ASSUME CallInv, AInv, NEW c \in Client, UNCHANGED <<executed, queued, replies>>,
         \A k \in Call : status[k] = "silent" => status'[k] = "silent",
         \A d \in Client \ {c} : /\ c2s'[d] = c2s[d] /\ s2c'[d] = s2c[d]
                                 /\ pc'[d] = pc[d] /\ current'[d] = current[d],
         DOMAIN s2c' = Client, DOMAIN answer' = Call,
         Exchange(c)', AnswerIsOwnOrError'
  PROVE  AInv'
<1>1. ASSUME NEW d \in Client \ {c} PROVE Exchange(d)'
  <2>1. Untouched(d)
    BY DEF Untouched
  <2> QED BY <2>1, ExchangeStays DEF AInv
<1> QED BY <1>1 DEF AInv, AnswerTypes

LEMMA NotReceiving ==
  ASSUME NEW c, Exchange(c), pc[c] \in {"out", "lookup", "connect", "send"},
         pc'[c] \notin {"recv"}, WasSilent(c) => WasSilent(c)',
         UNCHANGED <<queued, replies>>, c2s'[c] = c2s[c], s2c'[c] = s2c[c]
  PROVE  Exchange(c)'
<1>1. WasSilent(c) \/ Nothing(c)
  BY DEF Exchange
<1>2. Nothing(c) => Nothing(c)'
  BY DEF Nothing
<1> QED BY <1>1, <1>2 DEF Exchange

(* A call that has not been sent goes on, or comes back.                     *)
LEMMA UnsentAnswers ==
  ASSUME CallInv, AInv, NEW c \in Client, CallMethod(c) \/ Lookup(c) \/ Connect(c)
  PROVE  AInv'
<1> USE DEF Dies
<1>1. /\ UNCHANGED executed
      /\ \A k \in Call : status[k] = "silent" => status'[k] = "silent"
      /\ \A k \in Call : status'[k] = "answered" => status[k] = "answered"
  <2>1. CASE CallMethod(c)
    <3>1. /\ status \in [Call -> Statuses] /\ DOMAIN Script[c] = 1..Len(Script[c])
          /\ current[c] \in Nat /\ Len(Script[c]) \in Nat /\ current[c] < Len(Script[c])
      BY <2>1, RpcAssumption, LenProperties DEF CallMethod, CallInv, CallTypes
    <3>2. PICK k : k = <<c, current[c] + 1>> /\ k \in Call
      <4>1. current[c] + 1 \in 1..Len(Script[c])
        BY <3>1
      <4> QED BY <4>1, CallParts
    <3>3. status[k] = "idle"
      BY <3>1, <3>2 DEF CallInv, Control
    <3>4. \E how \in {"failed", "calling"} : status' = [status EXCEPT ![k] = how]
      BY <2>1, <3>2 DEF CallMethod
    <3> QED BY <2>1, <3>1, <3>3, <3>4 DEF CallMethod, serverVars
  <2>2. CASE Lookup(c)
    <3>1. status \in [Call -> Statuses] /\ status[This(c)] = "calling"
      BY <2>2 DEF Lookup, CallInv, CallTypes, Control
    <3> QED BY <2>2, <3>1 DEF Lookup, Return, Goto, serverVars
  <2>3. CASE Connect(c)
    <3>1. status \in [Call -> Statuses] /\ status[This(c)] = "calling"
      BY <2>3 DEF Connect, CallInv, CallTypes, Control
    <3> QED BY <2>3, <3>1 DEF Connect, Return, Goto, serverVars
  <2> QED BY <2>1, <2>2, <2>3
<1>2. UNCHANGED <<queued, replies, c2s, s2c, answer>>
  BY DEF CallMethod, Lookup, Connect, serverVars, netVars
<1>3. /\ \A d \in Client \ {c} : pc'[d] = pc[d] /\ current'[d] = current[d]
      /\ pc[c] \in {"out", "lookup", "connect", "send"} /\ pc'[c] # "recv"
  BY DEF CallMethod, Lookup, Connect, Return, Goto, CallInv, CallTypes
<1>4. WasSilent(c) => WasSilent(c)'
  BY <1>1 DEF WasSilent
<1>5. Exchange(c)'
  BY <1>2, <1>3, <1>4, NotReceiving DEF AInv
<1>6. AnswerIsOwnOrError'
  BY <1>1, <1>2, AnswersStay DEF AInv
<1> QED BY <1>1, <1>2, <1>3, <1>5, <1>6, OneClientAnswers DEF AInv, AnswerTypes

LEMMA SendAnswers ==
  ASSUME CallInv, AInv, NEW c \in Client, Send(c)
  PROVE  AInv'
<1>1. UNCHANGED <<queued, replies, executed, s2c, answer, status, current>>
  BY DEF Send, Dies, Goto, serverVars, netVars
<1>2. \A d \in Client \ {c} : c2s'[d] = c2s[d] /\ pc'[d] = pc[d]
  BY DEF Send, Dies, Goto, netVars, CallInv, CallTypes
<1>3. WasSilent(c)' = WasSilent(c) /\ This(c)' = This(c)
  BY <1>1 DEF WasSilent, This
<1>4. Exchange(c)'
  <2>1. CASE WasSilent(c)
    BY <1>3, <2>1 DEF Exchange
  <2>2. CASE ~WasSilent(c)
    <3>1. Nothing(c)
      BY <2>2 DEF AInv, Exchange, Send
    <3>2. CASE /\ c2s' = [c2s EXCEPT ![c] = @ \o Frame(Request(This(c)))]
               /\ Goto(c, "recv")
      <4>1. PICK m : m = Request(This(c)) /\ m = Request(This(c))'
        BY <1>3 DEF Request
      <4>2. c2s'[c] = <<>> \o Frame(m)
        BY <3>1, <3>2, <4>1 DEF Nothing, CallInv, CallTypes
      <4>3. <<>> \o Frame(m) = Frame(m)
        BY FrameParts, ConcatEmptySeq
      <4>4. c2s'[c] = Frame(m)
        BY <4>2, <4>3, Zenon
      <4>5. queued'[c] = <<>> /\ replies'[c] = <<>> /\ s2c'[c] = <<>>
        BY <1>1, <3>1 DEF Nothing
      <4>6. Asked(c)'
        BY <4>1, <4>4, <4>5, Zenon DEF Asked
      <4>7. pc'[c] = "recv"
        BY <3>2 DEF Goto, CallInv, CallTypes
      <4> QED BY <4>6, <4>7 DEF Exchange
    <3>3. CASE Goto(c, "recv") /\ UNCHANGED netVars
      <4>1. NoAnswer(c)'
        BY <1>1, <3>1, <3>3, EmptySeq DEF Nothing, NoAnswer, netVars
      <4>2. pc'[c] = "recv"
        BY <3>3 DEF Goto, CallInv, CallTypes
      <4> QED BY <4>1, <4>2 DEF Exchange
    <3>4. CASE Dies(c)
      <4>1. pc'[c] = "dead"
        BY <3>4 DEF Dies, CallInv, CallTypes
      <4> QED BY <4>1 DEF Exchange
    <3> QED BY <3>2, <3>3, <3>4 DEF Send
  <2> QED BY <2>1, <2>2
<1>5. AnswerIsOwnOrError'
  BY <1>1, AnswersStay DEF AInv
<1> QED BY <1>1, <1>2, <1>4, <1>5, OneClientAnswers DEF AInv, AnswerTypes

(* The call a client is at, and one before it that came back silently.       *)
LEMMA SilentBefore ==
  ASSUME CallInv, NEW c \in Client, pc[c] = "recv", WasSilent(c)
  PROVE  \E i \in 1..This(c)[2] - 1 : <<c, i>> \in Call /\ status[<<c, i>>] = "silent"
<1>1. This(c) \in Call /\ status[This(c)] = "calling" /\ This(c) = <<c, current[c]>>
  BY DEF CallInv, Control, This
<1>2. PICK j \in Call : j[1] = c /\ status[j] = "silent"
  BY DEF WasSilent
<1>3. j = <<c, j[2]>> /\ j[2] \in Nat \ {0} /\ current[c] \in Nat
  BY <1>2, CallParts DEF CallInv, CallTypes
<1>4. ~(j[2] > current[c])
  BY <1>2 DEF CallInv, Control
<1>5. j[2] # current[c]
  BY <1>1, <1>2, <1>3
<1>6. j[2] \in 1..This(c)[2] - 1
  BY <1>1, <1>3, <1>4, <1>5
<1> QED BY <1>2, <1>3, <1>6

(* One recv, one decode: the answer whole, or a part of it.                  *)
LEMMA RecvAnswers ==
  ASSUME CallInv, AInv, NEW c \in Client, Recv(c)
  PROVE  AInv'
<1>1. PICK chunk \in Reads(s2c[c]) :
        /\ s2c' = [s2c EXCEPT ![c] = Rest(@, chunk)]
        /\ \/ Return(c, "silent") /\ UNCHANGED answer
           \/ /\ Len(decode(chunk)) = 1 /\ Return(c, "answered")
              /\ answer' = [answer EXCEPT ![This(c)] = decode(chunk)[1]]
           \/ Goto(c, "looping") /\ UNCHANGED answer
  BY DEF Recv
<1>2. UNCHANGED <<queued, replies, executed, c2s, current>>
  BY DEF Recv, serverVars
<1>3. PICK k \in Call : k = This(c) /\ status[k] = "calling" /\ k[1] = c
  BY DEF Recv, CallInv, Control, This
<1>4. /\ \A j \in Call \ {k} : status'[j] = status[j]
      /\ \A d \in Client \ {c} : pc'[d] = pc[d] /\ s2c'[d] = s2c[d]
      /\ DOMAIN s2c' = Client /\ DOMAIN answer' = Call
  BY <1>1, <1>3 DEF Return, Goto, CallInv, CallTypes, AInv, AnswerTypes
<1>5. \A j \in Call : status[j] = "silent" => status'[j] = "silent"
  BY <1>3, <1>4
<1>6. WasSilent(c) => WasSilent(c)'
  BY <1>5 DEF WasSilent
<1>7. CASE Return(c, "silent") /\ UNCHANGED answer
  <2>1. status'[k] = "silent" /\ pc'[c] = "out"
    BY <1>3, <1>7 DEF Return, CallInv, CallTypes
  <2>2. Exchange(c)'
    BY <1>3, <2>1 DEF Exchange, WasSilent
  <2>3. AnswerIsOwnOrError'
    BY <1>2, <1>4, <1>5, <1>7, <2>1, AnswersStay DEF AInv
  <2> QED BY <1>2, <1>4, <1>5, <2>2, <2>3, OneClientAnswers
<1>8. CASE Goto(c, "looping") /\ UNCHANGED answer
  <2>1. UNCHANGED status /\ pc'[c] = "looping"
    BY <1>8 DEF Goto, CallInv, CallTypes
  <2>2. Exchange(c)'
    BY <2>1 DEF Exchange
  <2>3. AnswerIsOwnOrError'
    BY <1>2, <1>8, <2>1, AnswersStay DEF AInv
  <2> QED BY <1>2, <1>4, <1>5, <2>2, <2>3, OneClientAnswers
<1>9. CASE /\ Len(decode(chunk)) = 1 /\ Return(c, "answered")
           /\ answer' = [answer EXCEPT ![This(c)] = decode(chunk)[1]]
  <2>1. pc[c] = "recv" /\ s2c[c] # <<>> /\ pc'[c] = "out"
    BY <1>9 DEF Recv, Return, CallInv, CallTypes
  <2>2. WasSilent(c) \/ Answered(c)
    BY <2>1 DEF AInv, Exchange, Asked, Taken, Replied, NoAnswer
  <2>3. ASSUME Answered(c), NEW r, IsReply(c, r), s2c[c] = Frame(r)
        PROVE  s2c'[c] = <<>> /\ answer'[k] = r
    <3>1. s2c'[c] = Rest(Frame(r), chunk)
      BY <1>1, <2>3 DEF AInv, AnswerTypes
    <3>2. CASE chunk = Frame(r) /\ Rest(Frame(r), chunk) = <<>>
      <4>1. decode(chunk) = <<r>>
        BY <3>2, FrameDecodes, Zenon
      <4>2. answer'[k] = decode(chunk)[1]
        BY <1>3, <1>9 DEF AInv, AnswerTypes
      <4> QED BY <3>1, <3>2, <4>1, <4>2
    <3>3. CASE Len(chunk) = 1
      <4>1. PICK S : chunk \in Seq(S)
        <5>1. PICK S : S = {[msg |-> r, part |-> "head"], [msg |-> r, part |-> "tail"]}
          OBVIOUS
        <5>2. PICK f \in Seq(S) : f = Frame(r) /\ Len(f) = 2
          BY <5>1, FrameParts
        <5>3. PICK n \in 1..2 : chunk = SubSeq(f, 1, n)
          BY <2>3, <5>2 DEF Reads
        <5>4. n \in 0..Len(f)
          BY <5>2
        <5>5. SubSeq(f, 1, n) \in Seq(S)
          BY <5>4, PrefixProperties
        <5> QED BY <5>1, <5>3, <5>5
      <4>2. Len(chunk) <= 1
        BY <3>3
      <4>3. decode(chunk) = <<>>
        BY <4>1, <4>2, ShortDecodes, Zenon
      <4> QED BY <1>9, <4>3
    <3> QED BY <2>3, <3>2, <3>3, FrameReads
  <2>4. Exchange(c)'
    <3>1. CASE WasSilent(c)
      BY <1>6, <3>1 DEF Exchange
    <3>2. CASE Answered(c)
      <4>1. s2c'[c] = <<>>
        BY <2>3, <3>2 DEF Answered
      <4>2. Nothing(c)'
        BY <1>2, <3>2, <4>1 DEF Answered, Nothing
      <4> QED BY <2>1, <4>2 DEF Exchange
    <3> QED BY <2>2, <3>1, <3>2
  <2>5. \/ answer'[k].msg_id = k /\ executed'[k] = 1
        \/ answer'[k].msg_id = Absent
        \/ \E i \in 1..k[2] - 1 : status'[<<c, i>>] = "silent"
    <3>1. CASE WasSilent(c)
      BY <1>3, <1>5, <2>1, <3>1, SilentBefore
    <3>2. CASE Answered(c)
      <4>1. PICK r : IsReply(c, r) /\ s2c[c] = Frame(r)
        BY <3>2 DEF Answered
      <4> QED BY <1>2, <1>3, <2>3, <3>2, <4>1 DEF IsReply
    <3> QED BY <2>2, <3>1, <3>2
  <2>6. AnswerIsOwnOrError'
    <3>1. ASSUME NEW j \in Call, j # k, status'[j] = "answered"
          PROVE  \/ answer'[j].msg_id = j /\ executed'[j] = 1
                 \/ answer'[j].msg_id = Absent
                 \/ \E i \in 1..j[2] - 1 : status'[<<j[1], i>>] = "silent"
      <4>1. answer'[j] = answer[j] /\ status[j] = "answered"
        BY <1>3, <1>4, <1>9, <3>1
      <4>2. ASSUME NEW i \in 1..j[2] - 1 PROVE <<j[1], i>> \in Call
        <5>1. /\ j[1] \in Client /\ j[2] \in Nat /\ j[2] \in 1..Len(Script[j[1]])
              /\ Len(Script[j[1]]) \in Nat
          BY CallParts
        <5>2. i \in 1..Len(Script[j[1]])
          BY <5>1
        <5> QED BY <5>1, <5>2, CallParts
      <4> QED BY <1>2, <1>5, <4>1, <4>2 DEF AInv, AnswerIsOwnOrError
    <3> QED BY <1>3, <2>5, <3>1 DEF AnswerIsOwnOrError
  <2> QED BY <1>2, <1>4, <1>5, <2>4, <2>6, OneClientAnswers
<1> QED BY <1>1, <1>7, <1>8, <1>9

LEMMA RecvEndAnswers ==
  ASSUME CallInv, AInv, NEW c \in Client, RecvEnd(c) \/ ClientDies(c)
  PROVE  AInv'
<1>1. UNCHANGED <<queued, replies, executed, c2s, s2c, current, answer>>
  BY DEF RecvEnd, ClientDies, Dies, serverVars, netVars
<1>2. CASE RecvEnd(c) /\ Return(c, "silent")
  <2>1. PICK k \in Call : k = This(c) /\ status[k] = "calling" /\ k[1] = c
    BY <1>2 DEF RecvEnd, CallInv, Control, This
  <2>2. /\ status' = [status EXCEPT ![k] = "silent"] /\ DOMAIN status = Call
        /\ \A d \in Client \ {c} : pc'[d] = pc[d]
    BY <1>2, <2>1 DEF Return, CallInv, CallTypes
  <2>3. Exchange(c)'
    BY <2>1, <2>2 DEF Exchange, WasSilent
  <2>4. AnswerIsOwnOrError'
    BY <1>1, <2>2, AnswersStay DEF AInv
  <2> QED BY <1>1, <2>2, <2>3, <2>4, OneClientAnswers DEF AInv, AnswerTypes
<1>3. CASE Dies(c) /\ UNCHANGED status
  <2>1. pc'[c] = "dead" /\ \A d \in Client \ {c} : pc'[d] = pc[d]
    BY <1>3 DEF Dies, CallInv, CallTypes
  <2>2. Exchange(c)'
    BY <2>1 DEF Exchange
  <2>3. AnswerIsOwnOrError'
    BY <1>1, <1>3, AnswersStay DEF AInv
  <2> QED BY <1>1, <1>3, <2>1, <2>2, <2>3, OneClientAnswers DEF AInv, AnswerTypes
<1> QED BY <1>2, <1>3 DEF RecvEnd, ClientDies

LEMMA InitAInv == Init => AInv
BY DEF Init, NetworkInit, ServerInit, ChannelInit, AInv, AnswerTypes, AnswerIsOwnOrError,
       Exchange, Nothing

LEMMA NextAInv ==
  ASSUME CallInv, AInv, [Next]_vars
  PROVE  AInv'
<1>1. ASSUME NEW s \in Server, ServerStep(s) \/ ServerFault(s), UNCHANGED channelVars
      PROVE  AInv'
  BY <1>1, ServerAnswers
<1>2. ASSUME NEW c \in Client, ClientStep(c) \/ ClientDies(c)
      PROVE  AInv'
  <2>1. CASE InitChannel(c) \/ ChannelConnected(c)
    BY <2>1, NobodyTouched DEF InitChannel, ChannelConnected, serverVars, netVars
  <2>2. CASE CallMethod(c) \/ Lookup(c) \/ Connect(c)
    BY <2>2, UnsentAnswers
  <2>3. CASE Send(c) \/ Recv(c) \/ RecvEnd(c) \/ ClientDies(c)
    BY <2>3, SendAnswers, RecvAnswers, RecvEndAnswers
  <2> QED BY <1>2, <2>1, <2>2, <2>3 DEF ClientStep, Works
<1>3. ASSUME NEW x \in live, SessionTimeout(x)
      PROVE  AInv'
  BY <1>3, NobodyTouched DEF SessionTimeout, serverVars, netVars
<1>4. CASE UNCHANGED vars
  BY <1>4, NobodyTouched DEF vars, serverVars, netVars
<1> QED BY <1>1, <1>2, <1>3, <1>4 DEF Next, Step, Fault

(* A response comes from the call's own handler, which has run, or is the    *)
(* empty one of an error, unless an earlier call of the channel came back    *)
(* without having read the whole of its answer (rpc_channel.cc:106-124).     *)
THEOREM AnswersCorrect == Spec => []AnswerIsOwnOrError
<1>1. AInv => AnswerIsOwnOrError
  BY DEF AInv
<1> QED BY <1>1, InitAInv, NextAInv, CallInvHolds, PTL DEF Spec

-----------------------------------------------------------------------------
(* Handles, phases, calls and the owners of nodes are what they should be.   *)
THEOREM TypeCorrect == Spec => []TypeOK
<1>1. RegInv /\ CallInv => TypeOK
  BY DEF RegInv, RegTypes, OwnersLive, CallInv, CallTypes, Phases, PcStates, Statuses, TypeOK
<1> QED BY <1>1, RegInvHolds, CallInvHolds, PTL
=============================================================================
