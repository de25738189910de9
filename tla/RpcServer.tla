----------------------------- MODULE RpcServer ------------------------------
(***************************************************************************)
(* src/server/Rpc/rpc_server.cc and rpc_dispatcher.cc: a server registers   *)
(* its methods in ZooKeeper, serves, is stopped, and may end and be started *)
(* again at any moment.  An IO thread makes a task of whatever it has read  *)
(* (Connections.tla), a worker decodes and executes it, then sends one      *)
(* buffer of replies; ThreadPoll.tla shows that a task runs once, and that  *)
(* Stop may leave tasks queued.                                             *)
(*                                                                          *)
(* A name of a service is the sequence of its parts: <<package, service>>,  *)
(* or <<service>>; a path in ZooKeeper is <<name>> or <<name, method>>.     *)
(***************************************************************************)
EXTENDS Network

CONSTANTS
    Provides,      \* per server, the services registered with its
                   \* dispatcher, in the order of m_service_map
    Methods,       \* per service, the sequence of its methods
    Unparsable,    \* calls whose request ParseFromString refuses
    CtorIp, CtorPort,        \* arguments of RPCServer, per server
    port, zookeeperip,       \* nodes of a server's RPConfig.xml
    MaxRuns        \* bound, per server

VARIABLES
    phase,     \* "down", "zookeeper", "register", "serving" or "stopping"
    todo,      \* paths Start has still to create
    missing,   \* exists has found that the first of them is not there
    skipped,   \* paths this run has found created
    queued,    \* per client, chunks workers have still to take
    replies,   \* per client, replies workers have still to send
    executed,  \* how often a call's handler has run
    lost       \* calls whose request no frame has been made of

serverVars == <<phase, todo, missing, skipped, queued, replies, executed, lost>>

-----------------------------------------------------------------------------
(* Config and registration                                                   *)

(* config.cc:85-88, 93-95: m_ip is read from the node zookeeperip, and the   *)
(* node ip of <server> is used by nothing.                                   *)
m_ip(s) == zookeeperip[s]
m_port(s) == port[s]

(* rpc_server.cc:3-5 and TcpServer.cc:3-7: bound and listening from the      *)
(* constructor on.                                                           *)
Listens(s) == <<CtorIp[s], IF CtorPort[s] = 0 THEN m_port(s) ELSE CtorPort[s]>>

(* rpc_server.cc:26-27, 40                                                   *)
method_path_data(s) == <<m_ip(s), m_port(s)>>

service_path(name) == <<name>>
method_path(name, method) == <<name, method>>

(* rpc_server.cc:31-44: the service's path is looked at for every method.    *)
Paths(s) ==
    FlattenSeq([i \in DOMAIN Provides[s] |->
        LET name == Provides[s][i]
        IN  FlattenSeq([j \in DOMAIN Methods[name] |->
              <<service_path(name), method_path(name, Methods[name][j])>>])])

Nodes == [owner : (Server \X Nat) \cup {Absent},
          data : {method_path_data(s) : s \in Server} \cup {Absent}]

(* rpc_server.cc:37, 42: only the method's node is ephemeral.                *)
Node(s, x) ==
    IF Len(x) = 1 THEN [owner |-> Absent, data |-> Absent]
                  ELSE [owner |-> Session(s), data |-> method_path_data(s)]

ServerInit ==
    /\ phase = [s \in Server |-> "down"]
    /\ todo = [s \in Server |-> <<>>]
    /\ missing = [s \in Server |-> FALSE]
    /\ skipped = [s \in Server |-> {}]
    /\ queued = [c \in Client |-> <<>>]
    /\ replies = [c \in Client |-> <<>>]
    /\ executed = [k \in Call |-> 0]
    /\ lost = {}

registering == <<phase, todo, missing, skipped>>
working == <<queued, replies, executed, lost>>

(* main: a dispatcher, a server, its services and Start, to cc:29.           *)
Start(s) ==
    /\ phase[s] = "down" /\ run[s] < MaxRuns[s]
    /\ ZkInit(s)
    /\ phase' = [phase EXCEPT ![s] = "zookeeper"]
    /\ todo' = [todo EXCEPT ![s] = Paths(s)]
    /\ skipped' = [skipped EXCEPT ![s] = {}]
    /\ UNCHANGED <<missing, working, netVars>>

ZkStarted(s) ==
    /\ phase[s] = "zookeeper" /\ zk[s] = "ready"
    /\ phase' = [phase EXCEPT ![s] = IF todo[s] = <<>> THEN "serving" ELSE "register"]
    /\ UNCHANGED <<todo, missing, skipped, working, netVars, zkVars>>

(* The first path is dealt with; after the last comes cc:45.                 *)
NextPath(s) ==
    /\ todo' = [todo EXCEPT ![s] = Tail(@)]
    /\ phase' = [phase EXCEPT ![s] = IF Len(todo[s]) = 1 THEN "serving" ELSE @]

(* ZkClient::Create, the test.                                               *)
Exists(s) ==
    /\ phase[s] = "register" /\ ~missing[s]
    /\ LET x == Head(todo[s])
       IN  \/ /\ SaysNoNode(s, x)
              /\ missing' = [missing EXCEPT ![s] = TRUE]
              /\ UNCHANGED <<phase, todo, skipped>>
           \/ /\ ~SaysNoNode(s, x)
              /\ NextPath(s)
              /\ skipped' = [skipped EXCEPT ![s] = @ \cup {x}]
              /\ UNCHANGED missing
    /\ UNCHANGED <<working, netVars, zkVars>>

(* The process ends: IO threads, workers and what they hold go with it.      *)
ServerGone(s) ==
    LET C == LinksTo(Session(s))
    IN  /\ phase' = [phase EXCEPT ![s] = "down"]
        /\ todo' = [todo EXCEPT ![s] = <<>>]
        /\ missing' = [missing EXCEPT ![s] = FALSE]
        /\ skipped' = [skipped EXCEPT ![s] = {}]
        /\ queued' = [c \in Client |-> IF c \in C THEN <<>> ELSE queued[c]]
        /\ replies' = [c \in Client |-> IF c \in C THEN <<>> ELSE replies[c]]
        /\ LinksDown(C)
        /\ HandleLost(s)
        /\ UNCHANGED <<executed, lost>>

(* ZkClient::Create, zoo_create; when it fails, exit (zookeeperutil.cc:76-81)*)
Create(s) ==
    /\ phase[s] = "register" /\ missing[s]
    /\ LET x == Head(todo[s])
       IN  \/ /\ CreateSucceeds(s, x)
              /\ znodes' = [znodes EXCEPT ![x] = Node(s, x)]
              /\ missing' = [missing EXCEPT ![s] = FALSE]
              /\ NextPath(s)
              /\ UNCHANGED <<skipped, run, zk, live, working, netVars>>
           \/ /\ ~CreateSucceeds(s, x)
              /\ ServerGone(s)
              /\ UNCHANGED <<live, znodes>>

(* A crash, be it the watcher's (WatcherKills).                              *)
ServerDies(s) ==
    /\ phase[s] # "down"
    /\ ServerGone(s)
    /\ UNCHANGED <<live, znodes>>

-----------------------------------------------------------------------------
(* Messages                                                                  *)

ServesLink(s, c) ==
    /\ phase[s] \in {"serving", "stopping"}
    /\ link[c].to = Session(s)

(* Mutant: the connection's buffer is not cleared when it is handed on.      *)
HandleMessage_KeepsBuffer(s, c) ==
    /\ ServesLink(s, c)
    /\ \E chunk \in Reads(c2s[c]) : queued' = [queued EXCEPT ![c] = Append(@, chunk)]
    /\ UNCHANGED <<registering, replies, executed, lost, netVars, zkVars>>

(* HandleMessage on an IO thread, cc:73-84; Config refuses a pool of none.   *)
HandleMessage(s, c) ==
    /\ ServesLink(s, c)
    /\ \E chunk \in Reads(c2s[c]) :
         /\ c2s' = [c2s EXCEPT ![c] = Rest(@, chunk)]
         /\ queued' = [queued EXCEPT ![c] = Append(@, chunk)]
    /\ UNCHANGED <<registering, replies, executed, lost, link, s2c, zkVars>>

(* parseServiceFullName, rpc_dispatcher.cc:101-118: the first part names the  *)
(* service, whatever is left the method.                                     *)
parseServiceFullName(full_name) ==
    [service_name |-> <<Head(full_name)>>, method_name |-> Tail(full_name)]

(* dispatch, rpc_dispatcher.cc:34-59                                         *)
Found(s, m) ==
    LET n == parseServiceFullName(m.method_name)
    IN  /\ \E i \in DOMAIN Provides[s] : Provides[s][i] = n.service_name
        /\ \E j \in DOMAIN Methods[n.service_name] :
             n.method_name = <<Methods[n.service_name][j]>>

Runs(s, m) == Found(s, m) /\ m.call \notin Unparsable

(* dispatch, rpc_dispatcher.cc:19-90: setTinyPBError comes before the id has *)
(* been copied (cc:68-69); nobody reads the code.                            *)
Reply(s, m) == [msg_id |-> IF Runs(s, m) THEN m.call ELSE Absent]

(* Mutant: a request that dispatch refuses is not answered.                  *)
ReplyMessages_NoErrors(s, result) ==
    LET found == SelectSeq(result, LAMBDA m : Runs(s, m))
    IN  [k \in DOMAIN found |-> Reply(s, found[k])]

ReplyMessages(s, result) == [k \in DOMAIN result |-> Reply(s, result[k])]

(* OnMessage on a worker, cc:86-100.                                         *)
OnMessage(s, c) ==
    /\ ServesLink(s, c)
    /\ \E i \in DOMAIN queued[c] :
         LET chunk == queued[c][i]
             result == decode(chunk)
             parts == {p.msg.call : p \in ToSet(chunk)}
             calls == {chunk[j].msg.call : j \in Whole(chunk)}
         IN  /\ queued' = [queued EXCEPT ![c] = RemoveAt(@, i)]
             /\ \/ /\ replies' = [replies EXCEPT ![c] = Append(@, ReplyMessages(s, result))]
                   /\ executed' = [k \in DOMAIN executed |-> executed[k] +
                        Cardinality({j \in Whole(chunk) :
                           chunk[j].msg.call = k /\ Runs(s, chunk[j].msg)})]
                   /\ lost' = lost \cup (parts \ calls)
                \/ /\ MayHang(chunk)
                   /\ lost' = lost \cup parts
                   /\ UNCHANGED <<replies, executed>>
    /\ UNCHANGED <<registering, netVars, zkVars>>

(* Mutant: the replies stay in the worker's buffer and are sent again.       *)
SendReplies_Again(s, c) ==
    /\ ServesLink(s, c) /\ Len(s2c[c]) < 4
    /\ \E i \in DOMAIN replies[c] :
         s2c' = [s2c EXCEPT ![c] = @ \o Frames(replies[c][i])]
    /\ UNCHANGED <<serverVars, link, c2s, zkVars>>

(* The same worker, cc:101; workers finish in any order.                     *)
SendReplies(s, c) ==
    /\ ServesLink(s, c)
    /\ \E i \in DOMAIN replies[c] :
         /\ s2c' = IF link[c].up
                     THEN [s2c EXCEPT ![c] = @ \o Frames(replies[c][i])] ELSE s2c
         /\ replies' = [replies EXCEPT ![c] = RemoveAt(@, i)]
    /\ UNCHANGED <<registering, queued, executed, lost, link, c2s, zkVars>>

(* An IO loop closes a connection it has not read from for long, whatever    *)
(* the workers still do for it (EventLoop.cc:127-147).                       *)
DropIdle(s, c) ==
    /\ ServesLink(s, c) /\ link[c].up
    /\ LinksDown({c})
    /\ UNCHANGED <<serverVars, zkVars>>

(* Stop, cc:50-53: the pool first, which may leave tasks queued for ever.    *)
Stop(s) ==
    /\ phase[s] = "serving"
    /\ phase' = [phase EXCEPT ![s] = "stopping"]
    /\ UNCHANGED <<todo, missing, skipped, working, netVars, zkVars>>

(* Stop, cc:54: the main loop ends, Start returns and closes its handle      *)
(* (zookeeperutil.cc:22-28), main returns.                                   *)
Stopped(s) ==
    /\ phase[s] = "stopping"
    /\ ServerGone(s)
    /\ live' = live \ {Session(s)}
    /\ znodes' = NodesWithout(Session(s))

ServerConnected(s) == ZkConnected(s) /\ UNCHANGED <<serverVars, netVars>>

ServerWorks(s) ==
    ServerConnected(s) \/ ZkStarted(s) \/ Exists(s) \/ Create(s)

Serves(s, c) == HandleMessage(s, c) \/ OnMessage(s, c) \/ SendReplies(s, c)
=============================================================================
