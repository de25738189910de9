----------------------------- MODULE RpcSystem ------------------------------
(***************************************************************************)
(* Servers, clients and ZooKeeper together: registration, calls, crashes,   *)
(* restarts and the ends of sessions.                                       *)
(***************************************************************************)
EXTENDS RpcChannel

CONSTANT MaxFaults  \* bound on crashes, sessions of running processes that
                    \* time out, idle connections that are closed, and Stop

(* Processes are servers or clients, a name of a service has parts, every    *)
(* path a server registers is one, and Absent is none of what is there.      *)
ASSUME RpcAssumption ==
    /\ Client \cap Server = {}
    /\ \A c \in Client : Script[c] \in Seq([service : Seq(STRING), method : STRING])
    /\ \A s \in Server : Paths(s) \in Seq(Path)
    /\ Absent \notin Nodes \cup (Proc \X Nat)

VARIABLE faults

vars == <<zkVars, netVars, serverVars, channelVars, faults>>

Init ==
    /\ ZkClientInit /\ NetworkInit /\ ServerInit /\ ChannelInit
    /\ faults = 0

ServerStep(s) ==
    \/ Start(s) \/ ServerWorks(s) \/ Stopped(s)
    \/ \E c \in Client : Serves(s, c)

ServerFault(s) ==
    \/ ServerDies(s) \/ Stop(s)
    \/ \E c \in Client : DropIdle(s, c)

ClientStep(c) == InitChannel(c) \/ CallMethod(c) \/ Works(c)

(* The session of a process that has ended times out; any other may, too.    *)
SessionTimeout(x) == SessionEnds(x) /\ UNCHANGED <<netVars, serverVars, channelVars>>

Over(x) == x # Session(x[1])

Step ==
    \/ (\E s \in Server : ServerStep(s)) /\ UNCHANGED channelVars
    \/ \E c \in Client : ClientStep(c)
    \/ \E x \in live : Over(x) /\ SessionTimeout(x)

Fault ==
    \/ (\E s \in Server : ServerFault(s)) /\ UNCHANGED channelVars
    \/ \E c \in Client : ClientDies(c)
    \/ \E x \in live : ~Over(x) /\ SessionTimeout(x)

Next ==
    \/ Step /\ UNCHANGED faults
    \/ faults < MaxFaults /\ Fault /\ faults' = faults + 1

Spec == Init /\ [][Next]_vars

(* Threads are scheduled and ZooKeeper lets a process connect: a server that *)
(* has started registers and serves, a call goes on whenever it can.  Nobody *)
(* has to start a server, to stop one, to begin a call or to crash, and TCP  *)
(* may cut any frame.                                                        *)
FairSpec ==
    /\ Spec
    /\ \A s \in Server : WF_vars(ServerWorks(s) /\ UNCHANGED <<channelVars, faults>>)
    /\ \A s \in Server, c \in Client :
         WF_vars(phase[s] = "serving" /\ Serves(s, c) /\ UNCHANGED <<channelVars, faults>>)
    /\ \A c \in Client : WF_vars(Works(c) /\ UNCHANGED faults)
-----------------------------------------------------------------------------
(* Properties                                                                *)

TypeOK ==
    /\ \A p \in Proc : zk[p] \in ZkStates
    /\ \A s \in Server :
         phase[s] \in {"down", "zookeeper", "register", "serving", "stopping"}
    /\ \A x \in Path : znodes[x] # Absent /\ znodes[x].owner # Absent => znodes[x].owner \in live
    /\ \A c \in Client :
         pc[c] \in {"out", "lookup", "connect", "send", "recv", "looping", "dead"}
    /\ \A k \in Call : status[k] \in {"idle", "calling", "failed", "silent", "answered"}

(* A call's request leaves its channel once (rpc_channel.cc:100), is made    *)
(* into one task (rpc_server.cc:82) and its handler runs once, after a call  *)
(* that may only have failed before anything was sent (rpc_channel.cc:42-88),*)
(* whatever is cut, dropped, restarted or answered late.                     *)
Abstract ==
    INSTANCE RpcService WITH
        state <- [k \in Call |-> IF status[k] \in {"silent", "answered"} THEN "back"
                                 ELSE status[k]],
        executions <- executed

ImplementsRpcService == Abstract!Spec

(* Nothing in rpc_channel.cc:106-124 ties an answer to its call.  Still a    *)
(* response comes from the call's own handler, or is the empty one of an     *)
(* error, unless an earlier call of the channel has come back without        *)
(* having read the whole of its answer.                                      *)
AnswerIsOwnOrError ==
    \A k \in Call : status[k] = "answered" =>
        \/ answer[k].msg_id = k /\ executed[k] = 1
        \/ answer[k].msg_id = Absent
        \/ \E i \in 1..k[2] - 1 : status[<<k[1], i>>] = "silent"

(* abstract_protocol.h:15, "the request number, which uniquely identifies a  *)
(* request or response": the response a call is given has the call's number. *)
AnswerIsOwn == \A k \in Call : status[k] = "answered" => answer[k].msg_id = k

(* Whoever looks x up now is led to s.                                       *)
LeadsTo(s, x) == \A c \in Client : Session(c) \in live => ListensAt(s, GetData(c, x))

(* A server that serves, and whose session ZooKeeper has not ended, has the  *)
(* nodes of its methods (rpc_server.cc:31-44, zookeeperutil.cc:66-82), unless *)
(* it found the node of another session, its own former one for example, and *)
(* left it at that.  What a node says, zookeeperip and the port of the       *)
(* configuration (config.cc:94-95, rpc_server.cc:26-27), leads to the server *)
(* if that is where the constructor has made it listen (rpc_server.cc:4).    *)
ServedMethodsAreFound ==
    \A s \in Server :
        phase[s] = "serving" /\ Session(s) \in live =>
            \A x \in ToSet(Paths(s)) \ skipped[s] :
                /\ znodes[x] = Node(s, x)
                /\ Len(x) = 2 /\ method_path_data(s) = Listens(s) => LeadsTo(s, x)

(* CallMethod comes back, unless a frame of its request was cut              *)
(* (rpc_server.cc:90 forgets the part it has), a decode does not return, or  *)
(* the server is being stopped: no answer is lost, to no other call of the   *)
(* channel and not by a server that ends.                                    *)
CallReturns ==
    \A c \in Client :
        pc[c] = "recv" ~>
            \/ pc[c] \in {"out", "dead", "looping"}
            \/ This(c) \in lost
            \/ \E s \in Server : phase[s] = "stopping"
=============================================================================
