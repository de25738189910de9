----------------------------- MODULE RpcChannel -----------------------------
(***************************************************************************)
(* src/server/Rpc/rpc_channel.cc: a client makes its calls one after the    *)
(* other through one channel.  A stub passes the descriptor of the method;  *)
(* what a caller can tell afterwards is whether the controller has failed   *)
(* (rpc_controller.cc:15-33, 46-50) and what is in the response.            *)
(***************************************************************************)
EXTENDS RpcServer

CONSTANTS
    Unserializable,  \* calls whose request SerializeToString refuses
    Garbled          \* an address nobody listens at

VARIABLES
    pc,          \* where CallMethod is; "out" between calls, "looping" in
                 \* a decode that does not return, "dead" after the process
    current,     \* calls begun
    isConnect_,
    closed,      \* sockfd has been closed
    host,        \* m_ip and m_port, as long as they matter
    status,      \* of each call: "idle", "calling", "failed" (SetFailed or
                 \* SetError), "silent" (a plain return) or "answered"
    answer       \* the message an answered call has taken its response from

channelVars == <<pc, current, isConnect_, closed, host, status, answer>>

This(c) == <<c, current[c]>>
Method(k) == Script[k[1]][k[2]]

(* cc:33, 39; method->full_name().                                          *)
Request(k) == [call |-> k, method_name |-> Append(Method(k).service, Method(k).method)]

(* cc:65; service()->name() is the last part of the service's full name.     *)
StubPath(k) == <<<<Last(Method(k).service)>>, Method(k).method>>

ChannelInit ==
    /\ pc = [c \in Client |-> "out"]
    /\ current = [c \in Client |-> 0]
    /\ isConnect_ = [c \in Client |-> FALSE]
    /\ closed = [c \in Client |-> FALSE]
    /\ host = [c \in Client |-> Absent]
    /\ status = [k \in Call |-> "idle"]
    /\ answer = [k \in Call |-> Absent]

(* CallMethod returns.                                                       *)
Return(c, how) ==
    /\ pc' = [pc EXCEPT ![c] = "out"]
    /\ status' = [status EXCEPT ![This(c)] = how]

Goto(c, label) ==
    /\ pc' = [pc EXCEPT ![c] = label]
    /\ UNCHANGED status

(* Init, cc:127-140, up to the wait in m_zkCli.Start.                        *)
InitChannel(c) ==
    /\ pc[c] = "out"
    /\ ZkInit(c)
    /\ UNCHANGED <<channelVars, serverVars, netVars>>

ChannelConnected(c) == ZkConnected(c) /\ UNCHANGED <<channelVars, serverVars, netVars>>

(* cc:24-62; without Init and for a message that cannot be serialized the    *)
(* call fails.                                                               *)
CallMethod(c) ==
    /\ pc[c] = "out" /\ zk[c] \in {"none", "ready"}
    /\ current[c] < Len(Script[c])
    /\ LET k == <<c, current[c] + 1>>
           fails == zk[c] = "none" \/ k \in Unserializable
       IN  /\ current' = [current EXCEPT ![c] = @ + 1]
           /\ pc' = [pc EXCEPT ![c] = IF fails THEN "out" ELSE "lookup"]
           /\ status' = [status EXCEPT ![k] = IF fails THEN "failed" ELSE "calling"]
    /\ UNCHANGED <<isConnect_, closed, host, answer, serverVars, netVars, zkVars>>

(* The process ends.                                                         *)
Dies(c) ==
    /\ pc' = [pc EXCEPT ![c] = "dead"]
    /\ HandleLost(c)
    /\ Broken({c})
    /\ UNCHANGED <<c2s, s2c>>

(* cc:64-88.  The buffer of zookeeperutil.cc:88 is not initialized and the   *)
(* data ends without a NUL: what follows it may read as more of the port.    *)
(* It has a colon, rpc_server.cc:40, so cc:75-79 is not reached; what stands  *)
(* before it, any text the server's configuration has for zookeeperip, may   *)
(* be no address for inet_pton, and the process exits (cc:84-88).            *)
Lookup(c) ==
    /\ pc[c] = "lookup"
    /\ LET host_data == GetData(c, StubPath(This(c)))
       IN  \/ /\ host_data = Absent
              /\ Return(c, "failed")
              /\ UNCHANGED <<host, netVars, zkVars>>
           \/ /\ host_data # Absent
              /\ host' \in {[host EXCEPT ![c] = h] : h \in {host_data, Garbled}}
              /\ Goto(c, "connect")
              /\ UNCHANGED <<netVars, zkVars>>
           \/ /\ host_data # Absent
              /\ Dies(c)
              /\ UNCHANGED <<host, status, live, znodes>>
    /\ UNCHANGED <<current, isConnect_, closed, answer, serverVars>>

ListensAt(s, address) == phase[s] # "down" /\ Listens(s) = address

(* cc:90-98: a channel stays with the server it has first connected to, and  *)
(* has no socket any more once connect has failed.                           *)
Connect(c) ==
    /\ pc[c] = "connect"
    /\ \/ /\ isConnect_[c]
          /\ Goto(c, "send")
          /\ UNCHANGED <<link, isConnect_, closed>>
       \/ /\ ~isConnect_[c] /\ ~closed[c]
          /\ \E s \in Server :
               /\ ListensAt(s, host[c])
               /\ link' = [link EXCEPT ![c] = [to |-> Session(s), up |-> TRUE]]
          /\ isConnect_' = [isConnect_ EXCEPT ![c] = TRUE]
          /\ Goto(c, "send")
          /\ UNCHANGED closed
       \/ /\ ~isConnect_[c]
          /\ closed[c] \/ \A s \in Server : ~ListensAt(s, host[c])
          /\ closed' = [closed EXCEPT ![c] = TRUE]
          /\ Return(c, "silent")
          /\ UNCHANGED <<link, isConnect_>>
    /\ host' = [host EXCEPT ![c] = Absent]
    /\ UNCHANGED <<current, answer, c2s, s2c, serverVars, zkVars>>

(* cc:100-105.  On a connection the server has closed, send may be answered  *)
(* by SIGPIPE, or succeed; ENOTCONN is not met once connect has succeeded.   *)
Send(c) ==
    /\ pc[c] = "send"
    /\ \/ /\ link[c].up
          /\ c2s' = [c2s EXCEPT ![c] = @ \o Frame(Request(This(c)))]
          /\ Goto(c, "recv")
          /\ UNCHANGED <<link, s2c, zkVars>>
       \/ /\ ~link[c].up
          /\ \/ Goto(c, "recv") /\ UNCHANGED <<netVars, zkVars>>
             \/ Dies(c) /\ UNCHANGED <<status, live, znodes>>
    /\ UNCHANGED <<current, isConnect_, closed, host, answer, serverVars>>

(* cc:106-125: one recv, one decode.  The answer's id and error code are not *)
(* looked at; parsing the answer to another call may fail, silently.         *)
Recv(c) ==
    /\ pc[c] = "recv" /\ s2c[c] # <<>>
    /\ \E chunk \in Reads(s2c[c]) :
         LET out_messages == decode(chunk)
         IN  /\ s2c' = [s2c EXCEPT ![c] = Rest(@, chunk)]
             /\ \/ /\ Len(out_messages) # 1
                   /\ Return(c, "silent")
                   /\ UNCHANGED answer
                \/ /\ Len(out_messages) = 1
                   /\ Return(c, "answered")
                   /\ answer' = [answer EXCEPT ![This(c)] = out_messages[1]]
                \/ /\ Len(out_messages) = 1
                   /\ out_messages[1].msg_id # This(c)
                   /\ Return(c, "silent")
                   /\ UNCHANGED answer
                \/ /\ MayHang(chunk)
                   /\ Goto(c, "looping")
                   /\ UNCHANGED answer
    /\ UNCHANGED <<current, isConnect_, closed, host, link, c2s, serverVars, zkVars>>

(* recv at the end of the stream: 0 bytes decode to no message; after a      *)
(* reset it is -1, and assign throws (cc:112).                               *)
RecvEnd(c) ==
    /\ pc[c] = "recv" /\ s2c[c] = <<>> /\ ~link[c].up
    /\ \/ Return(c, "silent") /\ UNCHANGED <<netVars, zkVars>>
       \/ Dies(c) /\ UNCHANGED <<status, live, znodes>>
    /\ UNCHANGED <<current, isConnect_, closed, host, answer, serverVars>>

(* The ZooKeeper watcher ends the process.                                   *)
ClientDies(c) ==
    /\ pc[c] # "dead" /\ WatcherKills(c)
    /\ Dies(c)
    /\ UNCHANGED <<current, isConnect_, closed, host, status, answer, serverVars, live, znodes>>

Works(c) ==
    \/ ChannelConnected(c)
    \/ Lookup(c) \/ Connect(c) \/ Send(c) \/ Recv(c) \/ RecvEnd(c)
=============================================================================
