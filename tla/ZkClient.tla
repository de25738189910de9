------------------------------ MODULE ZkClient ------------------------------
(***************************************************************************)
(* src/common/zookeeperutil.cc: a process's ZooKeeper handle, and the nodes *)
(* the processes register methods with.  ZooKeeper itself is external: a    *)
(* session is known by its process and run, it may end at any moment, and   *)
(* its ephemeral nodes go with it.                                          *)
(***************************************************************************)
EXTENDS Naturals, Sequences, SequencesExt

CONSTANTS
    Client, Server,  \* the processes
    Path,            \* paths of nodes
    Absent           \* no node, no data, no id

Proc == Client \cup Server

VARIABLES
    run,       \* how often a process has ended
    zk,        \* its handle: "none", "wait" (Start is running) or "ready"
    live,      \* sessions ZooKeeper holds, each <<process, run>>
    znodes     \* per path, [owner, data] or Absent

zkVars == <<run, zk, live, znodes>>

Session(p) == <<p, run[p]>>

ZkStates == {"none", "wait", "ready"}

ZkClientInit ==
    /\ run = [p \in Proc |-> 0]
    /\ zk = [p \in Proc |-> "none"]
    /\ live = {}
    /\ znodes = [x \in Path |-> Absent]

(* Start, cc:31-54: the handle's threads connect from cc:45 on.             *)
ZkInit(p) ==
    /\ zk[p] = "none"
    /\ zk' = [zk EXCEPT ![p] = "wait"]
    /\ live' = live \cup {Session(p)}
    /\ UNCHANGED <<run, znodes>>

(* global_watcher on the handle's thread, cc:4-15, lets cc:56 go on.        *)
ZkConnected(p) ==
    /\ zk[p] = "wait"
    /\ zk' = [zk EXCEPT ![p] = "ready"]
    /\ UNCHANGED <<run, live, znodes>>

(* The watcher is called before cc:54 has been reached: the context is null *)
(* and sem_post ends the process.  (After cc:58 the semaphore is gone from  *)
(* the stack: a reconnection posts to whatever is there, which may too.)    *)
WatcherKills(p) == zk[p] # "none" /\ Session(p) \in live

(* Mutant: the nodes a server creates are not ephemeral.                    *)
NodesWithout_Keeps(x) == znodes

(* What becomes of the nodes when session x is over.                        *)
NodesWithout(x) ==
    [y \in Path |-> IF znodes[y] # Absent /\ znodes[y].owner = x
                      THEN Absent ELSE znodes[y]]

SessionEnds(x) ==
    /\ x \in live
    /\ live' = live \ {x}
    /\ znodes' = NodesWithout(x)
    /\ UNCHANGED <<run, zk>>

(* The process is over; ZooKeeper does not notice yet.                      *)
HandleLost(p) ==
    /\ run' = [run EXCEPT ![p] = @ + 1]
    /\ zk' = [zk EXCEPT ![p] = "none"]

(* Create, cc:66-67: any answer but "no node" counts as one, the failure of *)
(* a session that is over too.                                              *)
SaysNoNode(p, x) == Session(p) \in live /\ znodes[x] = Absent

(* Mutant: zoo_create replaces the node of another session.                 *)
CreateSucceeds_Replaces(p, x) == Session(p) \in live

(* Create, cc:70-72.                                                        *)
CreateSucceeds(p, x) == Session(p) \in live /\ znodes[x] = Absent

(* GetData, cc:86-99; "" is Absent.                                         *)
GetData(p, x) ==
    IF Session(p) \in live /\ x \in Path /\ znodes[x] # Absent
      THEN znodes[x].data ELSE Absent
=============================================================================
