------------------------------- MODULE RWLock -------------------------------
(***************************************************************************)
(* src/common/DistributedReadWriteLock.{h,cc}: a lock several processes     *)
(* share through ephemeral sequential nodes under one ZooKeeper directory.  *)
(* A process has one lock object, used by any of its threads.               *)
(*                                                                          *)
(* ZooKeeper is external: it numbers the nodes it creates, lists them by    *)
(* name ("read_" before "write_", then by number) and removes those of a    *)
(* session that ends.  The watcher (cc:3-19) has no action: it takes its    *)
(* own address for the lock object, and the one call that sets a watch is   *)
(* followed by exit.                                                        *)
(***************************************************************************)
EXTENDS Naturals, FiniteSetsExt

CONSTANTS
    Proc,        \* processes, each with a session and a lock object
    Thread,      \* their threads
    ProcOf,      \* the process of each thread
    MaxSeq,      \* bound: nodes ever created
    NoNode       \* no node, and the empty path

VARIABLES
    nodes,       \* the children of m_lock_name
    seq,         \* the number of the next
    ended,       \* processes whose session is over
    exited,      \* processes that called exit
    isWriteLock, \* the member of that name, per process
    pc,          \* where each thread is: "idle", "list" (at the top of the
                 \* loop), "get", "wait", or "held" when the call returned
    mine,        \* the node of self_node_path, per thread
    chosen       \* the node of min_node_path, per thread

vars == <<nodes, seq, ended, exited, isWriteLock, pc, mine, chosen>>

Kinds == {"read", "write"}

Init ==
    /\ nodes = {}
    /\ seq = 0
    /\ ended = {} /\ exited = {}
    /\ isWriteLock = [p \in Proc |-> FALSE]
    /\ pc = [t \in Thread |-> "idle"]
    /\ mine = [t \in Thread |-> NoNode]
    /\ chosen = [t \in Thread |-> NoNode]

(* The order of std::sort on the names of children, cc:76 and 134.          *)
Before(a, b) ==
    \/ a.kind = "read" /\ b.kind = "write"
    \/ a.kind = b.kind /\ a.seq < b.seq

IsFirst(n, S) == n \in S /\ \A m \in S \ {n} : Before(n, m)

(* A child is listed without its directory; self_node_name, cut off at the  *)
(* length of m_lock_name (cc:61, 119), keeps the slash.                     *)
ChildName(n) == <<"", n.kind, n.seq>>
SelfName(n) == <<"/", n.kind, n.seq>>

IsSelf(t, n) == ChildName(n) = SelfName(mine[t])

Runs(t) == ProcOf[t] \notin exited

Go(t, place) == pc' = [pc EXCEPT ![t] = place]

(* exit(-1): the threads of the process are gone, its session is not yet.   *)
Exit(t) == exited' = exited \cup {ProcOf[t]} /\ UNCHANGED pc

-----------------------------------------------------------------------------
(* lock_write up to cc:61 and lock_read up to cc:119.                       *)
CreateNode(t, kind) ==
    /\ Runs(t) /\ pc[t] = "idle" /\ seq < MaxSeq
    /\ IF ProcOf[t] \in ended
         THEN Exit(t) /\ UNCHANGED <<nodes, seq, mine>>
         ELSE LET n == [kind |-> kind, seq |-> seq, proc |-> ProcOf[t]]
              IN  /\ nodes' = nodes \cup {n}
                  /\ mine' = [mine EXCEPT ![t] = n]
                  /\ seq' = seq + 1
                  /\ Go(t, "list") /\ UNCHANGED exited
    /\ UNCHANGED <<ended, isWriteLock, chosen>>

ListFails(t) ==
    /\ ProcOf[t] \in ended
    /\ Exit(t)
    /\ UNCHANGED <<nodes, seq, ended, isWriteLock, mine, chosen>>

Choose(t, n) == chosen' = [chosen EXCEPT ![t] = n] /\ Go(t, "get")

SetWriteLock(t) == isWriteLock' = [isWriteLock EXCEPT ![ProcOf[t]] = TRUE]

(* cc:64-88: the node before the own one, if the own one is found.          *)
ListWrite(t) ==
    /\ ProcOf[t] \notin ended
    /\ SetWriteLock(t)
    /\ IF \E n \in nodes : IsFirst(n, nodes) /\ IsSelf(t, n)
         THEN Go(t, "held") /\ UNCHANGED chosen
         ELSE IF \E n \in nodes : IsSelf(t, n)
                THEN \E n, b \in nodes :
                       /\ IsSelf(t, n)
                       /\ IsFirst(n, {m \in nodes : Before(b, m)})
                       /\ Choose(t, b)
                ELSE Choose(t, NoNode)
    /\ UNCHANGED <<nodes, seq, ended, exited, mine>>

(* cc:122-151: find("write_") is 0, false, for a write node and npos, true, *)
(* for any other, so the first read node is chosen.                         *)
Stops(t) == {n \in nodes : IsSelf(t, n) \/ n.kind # "write"}

ListRead(t) ==
    /\ ProcOf[t] \notin ended
    /\ IF \E n \in nodes : IsFirst(n, nodes) /\ IsSelf(t, n)
         THEN Go(t, "held") /\ UNCHANGED <<isWriteLock, chosen>>
         ELSE \/ \E n \in nodes :
                   /\ IsFirst(n, Stops(t)) /\ ~IsSelf(t, n)
                   /\ SetWriteLock(t) /\ Choose(t, n)
              \/ /\ Stops(t) = {} \/ \E n \in nodes : IsFirst(n, Stops(t)) /\ IsSelf(t, n)
                 /\ IF isWriteLock[ProcOf[t]]
                      THEN Choose(t, NoNode)
                      ELSE Go(t, "held") /\ UNCHANGED chosen
                 /\ UNCHANGED isWriteLock
    /\ UNCHANGED <<nodes, seq, ended, exited, mine>>

List(t) ==
    /\ Runs(t) /\ pc[t] = "list"
    /\ \/ ListFails(t)
       \/ mine[t].kind = "write" /\ ListWrite(t)
       \/ mine[t].kind = "read" /\ ListRead(t)

(* cc:89-101 and cc:152-164.  The result of zoo_get is tested the wrong way *)
(* round: the process exits when the watch is set, and waits when the path  *)
(* is empty or the session over.  Nobody ends the wait.                     *)
Get(t) ==
    /\ Runs(t) /\ pc[t] = "get"
    /\ IF ProcOf[t] \in ended \/ chosen[t] = NoNode
         THEN Go(t, "wait") /\ UNCHANGED exited
         ELSE IF chosen[t] \in nodes
                THEN Exit(t)
                ELSE Go(t, "list") /\ UNCHANGED exited
    /\ UNCHANGED <<nodes, seq, ended, isWriteLock, mine, chosen>>

(* unlock_write and unlock_read: the path has two slashes, zoo_delete fails *)
(* and the process exits (cc:39-45, 171-176).                               *)
Unlock(t) ==
    /\ Runs(t) /\ pc[t] = "held"
    /\ isWriteLock' = IF mine[t].kind = "write"
                        THEN [isWriteLock EXCEPT ![ProcOf[t]] = FALSE]
                        ELSE isWriteLock
    /\ Exit(t)
    /\ UNCHANGED <<nodes, seq, ended, mine, chosen>>

(* A session expires, or is over some time after the process is.            *)
SessionEnds(p) ==
    /\ p \notin ended
    /\ ended' = ended \cup {p}
    /\ nodes' = {n \in nodes : n.proc # p}
    /\ UNCHANGED <<seq, exited, isWriteLock, pc, mine, chosen>>

Next ==
    \/ \E t \in Thread :
         \/ \E kind \in Kinds : CreateNode(t, kind)
         \/ List(t) \/ Get(t) \/ Unlock(t)
    \/ \E p \in Proc : SessionEnds(p)

Spec == Init /\ [][Next]_vars

(* A thread in a lock call goes on with it.                                 *)
FairSpec == Spec /\ \A t \in Thread : WF_vars(List(t)) /\ WF_vars(Get(t))

-----------------------------------------------------------------------------
TypeOK ==
    /\ nodes \subseteq [kind : Kinds, seq : Nat, proc : Proc]
    /\ seq \in Nat
    /\ ended \subseteq Proc /\ exited \subseteq Proc
    /\ isWriteLock \in [Proc -> BOOLEAN]
    /\ pc \in [Thread -> {"idle", "list", "get", "wait", "held"}]

(* A thread in a lock call of a live session has its node in the directory. *)
OwnNodeThere ==
    \A t \in Thread :
        pc[t] \in {"list", "get"} /\ ProcOf[t] \notin ended => mine[t] \in nodes

(* What becomes of every call (cc:48-167): it never returns.  A lock_read   *)
(* ends the process or starts over, a lock_write waits for ever.            *)
NeverHeld == \A t \in Thread : pc[t] # "held"

(* README.md:58: "if the node it created is the smallest it has the lock".  *)
SmallestGetsTheLock ==
    \A t \in Thread :
        pc[t] = "list" /\ IsFirst(mine[t], nodes)
            ~> pc[t] = "held" \/ ProcOf[t] \in ended
=============================================================================
