----------------------------- MODULE RpcService -----------------------------
(***************************************************************************)
(* What a caller may rely on, whatever becomes of servers, connections and  *)
(* ZooKeeper: a handler runs at most once for a call, only after the call   *)
(* has begun, and never for a call that has failed.  For a call that has    *)
(* come back without failing it may have run, may yet run, or never run.    *)
(***************************************************************************)
EXTENDS Naturals

CONSTANT Call

VARIABLES
    state,      \* of a call: "idle", "calling", "failed" or "back"
    executions  \* of its handler

vars == <<state, executions>>

Init ==
    /\ state = [k \in Call |-> "idle"]
    /\ executions = [k \in Call |-> 0]

Begin(k) ==
    /\ state[k] = "idle"
    /\ \E to \in {"calling", "failed"} : state' = [state EXCEPT ![k] = to]
    /\ UNCHANGED executions

Fail(k) ==
    /\ state[k] = "calling" /\ executions[k] = 0
    /\ state' = [state EXCEPT ![k] = "failed"]
    /\ UNCHANGED executions

ComeBack(k) ==
    /\ state[k] = "calling"
    /\ state' = [state EXCEPT ![k] = "back"]
    /\ UNCHANGED executions

(* A worker may find several requests in one buffer.                        *)
Execute(K) ==
    /\ \A k \in K : state[k] \in {"calling", "back"} /\ executions[k] = 0
    /\ executions' = [k \in Call |-> IF k \in K THEN 1 ELSE executions[k]]
    /\ UNCHANGED state

Next ==
    \/ \E k \in Call : Begin(k) \/ Fail(k) \/ ComeBack(k)
    \/ \E K \in SUBSET Call : Execute(K)

Spec == Init /\ [][Next]_vars
=============================================================================
