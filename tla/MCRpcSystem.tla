---------------------------- MODULE MCRpcSystem -----------------------------
(***************************************************************************)
(* Two servers, one of which is started twice, and a client.  Both provide  *)
(* A, s2 provides B too.  The client calls A twice, then B.                 *)
(***************************************************************************)
EXTENDS RpcSystem

CONSTANTS s1, s2, c1

A == <<"A">>
B == <<"B">>

MCServer == {s1, s2}
MCPath == {<<A>>, <<A, "m">>, <<B>>, <<B, "m">>}
MCProvides == s1 :> <<A>> @@ s2 :> <<A, B>>
MCMethods == A :> <<"m">> @@ B :> <<"m">>
MCCtorIp == [s \in MCServer |-> "lo"]
MCCtorPort == s1 :> 5000 @@ s2 :> 0
MCport == s1 :> 5000 @@ s2 :> 5001
MCMaxRuns == s1 :> 2 @@ s2 :> 1
MCScript == c1 :> <<[service |-> A, method |-> "m"], [service |-> A, method |-> "m"], [service |-> B, method |-> "m"]>>
=============================================================================
