------------------------------ MODULE Network -------------------------------
(***************************************************************************)
(* What RpcChannel and RPCServer share: per channel one TCP connection      *)
(* (external), with a stream each way.  A frame travels in two pieces, so   *)
(* whoever reads may find it cut.  What decode makes of a buffer is what    *)
(* TinyPBCoder shows of it: the frames that are in it whole, and on a piece *)
(* of a cut frame it may not return.  Assumption: no bytes inside a frame   *)
(* are a frame themselves (TinyPBCoder's Misled is what they can do, and a  *)
(* read out of bounds is one of the crashes of ServerDies and ClientDies).  *)
(***************************************************************************)
EXTENDS ZkClient

CONSTANT Script  \* per client, its calls: a sequence of [service, method]

Call == UNION {{<<c, i>> : i \in DOMAIN Script[c]} : c \in Client}

VARIABLES
    link,      \* per client, [to, up]: the run of a server its socket was
               \* connected to, and whether that end is still there
    c2s, s2c   \* pieces sent and not read, per client

netVars == <<link, c2s, s2c>>

NoLink == [to |-> <<Absent, 0>>, up |-> FALSE]

NetworkInit ==
    /\ link = [c \in Client |-> NoLink]
    /\ c2s = [c \in Client |-> <<>>]
    /\ s2c = [c \in Client |-> <<>>]

Frame(m) == << [msg |-> m, part |-> "head"], [msg |-> m, part |-> "tail"] >>

Frames(messages) == FlattenSeq([i \in DOMAIN messages |-> Frame(messages[i])])

(* The reader gets any part of the stream that comes first.                 *)
Reads(stream) == {SubSeq(stream, 1, n) : n \in 1..Len(stream)}
Rest(stream, chunk) == SubSeq(stream, Len(chunk) + 1, Len(stream))

(* Where the whole frames begin.                                            *)
Whole(chunk) ==
    {i \in 1..Len(chunk) - 1 : chunk[i].part = "head" /\ chunk[i + 1].part = "tail"}

decode(chunk) ==
    FlattenSeq([i \in DOMAIN chunk |->
                  IF i \in Whole(chunk) THEN <<chunk[i].msg>> ELSE <<>>])

(* TinyPBCoder's Misled needs a piece of a frame that is not whole.         *)
MayHang(chunk) == Len(chunk) # 2 * Cardinality(Whole(chunk))

LinksTo(x) == {c \in Client : link[c].to = x}

Broken(C) ==
    link' = [c \in Client |-> IF c \in C THEN [link[c] EXCEPT !.up = FALSE] ELSE link[c]]

(* The server's end of the connections of C is gone; what it has sent may   *)
(* still arrive at the client, or not.                                      *)
LinksDown(C) ==
    /\ Broken(C)
    /\ c2s' = [c \in Client |-> IF c \in C THEN <<>> ELSE c2s[c]]
    /\ \E lost \in SUBSET {c \in C : s2c[c] # <<>>} :
         s2c' = [c \in Client |-> IF c \in lost THEN <<>> ELSE s2c[c]]
=============================================================================
