----------------------------- MODULE MsgIdUtil ------------------------------
(***************************************************************************)
(* src/common/msg_id_util.cc: the message ids one thread draws.  The state  *)
(* is the thread's two thread_local strings; the string of nines is kept as *)
(* its length, which is all there is to it.                                 *)
(***************************************************************************)
EXTENDS Integers, Sequences, FiniteSetsExt

CONSTANTS
    g_msg_id_length,   \* 20 in the code
    Nine,              \* the last digit, 9 in the code
    MaxRegenerations   \* bound: fresh ids drawn from /dev/urandom

ASSUME IdAssumption ==
    g_msg_id_length \in Nat \ {0} /\ Nine \in 0..9 /\ MaxRegenerations \in Nat

VARIABLES
    t_msg_id_no,       \* the digits of the last id, <<>> before the first
    t_max_msg_id_no,   \* how many nines t_max_msg_id_no holds
    msg_id,            \* what the last call returned
    outOfString        \* a call has written before the first digit

idVars == <<t_msg_id_no, t_max_msg_id_no, msg_id, outOfString>>

Index == 1..g_msg_id_length
Ids == [Index -> 0..Nine]

IdInit ==
    /\ t_msg_id_no = <<>>
    /\ t_max_msg_id_no = 0
    /\ msg_id = <<>>
    /\ outOfString = FALSE

(* Mutant: the id is not compared with the largest one.                     *)
Exhausted_FirstOnly == t_msg_id_no = <<>>

(* The test of cc:16.                                                       *)
Exhausted == t_msg_id_no = <<>> \/ t_msg_id_no = [i \in 1..t_max_msg_id_no |-> Nine]

(* cc:20-30: fresh digits.  The nines are appended to those of earlier      *)
(* rounds, so the comparison of cc:16 can succeed in the first round only.  *)
Regenerate ==
    /\ Exhausted
    /\ t_max_msg_id_no < MaxRegenerations * g_msg_id_length
    /\ t_msg_id_no' \in Ids
    /\ t_max_msg_id_no' = t_max_msg_id_no + g_msg_id_length
    /\ msg_id' = t_msg_id_no'
    /\ UNCHANGED outOfString

(* cc:21-24: /dev/urandom cannot be read.                                   *)
RandomFails ==
    /\ Exhausted
    /\ msg_id' = <<>>
    /\ UNCHANGED <<t_msg_id_no, t_max_msg_id_no, outOfString>>

NotNine == {i \in DOMAIN t_msg_id_no : t_msg_id_no[i] # Nine}

(* Mutant: the digits behind the one counted up keep their nines.           *)
Successor_NoReset(id, i) == [id EXCEPT ![i] = @ + 1]

(* cc:37-40                                                                 *)
Successor(id, i) ==
    [j \in Index |-> IF j < i THEN id[j] ELSE IF j = i THEN id[j] + 1 ELSE 0]

(* cc:32-41: the last digit that is no nine is counted up.                  *)
Increment ==
    /\ ~Exhausted /\ NotNine # {}
    /\ t_msg_id_no' = Successor(t_msg_id_no, Max(NotNine))
    /\ msg_id' = t_msg_id_no'
    /\ UNCHANGED <<t_max_msg_id_no, outOfString>>

(* cc:32-41 when every digit is a nine and cc:16 did not see it: the index, *)
(* a size_t, wraps below zero, the byte before the string is counted up and *)
(* every digit becomes zero.                                                *)
Wrap ==
    /\ ~Exhausted /\ NotNine = {}
    /\ t_msg_id_no' = [j \in Index |-> 0]
    /\ outOfString' = TRUE
    /\ msg_id' = t_msg_id_no'
    /\ UNCHANGED t_max_msg_id_no

GenMsgID == Regenerate \/ RandomFails \/ Increment \/ Wrap

-----------------------------------------------------------------------------
(* The number an id stands for.                                             *)
Value(id) ==
    LET upTo[i \in 0..Len(id)] ==
          IF i = 0 THEN 0 ELSE (Nine + 1) * upTo[i - 1] + id[i]
    IN  upTo[Len(id)]

(* Ids that follow one another without fresh digits in between count up by  *)
(* one, carries included, so none of a round is drawn twice; only behind    *)
(* the id of nothing but nines comes the one of zeros (cc:32-41).           *)
IdsCountUp ==
    [][t_max_msg_id_no' = t_max_msg_id_no
         => \/ t_msg_id_no' = t_msg_id_no
            \/ Value(t_msg_id_no') = Value(t_msg_id_no) + 1
            \/ NotNine = {} /\ Value(t_msg_id_no') = 0]_idVars

(* cc:16 against cc:28 and cc:33: the index can leave the string only after *)
(* fresh digits have been drawn a second time.                              *)
FirstRoundStaysInString == outOfString => t_max_msg_id_no > g_msg_id_length
=============================================================================
