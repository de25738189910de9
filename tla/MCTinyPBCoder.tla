--------------------------- MODULE MCTinyPBCoder ----------------------------
(* Instances of TinyPBCoder for TLC: a request with the number 515 and a text *)
(* of one letter beyond ASCII, where an end, a start and a length of zero, and *)
(* a start and a negative length, can be read; and an answer with an error     *)
(* text that holds a start and an end, its lengths and code reading as such    *)
(* bytes too.                                                                  *)
EXTENDS TinyPBCoder

MCRequest ==
    {[method_name |-> <<97>>, err_code |-> 0, err_info |-> <<>>,
      pb_data |-> <<9, PB_END, PB_START, 0, 0, 0, 0, 0, 0, 18, PB_START, 195, 169>>]}
MCErrorReply ==
    {[method_name |-> <<>>, err_code |-> PB_START,
      err_info |-> <<PB_START, 99, PB_END>>, pb_data |-> <<>>]}
MCSentId == {<<0, 1>>}
=============================================================================
