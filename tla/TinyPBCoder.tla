---------------------------- MODULE TinyPBCoder -----------------------------
(***************************************************************************)
(* src/server/Rpc/coder/tinypb_coder.cc, byte by byte: a peer encodes        *)
(* messages into a stream, TCP hands over any part of it as a buffer, and    *)
(* decode looks for frames in that buffer.                                   *)
(*                                                                           *)
(* decode is one action per iteration of its while(1).  It reads lengths     *)
(* with four bytes from any place of the buffer: the byte behind the buffer  *)
(* is the NUL of c_str(), those behind it are whatever memory holds.         *)
(***************************************************************************)
EXTENDS MsgIdUtil, SequencesExt

CONSTANTS
    Request,      \* messages but for the id, which the sender draws:
                  \* sequences of bytes and a code
    ErrorReply,   \* the same for messages without an id
    SentId,       \* bound: ids a message is sent with
    SlackByte,    \* bytes memory may hold behind the buffer
    MaxFrames     \* bound: frames in the stream

PB_START == 2
PB_END == 3
IntSize == 4

Byte == 0..255
Text == Seq(1..255)        \* what a C string can hold
MaxInt == 2147483647

(* The arrays of cc:84, 97 and 120; a NUL ends what they hold.                *)
IdArray == 100
TextArray == 512

(* Ids, method names and error texts fit the arrays, and frames their length. *)
ASSUME CodecAssumption ==
    /\ SlackByte \subseteq Byte
    /\ g_msg_id_length < IdArray
    /\ \A p \in Request \cup ErrorReply :
         /\ p.method_name \in Text /\ Len(p.method_name) < TextArray
         /\ p.err_info \in Text /\ Len(p.err_info) < TextArray
         /\ p.err_code \in Nat /\ p.err_code <= MaxInt
         /\ p.pb_data \in Seq(Byte) /\ Len(p.pb_data) <= MaxInt - 26 - IdArray - 2 * TextArray

VARIABLES
    sent,          \* the messages of the stream, encoded one after the other
    first, last,   \* the part of the stream the buffer holds
    buffer, slack,
    start_index, end_index, out_messages,   \* locals of decode
    pc             \* "idle", "decode", "done", or "aborted": decode has thrown,
                   \* or has done what C++ leaves undefined

codecVars == <<sent, first, last, buffer, slack, start_index, end_index,
               out_messages, pc>>
vars == <<idVars, codecVars>>

-----------------------------------------------------------------------------
(* encode                                                                    *)

(* htonl                                                                     *)
Int32(n) == <<n \div 2^24, (n \div 2^16) % 256, (n \div 2^8) % 256, n % 256>>

Counted(bytes) == Int32(Len(bytes)) \o bytes

(* Mutant: the length leaves out the error text.                             *)
PkLen_NoErrInfo(m) ==
    26 + Len(m.msg_id) + Len(m.method_name) + Len(m.pb_data)

(* cc:145                                                                    *)
PkLen(m) ==
    26 + Len(m.msg_id) + Len(m.method_name) + Len(m.err_info) + Len(m.pb_data)

(* cc:142-144: an empty id is replaced, in the message itself.               *)
WithId(m) ==
    IF m.msg_id = <<>> THEN [m EXCEPT !.msg_id = [i \in 1..9 |-> 48 + i]] ELSE m

(* cc:146-198; the check sum is always 1.                                    *)
encodeTinyPB(m) ==
    <<PB_START>> \o Int32(PkLen(m)) \o Counted(m.msg_id) \o Counted(m.method_name)
      \o Int32(m.err_code) \o Counted(m.err_info) \o m.pb_data \o Int32(1)
      \o <<PB_END>>

(* cc:10-30                                                                  *)
encode(messages) ==
    FlattenSeq([k \in DOMAIN messages |-> encodeTinyPB(messages[k])])

-----------------------------------------------------------------------------
(* What decode reads.  Indices count from 0, as in the code.                 *)

Size == Len(buffer)

(* The bytes from index 0; tmp[-1], the last byte of a length, is no PB_END. *)
Memory == buffer \o <<0, slack, slack, slack>>

At == [k \in 0..Size-1 |-> Memory[k + 1]]

(* std::string of n bytes from k, and of the C string there.                 *)
Bytes(k, n) == SubSeq(Memory, k + 1, k + n)
CString(k, n) ==
    LET zeros == {x \in 1..n : Memory[k + x] = 0}
    IN  Bytes(k, IF zeros = {} THEN n ELSE Min(zeros) - 1)

Signed(byte) == IF byte < 128 THEN byte ELSE byte - 256

(* getInt32FromNetByte                                                       *)
Int32At == [k \in 0..Size-1 |->
    Signed(Memory[k + 1]) * 2^24 + Memory[k + 2] * 2^16 + Memory[k + 3] * 2^8 + Memory[k + 4]]

(* cc:49                                                                     *)
EndOf(i) == i + Int32At[i + 1] - 1

(* cc:44-58                                                                  *)
LooksLikeFrame(i) ==
    /\ At[i] = PB_START
    /\ i + 1 < Size
    /\ EndOf(i) \in 0..Size-1
    /\ At[EndOf(i)] = PB_END

(* The places of a frame's lengths, cc:74, 82-88, 96-101, 111, 119-127.      *)
IdLenAt(i)   == i + 1 + IntSize
NameLenAt(i) == IdLenAt(i) + IntSize + Int32At[IdLenAt(i)]
ErrCodeAt(i) == NameLenAt(i) + IntSize + Int32At[NameLenAt(i)]
InfoLenAt(i) == ErrCodeAt(i) + IntSize
DataAt(i)    == InfoLenAt(i) + IntSize + Int32At[InfoLenAt(i)]

(* Mutant: the check sum counts as data.                                     *)
DataLen_WithCheckSum(i) == EndOf(i) - DataAt(i)

(* cc:125: what is left when head, lengths, check sum and end are taken off. *)
DataLen(i) == EndOf(i) - DataAt(i) - IntSize

(* Mutant: a frame without a method name is one more malformed frame.        *)
WellFormed_NamedOnly(i) ==
    /\ IdLenAt(i) < EndOf(i)   /\ NameLenAt(i) < EndOf(i)
    /\ ErrCodeAt(i) < EndOf(i) /\ InfoLenAt(i) < EndOf(i)
    /\ Int32At[NameLenAt(i)] > 0

(* cc:75, 89, 102, 112                                                       *)
WellFormed(i) ==
    /\ IdLenAt(i) < EndOf(i)   /\ NameLenAt(i) < EndOf(i)
    /\ ErrCodeAt(i) < EndOf(i) /\ InfoLenAt(i) < EndOf(i)

(* cc:47-53: the length behind a start byte is negative, or leads past the   *)
(* largest int, and tmp[j] lies outside the buffer.                          *)
Astray(i) == At[i] = PB_START /\ i + 1 < Size /\ EndOf(i) \notin -1..MaxInt

(* cc:85, 98, 121: a length the array does not hold.                         *)
Overrun(i) ==
    /\ IdLenAt(i) < EndOf(i)
    /\ \/ Int32At[IdLenAt(i)] \notin 0..IdArray-1
       \/ /\ NameLenAt(i) < EndOf(i)
          /\ \/ Int32At[NameLenAt(i)] \notin 0..TextArray-1
             \/ InfoLenAt(i) < EndOf(i) /\ Int32At[InfoLenAt(i)] \notin 0..TextArray-1

MessageAt(i) ==
    [msg_id      |-> CString(IdLenAt(i) + IntSize, Int32At[IdLenAt(i)]),
     method_name |-> CString(NameLenAt(i) + IntSize, Int32At[NameLenAt(i)]),
     err_code    |-> Int32At[ErrCodeAt(i)],
     err_info    |-> CString(InfoLenAt(i) + IntSize, Int32At[InfoLenAt(i)]),
     pb_data     |-> Bytes(DataAt(i), DataLen(i))]

-----------------------------------------------------------------------------
Init ==
    /\ IdInit
    /\ sent = <<>>
    /\ first = 1 /\ last = 0
    /\ buffer = <<>>
    /\ slack = 0
    /\ start_index = 0 /\ end_index = -1
    /\ out_messages = <<>>
    /\ pc = "idle"

(* The sender draws an id for its next message.                              *)
DrawId == pc = "idle" /\ sent = <<>> /\ GenMsgID /\ UNCHANGED codecVars

Digits(id) == [i \in DOMAIN id |-> 48 + id[i]]

Message(p, id) ==
    [msg_id |-> id, method_name |-> p.method_name, err_code |-> p.err_code,
     err_info |-> p.err_info, pb_data |-> p.pb_data]

(* Requests carry the id drawn, the answers of some error paths none.        *)
Outgoing ==
    {Message(p, Digits(msg_id)) : p \in Request} \cup {Message(p, <<>>) : p \in ErrorReply}

Send(m) ==
    /\ pc = "idle" /\ Len(sent) < MaxFrames
    /\ msg_id \in SentId
    /\ sent' = Append(sent, WithId(m))
    /\ UNCHANGED <<idVars, first, last, buffer, slack, start_index, end_index,
                   out_messages, pc>>

(* A buffer full of the stream, and decode is called, cc:34-37.              *)
Receive ==
    /\ pc = "idle" /\ sent # <<>>
    /\ LET stream == encode(sent)
       IN  \E f \in 1..Len(stream) : \E l \in f..Len(stream) :
             first' = f /\ last' = l /\ buffer' = SubSeq(stream, f, l)
    /\ slack' \in SlackByte
    /\ pc' = "decode"
    /\ UNCHANGED <<idVars, sent, start_index, end_index, out_messages>>

(* cc:43, from where the last frame ended.                                   *)
Candidates == {i \in start_index..Size-1 : LooksLikeFrame(i)}

(* cc:53 has read outside the buffer, in front of index n.                   *)
AstrayBefore(n) == \E k \in start_index..n-1 : Astray(k)

(* cc:64-67                                                                  *)
Finish ==
    /\ pc = "decode" /\ Candidates = {}
    /\ pc' = IF AstrayBefore(Size) THEN "aborted" ELSE "done"
    /\ UNCHANGED <<idVars, sent, first, last, buffer, slack, start_index, end_index,
                   out_messages>>

(* Reads and copies without bounds, and the string of cc:128 with a negative *)
(* length, which throws.                                                     *)
Aborts(i) == AstrayBefore(i) \/ Overrun(i) \/ (WellFormed(i) /\ DataLen(i) < 0)

(* The `continue` of cc:78, 92, 105 and 115, which skips cc:135.             *)
Skip ==
    /\ pc = "decode" /\ Candidates # {}
    /\ LET i == Min(Candidates)
       IN  ~WellFormed(i) /\ ~Aborts(i) /\ start_index' = i /\ end_index' = EndOf(i)
    /\ UNCHANGED <<idVars, sent, first, last, buffer, slack, out_messages, pc>>

(* Mutant: the next scan starts one byte late.                               *)
Advance_Late(i) == start_index' = EndOf(i) + 2 /\ end_index' = EndOf(i)

(* cc:135                                                                    *)
Advance(i) == start_index' = EndOf(i) + 1 /\ end_index' = EndOf(i)

(* cc:70-135                                                                 *)
Take ==
    /\ pc = "decode" /\ Candidates # {}
    /\ LET i == Min(Candidates)
       IN  IF Aborts(i)
             THEN pc' = "aborted" /\ UNCHANGED <<start_index, end_index, out_messages>>
             ELSE /\ WellFormed(i)
                  /\ Advance(i)
                  /\ out_messages' = Append(out_messages, MessageAt(i))
                  /\ UNCHANGED pc
    /\ UNCHANGED <<idVars, sent, first, last, buffer, slack>>

DecodeStep == Finish \/ Skip \/ Take

Next == DrawId \/ (\E m \in Outgoing : Send(m)) \/ Receive \/ DecodeStep

Spec == Init /\ [][Next]_vars

(* decode does not block.                                                    *)
FairSpec == Spec /\ WF_vars(DecodeStep)
-----------------------------------------------------------------------------
(* Properties                                                                *)

Readable ==
    [msg_id : Text, method_name : Text, err_code : Int, err_info : Text, pb_data : Seq(Byte)]

Messages ==
    {m \in Readable : /\ Len(m.msg_id) < IdArray /\ Len(m.method_name) < TextArray
                      /\ Len(m.err_info) < TextArray /\ m.err_code \in 0..MaxInt
                      /\ PkLen(m) <= MaxInt}

TypeOK ==
    /\ pc \in {"idle", "decode", "done", "aborted"}
    /\ sent \in Seq(Messages)
    /\ buffer \in Seq(Byte) /\ slack \in Byte
    /\ start_index \in Nat /\ start_index <= Size
    /\ end_index \in Int /\ end_index < Size
    /\ out_messages \in Seq(Readable)

(* The byte of the stream that ends frame k.                                 *)
FrameEnd(k) == Len(encode(SubSeq(sent, 1, k)))

(* The frames that lie in the buffer from their first byte to their last.    *)
Whole == {k \in DOMAIN sent : first <= FrameEnd(k - 1) + 1 /\ FrameEnd(k) <= last}

(* Indices of the buffer that lie in a frame TCP has cut.                    *)
CutPart ==
    LET whole == UNION {FrameEnd(k - 1) + 1 .. FrameEnd(k) : k \in Whole}
    IN  {i \in 0..Size-1 : first + i \notin whole}

(* A piece of a cut frame holds a start byte, be it the frame's own or one of *)
(* its payload, behind which a length is read (cc:47) that leads out of the   *)
(* buffer or to an end byte in it.                                            *)
Misled == \E i \in CutPart : Astray(i) \/ LooksLikeFrame(i)

(* Wherever TCP cuts the stream, decode (cc:33-137) returns the messages     *)
(* whose frames arrived whole, as they were sent and in order, and takes     *)
(* nothing else for a message, unless it is misled by the bytes of a frame   *)
(* that did not arrive whole.  Those of whole frames, whatever they are, and *)
(* the places where the buffer is cut never do it.                           *)
WholeFramesDecoded ==
    \/ /\ pc = "done" =>
            out_messages = IF Whole = {} THEN <<>>
                           ELSE SubSeq(sent, Min(Whole), Max(Whole))
       /\ pc # "aborted"
    \/ Misled

(* Frames that begin the buffer are decoded (cc:33-137) into the messages    *)
(* they were made of (cc:10-30, 140-209), whatever bytes those hold and      *)
(* whatever follows, a piece that makes decode abort included.  If nothing   *)
(* follows, nothing else is decoded, and decode does not abort.              *)
FramesInFrontDecoded ==
    \A a \in DOMAIN sent : \A b \in a..Len(sent) :
        LET ms == SubSeq(sent, a, b)
        IN  /\ IsPrefix(encode(ms), buffer) /\ pc \in {"done", "aborted"}
                 => IsPrefix(ms, out_messages)
            /\ buffer = encode(ms) /\ pc # "idle"
                 => pc # "aborted" /\ (pc = "done" => out_messages = ms)

(* decode returns (cc:64-66), if it is not misled so.                        *)
DecodeEndsUnlessMisled == pc = "decode" ~> pc # "decode" \/ Misled

(* cc:39 and cc:65, "find PB_START, get the length of the whole packet, then *)
(* the end" until "decode end, read all buffer data": decode returns.        *)
DecodeEnds == pc = "decode" ~> pc # "decode"
=============================================================================
