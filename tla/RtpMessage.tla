------------------------------ MODULE RtpMessage ------------------------------
(***************************************************************************)
(* How sender.c cuts the message into DATA frames: send_msg copies at most *)
(* DATASIZE bytes, data2frame measures them with strlen and puts a header  *)
(* in front.  Bytes are not modelled one by one: a payload is the range of *)
(* the message it was copied from.                                         *)
(***************************************************************************)
EXTENDS RtpNetwork

CONSTANTS
  MsgLen,         \* the argument len of send_msg
  DataSize,       \* DATASIZE
  TextLen         \* TextLen[i]: bytes from offset i of the message to the next NUL

ASSUME MessageAssumption ==
  /\ MsgLen \in Nat
  /\ DataSize \in Nat \ {0}
  /\ TextLen \in [0..MsgLen -> Nat]

\* Mutant: the last, short frame is not counted.
Bug_EndSeqnum == MsgLen \div DataSize

\* end_seqnum of sender.c: the number send_msg expects the last ACK to carry.
EndSeqnum == MsgLen \div DataSize + 1

Smaller(m, n) == IF m <= n THEN m ELSE n

\* Mutant: a short last chunk is taken for a full one.
Bug_RestAfter(rest) == rest - DataSize

\* What is left of restlen once the next chunk has been copied out.
RestAfter(rest) == IF rest >= DataSize THEN rest - DataSize ELSE 0

\* The frame data2frame builds when rest bytes are still to be copied.
Data2Frame(rest, seq) ==
  LET off == MsgLen - rest IN
  [type |-> "DATA", seq |-> seq, ok |-> TRUE,
   data |-> [off |-> off,
             len |-> Smaller(TextLen[off], Smaller(rest, DataSize))]]

(***************************************************************************)
(* The first transmission hands FRAMESIZE bytes to sendto, whatever the    *)
(* frame's length.  The receiver takes the CRC of every byte it received,  *)
(* so the checksum, taken over the header and length bytes, fits a full    *)
(* frame only.                                                             *)
(***************************************************************************)
FirstSending(frame) == [frame EXCEPT !.ok = (frame.data.len = DataSize)]

\* The frame that carries the k-th chunk (0, 1, ...) of the message: the
\* reference the properties compare with.
FrameOf(k) == Data2Frame(MsgLen - k * DataSize, k)
=============================================================================
