-------------------------------- MODULE MCRtp ---------------------------------
(***************************************************************************)
(* Instances of Rtp for TLC.                                               *)
(***************************************************************************)
EXTENDS RtpBytes

\* A message without NUL bytes: strlen sees all of it.
PlainText == [i \in 0..MsgLen |-> MsgLen - i]

\* The text itself.
PlainBytes == [i \in 0..(MsgLen - 1) |-> 97 + i]

\* compute_checksum is the CRC-32, here for messages of two bytes.
ASSUME ChecksumIsCrc32 ==
  \A byte \in SUBSET (0..7), next \in {{}, {0, 6}, 0..7} :
    C!compute_checksum(<<byte, next>>) = C!Crc32(<<byte, next>>)
=============================================================================
