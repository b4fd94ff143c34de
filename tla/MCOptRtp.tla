------------------------------- MODULE MCOptRtp -------------------------------
(***************************************************************************)
(* Instances of OptRtp for TLC.                                            *)
(***************************************************************************)
EXTENDS OptRtp

\* A message without NUL bytes: strlen sees all of it.
PlainText == [i \in 0..MsgLen |-> MsgLen - i]
=============================================================================
