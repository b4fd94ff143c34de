------------------------------- MODULE OptSender ------------------------------
(***************************************************************************)
(* The sender of the selective-repeat programs: opt_sender.c with the      *)
(* functions of opt_rtp.c it calls.  Its main thread is written like that  *)
(* of sender.c, statement by statement, so the actions of RtpSender are    *)
(* its actions.  What differs is mythread: an ACK stands for one frame,    *)
(* whose slot is freed, and the window then slides over the slots it finds *)
(* empty.  ackSeq is Sf + movesz of that loop.                             *)
(***************************************************************************)
EXTENDS RtpSender

\* rtp_connect.
OptConnect ==
  \/ SendStart \/ ConnectTimeout \/ AbortEnd
  \/ \E p \in toSender : ConnectReceive(p)

\* send_msg, up to the call of send_end.
OptSendMsg == CacheFrame \/ FrameCached \/ Transmit \/ Finish \/ FinishEmpty

\* send_end, called by send_msg.
OptAwaitEnd == EndTimeout \/ \E p \in toSender : EndReceive(p)

OptMainStep == OptConnect \/ OptSendMsg \/ OptAwaitEnd

-----------------------------------------------------------------------------
(* mythread.                                                               *)

\* cache_get looks at the length of the frame in slot s, not at its type.
OptCacheGet(s) == cache[Slot(s)].data.len > 0

OptTimeout == Timeout

\* The ACK of a frame that is not behind the window; again without a look at
\* the checksum.
OptAdvances(p) == p.type = "ACK" /\ p.seq >= Sf

\* Mutant: the slot of the next frame is freed.
Bug_OptFree(seq) == [cache EXCEPT ![Slot(seq + 1)] = EmptySlot]

\* cache_de of the one frame the ACK names.
OptFree(seq) == [cache EXCEPT ![Slot(seq)] = EmptySlot]

OptAckNew(p) ==
  /\ ackPc = "select"
  /\ OptAdvances(p)
  /\ cache' = OptFree(p.seq)
  /\ ackSeq' = Sf
  /\ ackPc' = "slide"
  /\ UNCHANGED <<mainVars, Sf, right, toReceiver>>

\* Any other packet makes mythread send the oldest frame again.
OptAckOther(p) ==
  /\ ackPc = "select"
  /\ ~OptAdvances(p)
  /\ ackPc' = "resend"
  /\ UNCHANGED <<mainVars, ackSeq, Sf, right, cache, toReceiver>>

\* Mutant: the loop stops one slot before the end of the window.
Bug_ScanOn == ackSeq < Sf + SWindow - 1 /\ ~OptCacheGet(ackSeq)

\* The loop goes on over an empty slot: of a frame that has been acknowledged,
\* or of one the main thread has not cached yet.
ScanOn == ackSeq < Sf + SWindow /\ ~OptCacheGet(ackSeq)

\* One turn of the loop; the main thread may fill slots between two of them.
OptScan ==
  /\ ackPc = "slide"
  /\ ScanOn
  /\ ackSeq' = ackSeq + 1
  /\ UNCHANGED <<mainVars, ackPc, Sf, right, cache, toReceiver>>

\* The loop is over: Sf, left and right move by movesz.
OptSlide ==
  /\ ackPc = "slide"
  /\ ~ScanOn
  /\ Slide

\* Spin until the slot of Sf is filled, then send length + header bytes of it.
OptResend ==
  /\ ackPc = "resend"
  /\ OptCacheGet(Sf)
  /\ SendToReceiver({cache[Slot(Sf)]})
  /\ ackPc' = "select"
  /\ UNCHANGED <<mainVars, ackSeq, Sf, right, cache>>

OptThreadStep ==
  \/ OptTimeout \/ OptScan \/ OptSlide \/ OptResend
  \/ \E p \in toSender : OptAckNew(p) \/ OptAckOther(p)
=============================================================================
