------------------------------ MODULE RtpSender -------------------------------
(***************************************************************************)
(* The sender program: sender.c with the functions of rtp.c it calls.  Its *)
(* main thread connects, cuts the message into frames, caches and sends    *)
(* them, joins the other thread and sends END.  The other thread, mythread,*)
(* takes the ACKs, slides the window and retransmits.  They share window   *)
(* and cache and use no lock.                                              *)
(***************************************************************************)
EXTENDS RtpMessage

CONSTANT SWindow          \* window_size on the sender's command line

ASSUME SWindowAssumption == SWindow \in Nat \ {0}

VARIABLES
  mainPc,     \* where the main thread is
  restlen,    \* bytes of the message not yet copied
  rcbSeq,     \* rcb->seq_num of sender.c: number of the next frame
  frame,      \* the static buffer of data2frame
  Sn,         \* window->Sn
  ackPc,      \* where mythread is
  ackSeq,     \* the ACK number mythread is sliding to
  Sf,         \* window->Sf: the oldest frame not acknowledged
  right,      \* window->right
  cache       \* the frames that may have to be sent again

mainVars == <<mainPc, restlen, rcbSeq, frame, Sn>>
threadVars == <<ackPc, ackSeq, Sf, right>>
senderVars == <<mainVars, threadVars, cache>>

MainPcs == {"connect", "awaitAck", "abort", "noConnection",
            "send", "caching", "transmit", "crashed",
            "awaitEndAck", "endAcked", "endUnacked"}

ThreadPcs == {"notCreated", "select", "slide", "resend", "returned"}

\* A slot that calloc or cache_de has zeroed: its type byte reads 0.
EmptySlot == Control("START", 0)

Slot(s) == s % SWindow

\* cache_get finds a frame in slot s, whatever number that frame has.
CacheGet(s) == cache[Slot(s)].type = "DATA"

-----------------------------------------------------------------------------

\* sender(): not connected yet, the message still to be cut.
RcbInit ==
  /\ mainPc = "connect"
  /\ restlen = MsgLen
  /\ rcbSeq = 0
  /\ frame = EmptySlot

\* send_msg: the window and the cache as calloc leaves them.
WindowInit ==
  /\ Sn = 0
  /\ ackPc = "notCreated"
  /\ ackSeq = 0
  /\ Sf = 0
  /\ right = SWindow - 1
  /\ cache = [i \in 0..(SWindow - 1) |-> EmptySlot]

SenderInit == RcbInit /\ WindowInit

-----------------------------------------------------------------------------
(* rtp_connect: START is sent once; then one select and one recvfrom.      *)

SendStart ==
  /\ mainPc = "connect"
  /\ mainPc' = "awaitAck"
  /\ SendToReceiver({Control("START", 0)})
  /\ UNCHANGED <<restlen, rcbSeq, frame, Sn, threadVars, cache>>

\* Mutant: send_end(0), and the sender goes on as if it were connected.
Bug_GiveUp ==
  /\ mainPc' = "send"
  /\ SendToReceiver({Control("END", 0)})

\* The select timed out, or the ACK is damaged: send_end(0), connection given up.
GiveUp ==
  /\ mainPc' = "abort"
  /\ SendToReceiver({Control("END", 0)})

ConnectTimeout ==
  /\ mainPc = "awaitAck"
  /\ GiveUp
  /\ UNCHANGED <<restlen, rcbSeq, frame, Sn, threadVars, cache>>

ConnectReceive(p) ==
  /\ mainPc = "awaitAck"
  /\ \/ /\ p.type = "ACK" /\ p.ok
        /\ mainPc' = "send"
        /\ UNCHANGED toReceiver
     \/ /\ p.type = "ACK" /\ ~p.ok
        /\ GiveUp
     \/ /\ p.type # "ACK"
        /\ mainPc' = "noConnection"
        /\ UNCHANGED toReceiver
  /\ UNCHANGED <<restlen, rcbSeq, frame, Sn, threadVars, cache>>

\* The wait inside send_end(0) is over: a packet came, or the time ran out.
AbortEnd ==
  /\ mainPc = "abort"
  /\ mainPc' = "noConnection"
  /\ UNCHANGED <<restlen, rcbSeq, frame, Sn, threadVars, cache, toReceiver>>

-----------------------------------------------------------------------------
(* send_msg, the main thread.  The window test reads right while mythread  *)
(* may be about to change it.                                              *)

\* Mutant: off by one at the right border.
Bug_WindowOpen == Sn <= right + 1

WindowOpen == Sn <= right

\* data2frame, then cache_add starts its memcpy: the type byte of the frame
\* can be seen in the slot before the rest of it has been written.
CacheFrame ==
  /\ mainPc = "send" /\ WindowOpen /\ restlen > 0
  /\ frame' = Data2Frame(restlen, rcbSeq)
  /\ cache' = [cache EXCEPT ![Slot(rcbSeq)] = [frame' EXCEPT !.ok = FALSE]]
  /\ restlen' = RestAfter(restlen)
  /\ rcbSeq' = rcbSeq + 1
  /\ mainPc' = "caching"
  /\ UNCHANGED <<Sn, threadVars, toReceiver>>

\* The memcpy of cache_add is complete.
FrameCached ==
  /\ mainPc = "caching"
  /\ cache' = [cache EXCEPT ![Slot(rcbSeq - 1)] = frame]
  /\ mainPc' = "transmit"
  /\ UNCHANGED <<restlen, rcbSeq, frame, Sn, threadVars, toReceiver>>

\* rtp_sendto of FRAMESIZE bytes of the frame just built; mythread is created
\* after the first one.
Transmit ==
  /\ mainPc = "transmit"
  /\ SendToReceiver({FirstSending(frame)})
  /\ ackPc' = IF Sn = 0 THEN "select" ELSE ackPc
  /\ Sn' = Sn + 1
  /\ mainPc' = "send"
  /\ UNCHANGED <<restlen, rcbSeq, frame, ackSeq, Sf, right, cache>>

SendEnd ==
  /\ mainPc' = "awaitEndAck"
  /\ SendToReceiver({Control("END", rcbSeq)})

\* Mutant: mythread is not joined before END goes out.
Bug_Finish ==
  /\ mainPc = "send" /\ WindowOpen /\ restlen = 0
  /\ ackPc # "notCreated"
  /\ SendEnd
  /\ UNCHANGED <<restlen, rcbSeq, frame, Sn, threadVars, cache>>

\* Everything is copied: join mythread, then send END, once.
Finish ==
  /\ mainPc = "send" /\ WindowOpen /\ restlen = 0
  /\ ackPc = "returned"
  /\ SendEnd
  /\ UNCHANGED <<restlen, rcbSeq, frame, Sn, threadVars, cache>>

\* An empty message: no thread was created and tid is read uninitialised.
\* The join fails and END goes out, or the process dies.
FinishEmpty ==
  /\ mainPc = "send" /\ restlen = 0
  /\ ackPc = "notCreated"
  /\ \/ SendEnd
     \/ mainPc' = "crashed" /\ UNCHANGED toReceiver
  /\ UNCHANGED <<restlen, rcbSeq, frame, Sn, threadVars, cache>>

\* send_end: one select.  Any ACK with a good checksum counts as the END's.
EndTimeout ==
  /\ mainPc = "awaitEndAck"
  /\ mainPc' = "endUnacked"
  /\ UNCHANGED <<restlen, rcbSeq, frame, Sn, threadVars, cache, toReceiver>>

EndReceive(p) ==
  /\ mainPc = "awaitEndAck"
  /\ mainPc' = IF p.type = "ACK" /\ p.ok THEN "endAcked" ELSE "endUnacked"
  /\ UNCHANGED <<restlen, rcbSeq, frame, Sn, threadVars, cache, toReceiver>>

-----------------------------------------------------------------------------
(* mythread.                                                               *)

\* Mutant: the select of mythread waits without a time limit.
Bug_Timeout == FALSE

Timeout ==
  /\ ackPc = "select"
  /\ ackPc' = "resend"
  /\ UNCHANGED <<mainVars, ackSeq, Sf, right, cache, toReceiver>>

\* The test that lets an ACK slide the window; the checksum is not looked at.
Advances(p) == p.type = "ACK" /\ p.seq > Sf

\* Mutant: the frame the ACK asks for is deleted too.
Bug_FreedSlots(seq) == {Slot(i) : i \in Sf..seq}

\* The slots cache_de clears for an ACK with number seq.
FreedSlots(seq) == {Slot(i) : i \in Sf..(seq - 1)}

\* An ACK that moves the window: the frames it covers are deleted first.
AckNew(p) ==
  /\ ackPc = "select"
  /\ Advances(p)
  /\ cache' = [i \in DOMAIN cache |->
                 IF i \in FreedSlots(p.seq) THEN EmptySlot ELSE cache[i]]
  /\ ackSeq' = p.seq
  /\ ackPc' = "slide"
  /\ UNCHANGED <<mainVars, Sf, right, toReceiver>>

\* Any other packet makes mythread send the oldest frame again.
AckOther(p) ==
  /\ ackPc = "select"
  /\ ~Advances(p)
  /\ ackPc' = "resend"
  /\ UNCHANGED <<mainVars, ackSeq, Sf, right, cache, toReceiver>>

\* Mutant: the window is slid by the ACK's number, not by the difference.
Bug_Slide ==
  /\ ackPc = "slide"
  /\ Sf' = ackSeq
  /\ right' = right + ackSeq
  /\ ackPc' = IF ackSeq >= EndSeqnum THEN "returned" ELSE "select"
  /\ UNCHANGED <<mainVars, ackSeq, cache, toReceiver>>

\* Then Sf, left and right move; the main thread may use the new room.
Slide ==
  /\ ackPc = "slide"
  /\ Sf' = ackSeq
  /\ right' = right + (ackSeq - Sf)
  /\ ackPc' = IF ackSeq >= EndSeqnum THEN "returned" ELSE "select"
  /\ UNCHANGED <<mainVars, ackSeq, cache, toReceiver>>

\* Spin until the slot of Sf is filled, then send length + header bytes of it.
Resend ==
  /\ ackPc = "resend"
  /\ CacheGet(Sf)
  /\ SendToReceiver({cache[Slot(Sf)]})
  /\ ackPc' = "select"
  /\ UNCHANGED <<mainVars, ackSeq, Sf, right, cache>>

-----------------------------------------------------------------------------

MainStep ==
  \/ SendStart \/ ConnectTimeout \/ AbortEnd
  \/ CacheFrame \/ FrameCached \/ Transmit \/ Finish \/ FinishEmpty \/ EndTimeout
  \/ \E p \in toSender : ConnectReceive(p) \/ EndReceive(p)

ThreadStep ==
  \/ Timeout \/ Slide \/ Resend
  \/ \E p \in toSender : AckNew(p) \/ AckOther(p)

SenderTypeOK ==
  /\ mainPc \in MainPcs
  /\ ackPc \in ThreadPcs
  /\ restlen \in 0..MsgLen
  /\ rcbSeq \in Nat
  /\ frame \in Packet
  /\ Sn \in Nat
  /\ Sf \in Nat
  /\ right \in Nat
  /\ ackSeq \in Nat
  /\ cache \in [0..(SWindow - 1) -> Packet]
=============================================================================
