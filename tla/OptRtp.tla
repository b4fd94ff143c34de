-------------------------------- MODULE OptRtp --------------------------------
(***************************************************************************)
(* The selective-repeat programs opt_sender and opt_receiver over the UDP  *)
(* channel.  The state is that of Rtp, and so are its initial values.      *)
(***************************************************************************)
EXTENDS RtpInvariant, OptSender, OptReceiver

OptMain == OptMainStep /\ UNCHANGED <<receiverVars, toSender, lost, corrupted>>

OptThread == OptThreadStep /\ UNCHANGED <<receiverVars, toSender, lost, corrupted>>

OptReceiverTurn ==
  OptReceiverStep /\ UNCHANGED <<senderVars, toReceiver, lost, corrupted>>

OptNext == OptMain \/ OptThread \/ OptReceiverTurn \/ Channel

OptSpec == Init /\ [][OptNext]_vars

(***************************************************************************)
(* Fairness, as in Rtp: both threads of the sender are scheduled, and what *)
(* the channel has not lost arrives.                                       *)
(***************************************************************************)
OptAnswers(p) == OptReceiveOld(p) \/ OptReceiveEarly(p) \/ OptReceiveNext(p)

OptFairness ==
  /\ WF_vars(SenderTurn(MainWork))
  /\ WF_vars(SenderTurn(OptTimeout \/ OptScan \/ OptSlide \/ OptResend))
  /\ SF_vars(SenderTurn(\E p \in toSender : OptAckNew(p)))
  /\ SF_vars(ReceiverTurn(\E p \in toReceiver : OptAnswers(p)))

OptFairSpec == OptSpec /\ OptFairness

-----------------------------------------------------------------------------

\* An ACK stands for one frame and makes the sender forget it for good: whatever
\* the receiver has acknowledged it holds, until the file is written.  The number
\* 0 is also that of the answer to START, which holds nothing.
AckedIsHeld ==
  rPc = "recv" =>
    \A p \in toSender : p.type = "ACK" /\ p.ok /\ p.seq > 0 => Held(p.seq)

\* Nothing is acknowledged before the connection is there.
UnheardInv == rPc = "listen" => toSender = {}

\* A slot of the receiver's cache holds a frame or is as cache_de leaves it.
SlotKinds ==
  \A i \in 0..(RWindow - 1) : rCache[i].type = "DATA" \/ rCache[i] = EmptyRSlot

\* Inductive with TypeOK, whatever the channel damages.
OptReceiverInv == ReceiverInv /\ SlotKinds /\ UnheardInv /\ AckedIsHeld

\* OptResend sends what it finds in a slot, and never finds an END there.
NoEndCached == \A i \in 0..(SWindow - 1) : cache[i].type # "END"

\* Inductive with TypeOK and OptReceiverInv.
OptFileInv == FileInv /\ NoEndCached

\* A frame the receiver has already is accepted and counted once more.
OptRecounts ==
  \E p \in toReceiver : (OptReceiveEarly(p) \/ OptReceiveNext(p)) /\ Held(p.seq)

\* A behaviour in which that never happens.
OptCountedOnce == [][~OptRecounts]_vars

\* No frame is lost between the two windows: a frame from the left border on that
\* was sent is in the sender's cache, to be sent again, or held by the receiver.
\* Frames before the border are lost when the scan has passed a slot that was not
\* filled yet, or the ACK of START is taken for frame 0's.
UnackedIsCached ==
  ackPc # "slide" =>
    \A k \in Sf..(Sn - 1) : cache[Slot(k)] = FrameOf(k) \/ Held(k)

\* The two threads never wait for each other, the main thread for room in the
\* window or for the other's end, mythread for a frame in the slot of Sf: where a
\* slide ends, the slot is filled or the main thread is still to fill it.
OptNeverBothWait == ~(MainWaits /\ ackPc = "resend" /\ ~OptCacheGet(Sf))

\* mythread frees a slot for a damaged ACK, whose checksum it does not look at.
\* (rtp_listen answers every packet with 0 here: a damaged one does no harm.)
OptDeceived == \E p \in toSender : ~p.ok /\ OptAckNew(p)

\* A behaviour in which that never happens, whatever else is damaged.
OptUndeceived == [][~OptDeceived]_vars

\* The connection is made, and END has not been sent.
Connected == mainPc \in {"send", "caching", "transmit"}
Open == Connected \/ mainPc \in {"connect", "awaitAck"}

\* mythread runs only while the receiver receives.
OptHandshakeInv ==
  /\ BeforeConnection => rcbSeq = 0 /\ ackPc = "notCreated"
  /\ ackPc = "notCreated" <=> Sn = 0
  /\ rcbSeq = IF mainPc \in {"caching", "transmit"} THEN Sn + 1 ELSE Sn
  /\ ~Open => ackPc \in {"notCreated", "returned"}
  /\ rPc \in {"listen", "refused"} => toSender = {}
  /\ Connected => rPc = "recv"
  /\ Open => /\ ~endFlag /\ rPc \in {"listen", "refused", "recv"}
             /\ \A p \in toReceiver : p.ok => p.type # "END"

\* Nobody names a frame that has not been built.
OptNumbersInv ==
  /\ right = Sf + SWindow - 1
  /\ rcbSeq <= Sf + SWindow
  /\ \A p \in toReceiver : p.type = "DATA" /\ p.ok => p.seq < rcbSeq
  /\ \A i \in 0..(SWindow - 1) :
       cache[i].type # "END" /\ (cache[i].type = "DATA" => cache[i].seq < rcbSeq)
  /\ \A p \in toSender : Trusted(p) => p.ok
  /\ Open => \A p \in toSender : p.type = "ACK" /\ p.ok => p.seq = 0 \/ p.seq < rcbSeq

\* Frame 0 that the ACK of START has wiped out, until the scan has passed it.
Passed(k) ==
  k = 0 /\ ackPc = "slide" /\ ackSeq = 0 /\ cache[Slot(0)].data.len = 0

OptCacheInv ==
  /\ mainPc \in {"caching", "transmit"} => frame = FrameOf(rcbSeq - 1)
  /\ \A k \in Oldest..(Cached - 1) :
       cache[Slot(k)] = FrameOf(k) \/ Held(k) \/ Passed(k)

\* Inductive with TypeOK and OptReceiverInv in undeceived behaviours.
OptSenderInv == OptHandshakeInv /\ OptNumbersInv /\ OptCacheInv

(***************************************************************************)
(* What holds as long as the scan passes no frame that was not             *)
(* acknowledged.                                                           *)
(***************************************************************************)

\* The slot of frame ackSeq is empty, but nobody has acknowledged it: the main
\* thread has not filled it yet, or the ACK of START, which has the number of
\* frame 0, has emptied it before that frame arrived.
OptSkips ==
  /\ OptScan
  /\ ackSeq < NumFrames
  /\ ackSeq >= Cached \/ (ackSeq = 0 /\ ~Held(0))

\* A behaviour in which that never happens.
OptUnskipping == [][~OptSkips]_vars

\* No chunk begins with a NUL byte: strlen gives each of them a length.
NoEmptyChunk == \A k \in 0..(NumFrames - 1) : FrameOf(k).data.len > 0

\* What the scan has passed is held, and what the receiver wants is not in its cache
\* already: so what the scan has passed is delivered.  Inductive with TypeOK,
\* OptReceiverInv, OptSenderInv and NumbersInv in undeceived and unskipping
\* behaviours when NoEmptyChunk.
OptConfirmedInv ==
  /\ \A k \in 0..(Oldest - 1) : k < NumFrames => Held(k)
  /\ ~endFlag => ~(rCache[RSlot(rSf)].type = "DATA" /\ rCache[RSlot(rSf)].seq = rSf)
  /\ ackPc = "returned" => Sf >= EndSeqnum /\ rSf >= NumFrames

\* A reliable transfer.  The scan runs over empty slots behind the last frame: those
\* confirm nothing.
OptTransfer == INSTANCE ReliableTransfer WITH
  Message <- [k \in 1..NumFrames |-> FrameOf(k - 1).data],
  delivered <- rBuf,
  confirmed <- Smaller(Sf, NumFrames),
  finished <- (ackPc = "returned")

OptTransferSpec == OptTransfer!Spec

\* Once the receiver has the whole message the sender finds out, however many
\* ACKs were lost: frames sent again are acknowledged again.
DeliveredFinishes ==
  (rSf = NumFrames /\ rPc = "recv") ~> (ackPc = "returned")

\* "all ACK received, finish transmition" (opt_sender.c:65): when mythread ends,
\* the receiver has the whole message.
OptFinishedMeansDelivered ==
  ackPc = "returned" => rSf * DataSize >= MsgLen
=============================================================================
