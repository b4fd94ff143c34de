--------------------------------- MODULE Rtp ----------------------------------
(***************************************************************************)
(* The programs sender and receiver over a UDP channel: go-back-N with a   *)
(* cumulative ACK and a receiver that keeps frames that come early.        *)
(***************************************************************************)
EXTENDS RtpSender, RtpReceiver

vars == <<netVars, senderVars, receiverVars>>

Init == NetInit /\ SenderInit /\ ReceiverInit

Main == MainStep /\ UNCHANGED <<receiverVars, toSender, lost, corrupted>>

Thread == ThreadStep /\ UNCHANGED <<receiverVars, toSender, lost, corrupted>>

Receiver == ReceiverStep /\ UNCHANGED <<senderVars, toReceiver, lost, corrupted>>

Channel == (Lose \/ Corrupt) /\ UNCHANGED <<senderVars, receiverVars>>

Next == Main \/ Thread \/ Receiver \/ Channel

Spec == Init /\ [][Next]_vars

(***************************************************************************)
(* Fairness.  Both threads of the sender are scheduled by the kernel and   *)
(* the select of mythread returns, by timeout if by nothing else, so their *)
(* own steps are weakly fair.  A packet the channel has not lost arrives:  *)
(* the steps that take an ACK that moves the window, a frame the receiver  *)
(* wants, or any other packet that must be answered, are strongly fair.    *)
(***************************************************************************)
MainWork ==
  \/ SendStart \/ AbortEnd \/ CacheFrame \/ FrameCached \/ Transmit \/ Finish
  \/ EndTimeout

Answers(p) == ReceiveEnd(p) \/ ReceiveOutside(p) \/ ReceiveNext(p)

SenderTurn(A) == A /\ UNCHANGED <<receiverVars, toSender, lost, corrupted>>

ReceiverTurn(A) == A /\ UNCHANGED <<senderVars, toReceiver, lost, corrupted>>

Fairness ==
  /\ WF_vars(SenderTurn(MainWork))
  /\ WF_vars(SenderTurn(Timeout \/ Resend \/ Slide))
  /\ SF_vars(SenderTurn(\E p \in toSender : AckNew(p)))
  /\ SF_vars(ReceiverTurn(\E p \in toReceiver : Answers(p)))
  /\ WF_vars(ReceiverTurn(WriteFile))

FairSpec == Spec /\ Fairness

-----------------------------------------------------------------------------

TypeOK == NetTypeOK /\ SenderTypeOK /\ ReceiverTypeOK

\* What is copied to buf is the message from its start, every chunk once and in
\* order, whatever the channel loses, repeats, reorders or damages.
DeliveredPrefix == rBuf = [k \in 1..rSf |-> FrameOf(k - 1).data]

\* No frame is lost inside the sender: as long as the receiver misses a frame
\* that was sent, the sender still holds that very frame and can send it again
\* (cache_de of mythread against cache_add of the main thread).
UndeliveredIsCached ==
  \A k \in rSf..(Sn - 1) : cache[Slot(k)] = FrameOf(k)

\* What mythread finds in the slot of Sf is frame Sf: cache_get looks at the
\* type of the slot only, and the slot may be about to be used again.
ResendsOldest ==
  ackPc = "resend" /\ CacheGet(Sf) => cache[Slot(Sf)].seq = Sf

\* "all ACK received, finish transmition" (sender.c:62): when mythread returns,
\* the receiver has the whole message.
FinishedMeansDelivered ==
  ackPc = "returned" => rSf * DataSize >= MsgLen

\* The main thread spins until the window opens, or waits for mythread to end.
MainWaits ==
  mainPc = "send" /\ (~WindowOpen \/ (restlen = 0 /\ ackPc # "returned"))

\* mythread spins until the slot of the oldest frame is filled.
ThreadWaits == ackPc = "resend" /\ ~CacheGet(Sf)

\* The two threads never wait for each other, one for room in the window or for
\* the other's end, the other for a frame in its slot.
NeverBothWait == ~(MainWaits /\ ThreadWaits)

\* END is not sent before all the frames it stands for have been delivered, so
\* the receiver never has to remember an END.
EndNeverEarly ==
  \A p \in toReceiver : p.type = "END" /\ p.ok => p.seq <= rSf

\* No frame is sent that a receiver with a window as large as the sender's would
\* have to refuse for being too far ahead.
WithinReceiverWindow ==
  rPc = "recv" => \A p \in toReceiver : p.type = "DATA" => p.seq <= rRight

\* Once connected, the sender gets its whole message acknowledged.
Completes == (mainPc = "send") ~> (ackPc = "returned")

\* When the message is acknowledged, mythread ends: the number it waits for is
\* the number of frames ("all ACK received, finish transmition", sender.c:62).
AllAckedFinishes ==
  (mainPc = "send" /\ restlen = 0 /\ Sf = Sn) ~> (ackPc = "returned")

\* The sender sends END once and takes any ACK for its answer, or none at all
\* ("end ack loss, close connection", rtp.c:113).  Whatever it takes, the receiver
\* ends, unless END itself was lost or damaged.
EndIsHeard ==
  mainPc \in {"endAcked", "endUnacked"} ~>
    (rPc \in {"written", "crashed"} \/ ~\E p \in toReceiver : p.type = "END" /\ p.ok)

\* A file without the whole message is written only when the connection has been
\* given up: END 0 is then taken for the end of an empty message (rtp.c:195).
WholeOrAbandoned ==
  rPc \in {"finish", "written"} =>
    rSf * DataSize >= MsgLen \/ mainPc \in {"abort", "noConnection"}

\* The file the receiver writes after a whole session is never shorter than the
\* message (countnum is counted apart from the bytes copied to buf).
FileNotShort ==
  rPc = "written" /\ endSeq > 0 => countnum >= Smaller(CountCap, MsgLen)

\* "reliable" (README.md:2): the file is exactly as long as the message sent.
FileHasMessageLength ==
  rPc = "written" /\ endSeq > 0 => countnum = MsgLen

-----------------------------------------------------------------------------
(* The promise of a reliable transfer, and how this system keeps it.       *)

NumFrames == (MsgLen + DataSize - 1) \div DataSize

Transfer == INSTANCE ReliableTransfer WITH
  Message <- [k \in 1..NumFrames |-> FrameOf(k - 1).data],
  delivered <- rBuf,
  confirmed <- Sf,
  finished <- (ackPc = "returned")

\* Every step of the two programs and of the channel is a step of a reliable
\* transfer, or changes nothing it can see: in-order delivery, confirmation
\* only of what is delivered, the sender ends only when all is confirmed.
TransferSpec == Transfer!Spec

Delivery == INSTANCE ReliableTransfer WITH
  Message <- [k \in 1..NumFrames |-> FrameOf(k - 1).data],
  delivered <- rBuf,
  confirmed <- 0,
  finished <- FALSE

\* The delivering half alone: what goes to buf grows chunk by chunk towards the
\* message, and never beyond its end.  It does not lean on the sender, which
\* believes damaged ACKs, and holds whatever the channel damages.
DeliverySpec == Delivery!Spec
=============================================================================
