---------------------------- MODULE RtpRefinement -----------------------------
(***************************************************************************)
(* Rtp implements ReliableTransfer as long as no damaged packet deceives   *)
(* the programs: what the receiver copies is delivered, what mythread      *)
(* takes for acknowledged is confirmed, its return is the end.             *)
(***************************************************************************)
EXTENDS RtpSenderProofs

Message == [k \in 1..NumFrames |-> FrameOf(k - 1).data]

-----------------------------------------------------------------------------

\* What is delivered is always a part of the message, and when mythread has
\* returned it is all of it.
LEMMA DeliveredPart ==
  TypeInv /\ SenderInv =>
    rSf <= NumFrames /\ Sf <= rSf /\ (ackPc = "returned" => Sf = NumFrames)
<1> SUFFICES ASSUME TypeInv, SenderInv
             PROVE  rSf <= NumFrames /\ Sf <= rSf /\ (ackPc = "returned" => Sf = NumFrames)
  OBVIOUS
<1>t. rSf \in Nat /\ Sf \in Nat /\ rcbSeq \in Nat
  BY DEF TypeInv, TypeOK, SenderTypeOK, ReceiverTypeOK
<1>1. Sf <= rSf /\ rSf <= rcbSeq
  BY <1>t DEF SenderInv, WindowInv, Cached
<1>2. rcbSeq <= NumFrames
  BY <1>t, NumFramesBounds DEF SenderInv, EndingInv
<1>3. ackPc = "returned" => EndSeqnum <= Sf
  BY <1>t DEF SenderInv, EndingInv
<1> QED
  BY <1>t, <1>1, <1>2, <1>3, NumFramesBounds, EndSeqnumBounds

-----------------------------------------------------------------------------

LEMMA RefinesInit == Init => Transfer!Init
BY DEF Init, NetInit, SenderInit, RcbInit, WindowInit, ReceiverInit, Transfer!Init

\* Copying frames to buf delivers them; nothing else the receiver does is seen.
LEMMA RefinesReceiver ==
  ASSUME TypeInv, ReceiverInv, SenderInv, TypeInv', ReceiverInv', SenderInv', Receiver
  PROVE  [Transfer!Next]_Transfer!vars
<1>t. rSf \in Nat /\ rSf' \in Nat
  BY DEF TypeInv, TypeOK, ReceiverTypeOK
<1>u. Sf' = Sf /\ ackPc' = ackPc
  BY DEF Receiver, senderVars, threadVars
<1>1. rSf' >= rSf /\ rSf' <= NumFrames
  <2>1. (TypeInv /\ SenderInv =>
          rSf <= NumFrames /\ Sf <= rSf /\ (ackPc = "returned" => Sf = NumFrames))'
    BY DeliveredPart, PTL
  <2> QED
    BY <2>1, ReceiverForward
<1>2. /\ rBuf = [k \in 1..rSf |-> FrameOf(k - 1).data]
      /\ rBuf' = [k \in 1..rSf' |-> FrameOf(k - 1).data]
  BY DEF ReceiverInv, DeliveredPrefix
<1>3. CASE rSf' = rSf
  BY <1>2, <1>3, <1>u DEF Transfer!vars
<1>4. CASE rSf' > rSf
  <2>1. Len(rBuf) = rSf /\ Len(Message) = NumFrames
    BY <1>t, <1>2, NumFramesBounds DEF Message
  <2>2. rBuf' = SubSeq(Message, 1, rSf')
    BY <1>t, <1>1, <1>2, NumFramesBounds DEF Message
  <2>3. rSf' \in (Len(rBuf) + 1)..Len(Message)
    BY <1>t, <1>1, <1>4, <2>1, NumFramesBounds
  <2>4. Transfer!Deliver
    BY <1>u, <2>2, <2>3 DEF Transfer!Deliver, Message
  <2> QED
    BY <2>4 DEF Transfer!Next
<1> QED
  BY <1>1, <1>3, <1>4, <1>t

\* Sliding the window confirms; mythread's other steps are not seen.
LEMMA RefinesThread ==
  ASSUME TypeInv, ReceiverInv, SenderInv, Thread
  PROVE  [Transfer!Next]_Transfer!vars
<1>t. rSf \in Nat /\ Sf \in Nat /\ ackSeq \in Nat
  BY DEF TypeInv, TypeOK, SenderTypeOK, ReceiverTypeOK
<1>u. rBuf' = rBuf /\ rSf' = rSf
  BY DEF Thread, receiverVars
<1>1. CASE Slide
  <2>1. /\ ackPc = "slide" /\ Sf' = ackSeq
        /\ ackPc' \in {"select", "resend", "returned"}
    BY <1>1 DEF Slide
  <2>2. Sf < ackSeq /\ ackSeq <= rSf
    BY <2>1 DEF SenderInv, WindowInv
  <2>3. Len(rBuf) = rSf
    BY <1>t DEF ReceiverInv, DeliveredPrefix
  <2>4. Len(Message) = NumFrames
    BY NumFramesBounds DEF Message
  <2>5. ackPc' = "returned" => Sf' = NumFrames
    <3>1. ackPc' = "returned" => ackSeq >= EndSeqnum
      BY <1>1 DEF Slide
    <3> QED
      BY <1>t, <2>1, <2>2, <3>1, DeliveredPart, NumFramesBounds, EndSeqnumBounds
  <2>6. Transfer!Confirm
    <3>1. Sf' \in Sf..Len(rBuf)
      BY <1>t, <2>1, <2>2, <2>3
    <3>2. (ackPc' = "returned") \in {FALSE, Sf' = Len(Message)}
      BY <2>4, <2>5
    <3> QED
      BY <1>u, <2>1, <3>1, <3>2 DEF Transfer!Confirm, Message
  <2> QED
    BY <2>6 DEF Transfer!Next
<1>2. CASE ~Slide
  <2>1. Sf' = Sf /\ ackPc # "returned" /\ ackPc' # "returned"
    BY <1>2 DEF Thread, ThreadStep, Timeout, Resend, AckNew, AckOther
  <2> QED
    BY <1>u, <2>1 DEF Transfer!vars
<1> QED
  BY <1>1, <1>2

\* The main thread starts mythread and never ends it.
LEMMA RefinesMain ==
  ASSUME TypeInv, SenderInv, Main
  PROVE  UNCHANGED Transfer!vars
<1>1. Sf' = Sf /\ (ackPc' = ackPc \/ (Sn = 0 /\ ackPc' = "select"))
  BY DEF Main, MainStep, SendStart, ConnectTimeout, ConnectReceive, AbortEnd, CacheFrame,
         FrameCached, Transmit, Finish, FinishEmpty, EndTimeout, EndReceive, threadVars
<1>2. Sn = 0 => ackPc = "notCreated"
  BY DEF SenderInv, HandshakeInv
<1> QED
  BY <1>1, <1>2 DEF Main, receiverVars, Transfer!vars

\* Every behaviour of the two programs over a channel that loses, repeats, delays,
\* reorders and damages packets is a reliable transfer, as long as no damaged
\* packet deceives them: for every message, frame size and pair of windows.
THEOREM ImplementsTransfer == Spec /\ Undeceived => TransferSpec
<1>1. ASSUME TypeInv, ReceiverInv, SenderInv, TypeInv', ReceiverInv', SenderInv',
             [Next]_vars
      PROVE  [Transfer!Next]_Transfer!vars
  <2>1. CASE Main
    BY <1>1, <2>1, RefinesMain
  <2>2. CASE Thread
    BY <1>1, <2>2, RefinesThread
  <2>3. CASE Receiver
    BY <1>1, <2>3, RefinesReceiver
  <2>4. CASE Channel \/ UNCHANGED vars
    BY <2>4 DEF Channel, vars, senderVars, threadVars, receiverVars, Transfer!vars
  <2> QED
    BY <1>1, <2>1, <2>2, <2>3, <2>4 DEF Next
<1> QED
  BY <1>1, RefinesInit, TypeInvariant, ReceiverInvariant, SenderInvariant, PTL
  DEF Spec, TransferSpec, Transfer!Spec
=============================================================================
