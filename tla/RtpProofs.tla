------------------------------- MODULE RtpProofs ------------------------------
(***************************************************************************)
(* Theorems about Rtp, for every message, frame size, pair of windows and  *)
(* number of losses.                                                       *)
(***************************************************************************)
EXTENDS RtpInvariant, TLAPS

USE NetworkAssumption, MessageAssumption, SWindowAssumption, RWindowAssumption

-----------------------------------------------------------------------------
(* Arithmetic of slots and chunks.                                         *)

\* A slot number is an index of the cache it belongs to.
LEMMA SlotRange ==
  ASSUME NEW s \in Nat
  PROVE  Slot(s) \in 0..(SWindow - 1) /\ RSlot(s) \in 0..(RWindow - 1)
BY DEF Slot, RSlot

\* Two numbers less than w apart do not share a slot modulo w: the reason why a
\* window as large as the cache never overwrites a frame it still needs.
LEMMA ModDistinct ==
  ASSUME NEW w \in Nat \ {0}, NEW a \in Nat, NEW b \in Nat, a < b, b < a + w
  PROVE  a % w # b % w
<1> SUFFICES ASSUME a % w = b % w PROVE FALSE
  OBVIOUS
<1> DEFINE qa == a \div w
           qb == b \div w
<1>1. qa \in Int /\ qb \in Int /\ a % w \in Int
  OBVIOUS
<1>2. a = w * qa + (a % w) /\ b = w * qb + (b % w)
  OBVIOUS
<1> HIDE DEF qa, qb
<1>3. b - a = w * (qb - qa)
  BY <1>1, <1>2
<1>4. qb - qa > 0
  BY <1>1, <1>3
<1>5. qb - qa < 1
  BY <1>1, <1>3
<1> QED
  BY <1>1, <1>4, <1>5

\* A full round leads to the same slot.
LEMMA ModShift ==
  ASSUME NEW w \in Nat \ {0}, NEW a \in Nat
  PROVE  (a + w) % w = a % w
<1> DEFINE q == a \div w
           r == a % w
           s == (a + w) \div w
           t == (a + w) % w
<1>1. q \in Int /\ r \in 0..(w - 1) /\ a = w * q + r
  OBVIOUS
<1>2. s \in Int /\ t \in 0..(w - 1) /\ a + w = w * s + t
  OBVIOUS
<1> HIDE DEF q, r, s, t
<1>3. w * (s - q - 1) = r - t
  BY <1>1, <1>2
<1>4. s - q - 1 < 1 /\ s - q - 1 > -1
  BY <1>1, <1>2, <1>3
<1>5. s - q - 1 = 0
  BY <1>1, <1>2, <1>4
<1>6. t = r
  BY <1>1, <1>2, <1>3, <1>5
<1> QED
  BY <1>6 DEF r, t

\* Inside one window a slot determines the number.
LEMMA SlotsInjective ==
  ASSUME NEW w \in Nat \ {0}, NEW low \in Nat, NEW a \in Nat, NEW b \in Nat,
         low <= a, a < low + w, low <= b, b < low + w, a % w = b % w
  PROVE  a = b
<1>1. CASE a < b
  <2>1. b < a + w
    OBVIOUS
  <2> QED
    BY <1>1, <2>1, ModDistinct, Zenon
<1>2. CASE b < a
  <2>1. a < b + w
    OBVIOUS
  <2> QED
    BY <1>2, <2>1, ModDistinct, Zenon
<1> QED
  BY <1>1, <1>2

\* What data2frame builds is a DATA packet with a payload of the message.
LEMMA Data2FrameType ==
  ASSUME NEW rest \in 0..MsgLen, NEW seq \in Nat
  PROVE  Data2Frame(rest, seq) \in Packet
<1>1. MsgLen - rest \in 0..MsgLen
  OBVIOUS
<1>2. TextLen[MsgLen - rest] \in Nat
  BY <1>1
<1> QED
  BY <1>1, <1>2 DEF Data2Frame, Packet, PacketTypes, Payload, Smaller

-----------------------------------------------------------------------------
(* Type correctness.                                                       *)

\* TypeOK with the fact that keeps right a number: mythread slides forward.
TypeInv == TypeOK /\ (ackPc = "slide" => ackSeq >= Sf)

LEMMA ControlType ==
  ASSUME NEW type \in PacketTypes, NEW seq \in Nat
  PROVE  Control(type, seq) \in Packet
BY DEF Control, Packet, Payload, NoPayload

LEMMA TypeInit == Init => TypeInv
<1> SUFFICES ASSUME Init PROVE TypeInv
  OBVIOUS
<1>1. Control("START", 0) \in Packet
  BY ControlType DEF PacketTypes
<1> QED
  BY <1>1 DEF Init, NetInit, SenderInit, RcbInit, WindowInit, ReceiverInit, TypeInv, TypeOK, NetTypeOK,
     SenderTypeOK, ReceiverTypeOK, MainPcs, ThreadPcs, ReceiverPcs, EmptySlot, EmptyRSlot

LEMMA TypeMain == TypeInv /\ Main => TypeInv'
<1> SUFFICES ASSUME TypeInv, Main PROVE TypeInv'
  OBVIOUS
<1> USE DEF TypeInv, TypeOK, NetTypeOK, SenderTypeOK
<1>u. receiverVars' = receiverVars /\ ReceiverTypeOK'
  BY DEF Main, receiverVars, ReceiverTypeOK, rRight
<1>v. toSender' = toSender /\ lost' = lost /\ corrupted' = corrupted
  BY DEF Main
<1>c. Control("START", 0) \in Packet /\ Control("END", 0) \in Packet
      /\ Control("END", rcbSeq) \in Packet
  BY ControlType DEF PacketTypes
<1>1. CASE SendStart
  BY <1>1, <1>u, <1>v, <1>c DEF SendStart, SendToReceiver, MainPcs, threadVars
<1>2. CASE ConnectTimeout
  BY <1>2, <1>u, <1>v, <1>c DEF ConnectTimeout, GiveUp, SendToReceiver, MainPcs, threadVars
<1>3. CASE AbortEnd
  BY <1>3, <1>u, <1>v DEF AbortEnd, MainPcs, threadVars
<1>4. CASE CacheFrame
  <2>1. Data2Frame(restlen, rcbSeq) \in Packet
    BY Data2FrameType
  <2>2. frame' \in Packet /\ [frame' EXCEPT !.ok = FALSE] \in Packet
    BY <1>4, <2>1 DEF CacheFrame, Packet
  <2>3. cache' \in [0..(SWindow - 1) -> Packet]
    BY <1>4, <2>2 DEF CacheFrame
  <2>4. restlen' \in 0..MsgLen
    BY <1>4 DEF CacheFrame, RestAfter
  <2> QED
    BY <1>4, <1>u, <1>v, <2>2, <2>3, <2>4 DEF CacheFrame, MainPcs, threadVars
<1>5. CASE FrameCached
  <2>1. cache' \in [0..(SWindow - 1) -> Packet]
    BY <1>5 DEF FrameCached, Packet
  <2> QED
    BY <1>5, <1>u, <1>v, <2>1 DEF FrameCached, MainPcs, threadVars
<1>6. CASE Transmit
  <2>1. FirstSending(frame) \in Packet
    BY DEF FirstSending, Packet, Payload
  <2> QED
    BY <1>6, <1>u, <1>v, <2>1 DEF Transmit, SendToReceiver, MainPcs, ThreadPcs
<1>7. CASE Finish
  BY <1>7, <1>u, <1>v, <1>c DEF Finish, SendEnd, SendToReceiver, MainPcs, threadVars
<1>8. CASE FinishEmpty
  BY <1>8, <1>u, <1>v, <1>c DEF FinishEmpty, SendEnd, SendToReceiver, MainPcs, threadVars
<1>9. CASE EndTimeout
  BY <1>9, <1>u, <1>v DEF EndTimeout, MainPcs, threadVars
<1>10. ASSUME NEW p \in toSender, ConnectReceive(p)
       PROVE  TypeInv'
  BY <1>10, <1>u, <1>v, <1>c DEF ConnectReceive, GiveUp, SendToReceiver, MainPcs, threadVars
<1>11. ASSUME NEW p \in toSender, EndReceive(p)
       PROVE  TypeInv'
  BY <1>11, <1>u, <1>v DEF EndReceive, MainPcs, threadVars
<1> QED
  BY <1>1, <1>2, <1>3, <1>4, <1>5, <1>6, <1>7, <1>8, <1>9, <1>10, <1>11
  DEF Main, MainStep

LEMMA TypeThread == TypeInv /\ Thread => TypeInv'
<1> SUFFICES ASSUME TypeInv, Thread PROVE TypeInv'
  OBVIOUS
<1> USE DEF TypeInv, TypeOK, NetTypeOK, SenderTypeOK
<1>u. receiverVars' = receiverVars /\ ReceiverTypeOK'
  BY DEF Thread, receiverVars, ReceiverTypeOK
<1>v. toSender' = toSender /\ lost' = lost /\ corrupted' = corrupted
  BY DEF Thread
<1>1. CASE Timeout
  BY <1>1, <1>u, <1>v DEF Timeout, ThreadPcs, mainVars
<1>2. CASE Slide
  BY <1>2, <1>u, <1>v DEF Slide, ThreadPcs, mainVars
<1>3. CASE Resend
  <2>1. cache[Slot(Sf)] \in Packet
    BY SlotRange
  <2> QED
    BY <1>3, <1>u, <1>v, <2>1 DEF Resend, SendToReceiver, ThreadPcs, mainVars
<1>4. ASSUME NEW p \in toSender, AckNew(p)
      PROVE  TypeInv'
  <2>1. EmptySlot \in Packet
    BY ControlType DEF EmptySlot, PacketTypes
  <2>2. cache' \in [0..(SWindow - 1) -> Packet]
    BY <1>4, <2>1 DEF AckNew
  <2>3. p.seq \in Nat
    BY DEF Packet
  <2> QED
    BY <1>4, <1>u, <1>v, <2>2, <2>3 DEF AckNew, Advances, ThreadPcs, mainVars
<1>5. ASSUME NEW p \in toSender, AckOther(p)
      PROVE  TypeInv'
  BY <1>5, <1>u, <1>v DEF AckOther, ThreadPcs, mainVars
<1> QED
  BY <1>1, <1>2, <1>3, <1>4, <1>5 DEF Thread, ThreadStep

\* Copying a run of cached frames to buf keeps the types of both.
LEMMA CopiedTypes ==
  ASSUME TypeInv, NEW p \in toReceiver, NEW n \in 0..RWindow
  PROVE  /\ CacheDe(CacheAdd(p), n) \in [0..(RWindow - 1) -> Packet]
         /\ rBuf \o [i \in 1..n |-> CacheAdd(p)[RSlot(rSf + i - 1)].data] \in Seq(Payload)
<1> DEFINE slots == CacheAdd(p)
<1> USE DEF TypeInv, TypeOK, NetTypeOK, ReceiverTypeOK
<1>1. p \in Packet /\ rSf \in Nat
  OBVIOUS
<1>2. slots \in [0..(RWindow - 1) -> Packet]
  BY <1>1 DEF CacheAdd
<1>3. EmptyRSlot \in Packet
  BY ControlType DEF EmptyRSlot, PacketTypes
<1>4. CacheDe(slots, n) \in [0..(RWindow - 1) -> Packet]
  BY <1>2, <1>3 DEF CacheDe
<1>5. \A i \in 1..n : slots[RSlot(rSf + i - 1)].data \in Payload
  <2> SUFFICES ASSUME NEW i \in 1..n PROVE slots[RSlot(rSf + i - 1)].data \in Payload
    OBVIOUS
  <2>1. rSf + i - 1 \in Nat
    BY <1>1
  <2>2. slots[RSlot(rSf + i - 1)] \in Packet
    BY <2>1, <1>2, SlotRange
  <2> QED
    BY <2>2 DEF Packet
<1> HIDE DEF slots
<1>6. [i \in 1..n |-> slots[RSlot(rSf + i - 1)].data] \in Seq(Payload)
  BY <1>5
<1> QED
  BY <1>4, <1>6 DEF slots

LEMMA TypeReceiver == TypeInv /\ Receiver => TypeInv'
<1> SUFFICES ASSUME TypeInv, Receiver PROVE TypeInv'
  OBVIOUS
<1> USE DEF TypeInv, TypeOK, NetTypeOK, ReceiverTypeOK
<1>u. senderVars' = senderVars /\ toReceiver' = toReceiver /\ lost' = lost
      /\ corrupted' = corrupted
  BY DEF Receiver
<1>v. SenderTypeOK' /\ (ackPc' = "slide" => ackSeq' >= Sf')
  BY <1>u DEF SenderTypeOK, senderVars, mainVars, threadVars
<1>a. \A n \in Nat : Ack(n) \in Packet
  BY ControlType DEF Ack, PacketTypes
<1>1. CASE WriteFile
  BY <1>1, <1>u, <1>v DEF WriteFile, ReceiverPcs
<1>2. ASSUME NEW p \in toReceiver, Receive(p)
      PROVE  TypeInv'
  <2>0. p \in Packet /\ p.seq \in Nat /\ p.data.len \in Nat /\ p.data \in Payload
    BY DEF Packet, Payload
  <2>c. \A b \in Nat : Counted(b) \in Nat
    BY DEF Counted, Smaller
  <2>1. CASE Listen(p)
    BY <2>1, <2>0, <1>a, <1>u, <1>v DEF Listen, SendToSender, ReceiverPcs
  <2>2. CASE Drop(p)
    BY <2>2, <1>u, <1>v DEF Drop, receiverVars
  <2>3. CASE ReceiveEnd(p)
    BY <2>3, <2>0, <1>a, <1>u, <1>v DEF ReceiveEnd, SendToSender, ReceiverPcs
  <2>4. CASE ReceiveOutside(p)
    BY <2>4, <1>a, <1>u, <1>v DEF ReceiveOutside, SendToSender, receiverVars
  <2>5. CASE ReceiveEarly(p)
    <3>1. rCache' \in [0..(RWindow - 1) -> Packet]
      BY <2>5, <2>0 DEF ReceiveEarly, CacheAdd
    <3> QED
      BY <2>5, <2>0, <2>c, <3>1, <1>a, <1>u, <1>v
      DEF ReceiveEarly, Accepted, SendToSender, ReceiverPcs
  <2>6. CASE ReceiveNext(p)
    <3>1. PICK n \in 1..RWindow :
             /\ rBuf' = rBuf \o [i \in 1..n |-> CacheAdd(p)[RSlot(rSf + i - 1)].data]
             /\ rCache' = CacheDe(CacheAdd(p), n)
             /\ rSf' = rSf + n
             /\ rLeft' = IF rSf + n = endSeq THEN rLeft + n - 1 ELSE rLeft + n
             /\ Accepted(p, rSf + n)
      BY <2>6 DEF ReceiveNext
    <3>4. rCache' \in [0..(RWindow - 1) -> Packet] /\ rBuf' \in Seq(Payload)
      <4>1. n \in 0..RWindow
        OBVIOUS
      <4> QED
        BY <3>1, <4>1, CopiedTypes
    <3>8. rSf' \in Nat /\ rLeft' \in Nat
      BY <3>1
    <3>9. /\ countnum' \in Nat
          /\ rPc' \in ReceiverPcs
          /\ toSender' \subseteq Packet
      <4>1. rSf + n \in Nat /\ endSeq \in Nat /\ Accepted(p, rSf + n)
        BY <3>1
      <4>2. countnum' \in Nat
        BY <4>1, <2>0, <2>c DEF Accepted
      <4>3. rPc' \in ReceiverPcs
        BY <4>1 DEF Accepted, ReceiverPcs
      <4>4. Ack(rSf + n) \in Packet /\ Ack(endSeq) \in Packet
        BY <4>1, <1>a
      <4>5. toSender' \subseteq Packet
        BY <4>1, <4>4 DEF Accepted, SendToSender
      <4> QED
        BY <4>2, <4>3, <4>5
    <3> QED
      BY <2>6, <3>4, <3>8, <3>9, <1>u, <1>v DEF ReceiveNext
  <2> QED
    BY <1>2, <2>1, <2>2, <2>3, <2>4, <2>5, <2>6 DEF Receive
<1> QED
  BY <1>1, <1>2 DEF Receiver, ReceiverStep

LEMMA TypeChannel == TypeInv /\ Channel => TypeInv'
<1> SUFFICES ASSUME TypeInv, Channel PROVE TypeInv'
  OBVIOUS
<1> USE DEF TypeInv, TypeOK, NetTypeOK
<1>u. senderVars' = senderVars /\ receiverVars' = receiverVars
  BY DEF Channel
<1>v. SenderTypeOK' /\ ReceiverTypeOK' /\ (ackPc' = "slide" => ackSeq' >= Sf')
  BY <1>u DEF SenderTypeOK, ReceiverTypeOK, senderVars, mainVars, threadVars, receiverVars
<1>1. CASE Lose
  BY <1>1, <1>v DEF Lose
<1>2. CASE Corrupt
  <2>1. ASSUME NEW p \in Packet, NEW type \in PacketTypes, NEW seq \in CorruptSeqs
        PROVE  Damaged(p, type, seq) \in Packet
    BY DEF Damaged, Packet
  <2> QED
    BY <1>2, <1>v, <2>1 DEF Corrupt, Damaging
<1> QED
  BY <1>1, <1>2 DEF Channel

LEMMA TypeStutter == TypeInv /\ UNCHANGED vars => TypeInv'
BY DEF TypeInv, TypeOK, NetTypeOK, SenderTypeOK, ReceiverTypeOK, vars, netVars,
   senderVars, mainVars, threadVars, receiverVars

\* Every variable of the two programs and of the channel keeps its type, for any
\* damage the channel does: in particular the window borders stay numbers and
\* every slot index stays inside its cache.
THEOREM TypeInvariant == Spec => []TypeInv
<1>1. TypeInv /\ [Next]_vars => TypeInv'
  BY TypeMain, TypeThread, TypeReceiver, TypeChannel, TypeStutter DEF Next
<1> QED
  BY <1>1, TypeInit, PTL DEF Spec

THEOREM TypeCorrect == Spec => []TypeOK
<1>1. TypeInv => TypeOK
  BY DEF TypeInv
<1> QED
  BY <1>1, TypeInvariant, PTL
=============================================================================
