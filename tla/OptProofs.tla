------------------------------ MODULE OptProofs -------------------------------
(***************************************************************************)
(* Theorems about OptRtp, for every message, frame size, pair of windows   *)
(* and behaviour of the channel.  The main thread, the channel and most of *)
(* what the receiver does to its cache are those of Rtp, and so are the    *)
(* lemmas about them.                                                      *)
(***************************************************************************)
EXTENDS OptRtp, RtpFileProofs

USE NetworkAssumption, MessageAssumption, SWindowAssumption, RWindowAssumption

-----------------------------------------------------------------------------
(* Type correctness.                                                       *)

LEMMA OptMainIsMain == OptMain => Main
BY DEF OptMain, OptMainStep, OptConnect, OptSendMsg, OptAwaitEnd, Main, MainStep

LEMMA OptTypeThread == TypeInv /\ OptThread => TypeInv'
<1> SUFFICES ASSUME TypeInv, OptThread PROVE TypeInv'
  OBVIOUS
<1> USE DEF TypeInv, TypeOK, NetTypeOK, SenderTypeOK
<1>u. receiverVars' = receiverVars /\ ReceiverTypeOK'
  BY DEF OptThread, receiverVars, ReceiverTypeOK
<1>v. toSender' = toSender /\ lost' = lost /\ corrupted' = corrupted
  BY DEF OptThread
<1>1. CASE OptTimeout
  BY <1>1, <1>u, <1>v DEF OptTimeout, Timeout, ThreadPcs, mainVars
<1>2. CASE OptScan
  BY <1>2, <1>u, <1>v DEF OptScan, ThreadPcs, mainVars
<1>3. CASE OptSlide
  BY <1>3, <1>u, <1>v DEF OptSlide, Slide, ThreadPcs, mainVars
<1>4. CASE OptResend
  <2>1. cache[Slot(Sf)] \in Packet
    BY SlotRange
  <2> QED
    BY <1>4, <1>u, <1>v, <2>1 DEF OptResend, SendToReceiver, ThreadPcs, mainVars
<1>5. ASSUME NEW p \in toSender, OptAckNew(p)
      PROVE  TypeInv'
  <2>1. EmptySlot \in Packet
    BY ControlType DEF EmptySlot, PacketTypes
  <2>2. cache' \in [0..(SWindow - 1) -> Packet]
    BY <1>5, <2>1 DEF OptAckNew, OptFree
  <2> QED
    BY <1>5, <1>u, <1>v, <2>2 DEF OptAckNew, ThreadPcs, mainVars
<1>6. ASSUME NEW p \in toSender, OptAckOther(p)
      PROVE  TypeInv'
  BY <1>6, <1>u, <1>v DEF OptAckOther, ThreadPcs, mainVars
<1> QED
  BY <1>1, <1>2, <1>3, <1>4, <1>5, <1>6 DEF OptThread, OptThreadStep

\* The count, the ACKs and the end that follow an accepted frame.
LEMMA OptAcceptedTypes ==
  ASSUME TypeInv, NEW p \in toReceiver, NEW sf \in Nat, OptAccepted(p, sf)
  PROVE  countnum' \in Nat /\ rPc' \in ReceiverPcs /\ toSender' \subseteq Packet
<1> USE DEF TypeInv, TypeOK, NetTypeOK, ReceiverTypeOK
<1>1. p \in Packet /\ p.seq \in Nat /\ p.data.len \in Nat /\ countnum \in Nat
  BY DEF Packet, Payload
<1>2. countnum' \in Nat
  <2>1. countnum' = Counted(p.data.len)
    BY DEF OptAccepted
  <2>2. \A b \in Nat : Counted(b) \in Nat
    BY DEF Counted, Smaller
  <2> QED
    BY <1>1, <2>1, <2>2
<1>3. rPc' \in ReceiverPcs
  BY DEF OptAccepted, ReceiverPcs
<1>4. Ack(p.seq) \in Packet /\ Ack(endSeq) \in Packet
  <2>1. \A n \in Nat : Ack(n) \in Packet
    BY ControlType DEF Ack, PacketTypes
  <2> QED
    BY <1>1, <2>1
<1>5. toSender' \subseteq Packet
  BY <1>4 DEF OptAccepted, SendToSender
<1> QED
  BY <1>2, <1>3, <1>5

LEMMA OptTypeReceiver == TypeInv /\ OptReceiverTurn => TypeInv'
<1> SUFFICES ASSUME TypeInv, OptReceiverTurn PROVE TypeInv'
  OBVIOUS
<1> USE DEF TypeInv, TypeOK, NetTypeOK, ReceiverTypeOK
<1>u. senderVars' = senderVars /\ toReceiver' = toReceiver /\ lost' = lost
      /\ corrupted' = corrupted
  BY DEF OptReceiverTurn
<1>v. SenderTypeOK' /\ (ackPc' = "slide" => ackSeq' >= Sf')
  BY <1>u DEF SenderTypeOK, senderVars, mainVars, threadVars
<1>a. \A n \in Nat : Ack(n) \in Packet
  BY ControlType DEF Ack, PacketTypes
<1>1. CASE OptWriteFile
  BY <1>1, <1>u, <1>v DEF OptWriteFile, WriteFile, ReceiverPcs
<1>2. ASSUME NEW p \in toReceiver, OptReceive(p)
      PROVE  TypeInv'
  <2>0. p \in Packet /\ p.seq \in Nat
    BY DEF Packet
  <2>1. CASE OptListen(p)
    BY <2>1, <1>a, <1>u, <1>v DEF OptListen, SendToSender, ReceiverPcs
  <2>2. CASE Drop(p)
    BY <2>2, <1>u, <1>v DEF Drop, receiverVars
  <2>3. CASE ReceiveEnd(p)
    BY <2>3, <2>0, <1>a, <1>u, <1>v DEF ReceiveEnd, SendToSender, ReceiverPcs
  <2>4. CASE OptReceiveOld(p)
    BY <2>4, <2>0, <1>a, <1>u, <1>v DEF OptReceiveOld, SendToSender, receiverVars
  <2>5. CASE OptReceiveBeyond(p)
    BY <2>5, <1>u, <1>v DEF OptReceiveBeyond, receiverVars
  <2>6. CASE OptReceiveEarly(p)
    <3>1. rCache' \in [0..(RWindow - 1) -> Packet]
      BY <2>6, <2>0 DEF OptReceiveEarly, CacheAdd
    <3>2. countnum' \in Nat /\ rPc' \in ReceiverPcs /\ toSender' \subseteq Packet
      BY <2>6, OptAcceptedTypes DEF OptReceiveEarly
    <3> QED
      BY <2>6, <3>1, <3>2, <1>u, <1>v DEF OptReceiveEarly
  <2>7. CASE OptReceiveNext(p)
    <3>1. PICK n \in 0..RWindow :
             /\ rBuf' = rBuf \o [i \in 1..n |-> CacheAdd(p)[RSlot(rSf + i - 1)].data]
             /\ rCache' = CacheDe(CacheAdd(p), n)
             /\ rSf' = rSf + n
             /\ rLeft' = IF n > 0 /\ rSf + n = endSeq THEN rLeft + n - 1 ELSE rLeft + n
             /\ OptAccepted(p, rSf + n)
      BY <2>7 DEF OptReceiveNext, OptCacheDe
    <3>2. rCache' \in [0..(RWindow - 1) -> Packet] /\ rBuf' \in Seq(Payload)
      BY <3>1, CopiedTypes
    <3>3. rSf' \in Nat /\ rLeft' \in Nat
      BY <3>1
    <3>4. countnum' \in Nat /\ rPc' \in ReceiverPcs /\ toSender' \subseteq Packet
      <4>1. rSf + n \in Nat
        OBVIOUS
      <4> QED
        BY <3>1, <4>1, OptAcceptedTypes
    <3> QED
      BY <2>7, <3>2, <3>3, <3>4, <1>u, <1>v DEF OptReceiveNext
  <2> QED
    BY <1>2, <2>1, <2>2, <2>3, <2>4, <2>5, <2>6, <2>7 DEF OptReceive
<1> QED
  BY <1>1, <1>2 DEF OptReceiverTurn, OptReceiverStep

LEMMA OptTypeStep == TypeInv /\ [OptNext]_vars => TypeInv'
BY OptMainIsMain, TypeMain, OptTypeThread, OptTypeReceiver, TypeChannel, TypeStutter
DEF OptNext

LEMMA OptTypeInvariant == OptSpec => []TypeInv
BY TypeInit, OptTypeStep, PTL DEF OptSpec

\* Every variable of the selective-repeat programs keeps its type, whatever the
\* channel damages: the scan over empty slots never leaves the window, and every
\* slot index stays inside its cache.
THEOREM OptTypeCorrect == OptSpec => []TypeOK
<1>1. TypeInv => TypeOK
  BY DEF TypeInv
<1> QED
  BY <1>1, OptTypeInvariant, PTL

-----------------------------------------------------------------------------
(* The inductive invariant of the receiver.                                *)

LEMMA OptReceiverInvInit == Init => OptReceiverInv
<1> SUFFICES ASSUME Init PROVE OptReceiverInv
  OBVIOUS
<1>1. SlotKinds
  BY DEF Init, ReceiverInit, SlotKinds
<1>2. UnheardInv /\ AckedIsHeld
  BY DEF Init, NetInit, UnheardInv, AckedIsHeld
<1> QED
  BY <1>1, <1>2, ReceiverInvInit DEF OptReceiverInv

\* A step that leaves the receiver alone and adds no good packet to what it has
\* sent does not disturb what it has acknowledged.
LEMMA AcknowledgedKept ==
  ASSUME OptReceiverInv, UNCHANGED receiverVars,
         toSender = {} => toSender' = {},
         \A p \in toSender' : p \in toSender \/ ~p.ok
  PROVE  SlotKinds' /\ UnheardInv' /\ AckedIsHeld'
BY DEF OptReceiverInv, receiverVars, SlotKinds, UnheardInv, AckedIsHeld, Held

LEMMA OptReceiverInvMain == TypeInv /\ OptReceiverInv /\ OptMain => OptReceiverInv'
<1> SUFFICES ASSUME TypeInv, OptReceiverInv, OptMain PROVE OptReceiverInv'
  OBVIOUS
<1>1. ReceiverInv'
  BY OptMainIsMain, ReceiverInvMain DEF OptReceiverInv
<1>2. SlotKinds' /\ UnheardInv' /\ AckedIsHeld'
  BY AcknowledgedKept DEF OptMain
<1> QED
  BY <1>1, <1>2 DEF OptReceiverInv

LEMMA OptReceiverInvThread == TypeInv /\ OptReceiverInv /\ OptThread => OptReceiverInv'
<1> SUFFICES ASSUME TypeInv, OptReceiverInv, OptThread PROVE OptReceiverInv'
  OBVIOUS
<1>i. ReceiverInv
  BY DEF OptReceiverInv
<1>k. KeptInv' /\ EndInv' /\ DeliveredPrefix'
  BY <1>i, ReceiverSideKept DEF OptThread, receiverVars
<1>h. SlotKinds' /\ UnheardInv' /\ AckedIsHeld'
  BY AcknowledgedKept DEF OptThread
<1> SUFFICES CutInv' /\ FramesInv'
  BY <1>k, <1>h DEF OptReceiverInv, ReceiverInv
<1>t. cache \in [0..(SWindow - 1) -> Packet] /\ Sf \in Nat
  BY DEF TypeInv, TypeOK, SenderTypeOK
<1>r. rCache' = rCache
  BY DEF OptThread, receiverVars
<1>q. ASSUME UNCHANGED <<mainVars, cache, toReceiver>>
      PROVE  CutInv' /\ FramesInv'
  BY <1>i, <1>q, <1>r DEF mainVars, ReceiverInv, CutInv, FramesInv
<1>1. CASE OptTimeout \/ OptScan \/ OptSlide
  BY <1>1, <1>q DEF OptTimeout, Timeout, OptScan, OptSlide, Slide
<1>2. CASE OptResend
  <2>1. TrueFrame(cache[Slot(Sf)])
    BY <1>i, <1>t, SlotRange DEF ReceiverInv, FramesInv
  <2>2. toReceiver' = toReceiver \cup {cache[Slot(Sf)]}
    BY <1>2 DEF OptResend, SendToReceiver
  <2> QED
    BY <1>i, <1>2, <1>r, <2>1, <2>2, QuietStep DEF OptResend, mainVars
<1>3. ASSUME NEW p \in toSender, OptAckNew(p)
      PROVE  CutInv' /\ FramesInv'
  <2>1. TrueFrame(EmptySlot)
    BY ControlTrue DEF EmptySlot
  <2>2. \A i \in 0..(SWindow - 1) : TrueFrame(cache'[i])
    BY <1>i, <1>3, <1>t, <2>1 DEF OptAckNew, OptFree, ReceiverInv, FramesInv
  <2> QED
    BY <1>i, <1>3, <1>r, <2>2 DEF OptAckNew, mainVars, ReceiverInv, FramesInv, CutInv
<1>4. ASSUME NEW p \in toSender, OptAckOther(p)
      PROVE  CutInv' /\ FramesInv'
  BY <1>4, <1>q DEF OptAckOther
<1> QED
  BY <1>1, <1>2, <1>3, <1>4 DEF OptThread, OptThreadStep

LEMMA OptReceiverInvChannel == TypeInv /\ OptReceiverInv /\ Channel => OptReceiverInv'
<1> SUFFICES ASSUME TypeInv, OptReceiverInv, Channel PROVE OptReceiverInv'
  OBVIOUS
<1>1. ReceiverInv'
  BY ReceiverInvChannel DEF OptReceiverInv
<1>2. /\ toSender = {} => toSender' = {}
      /\ \A p \in toSender' : p \in toSender \/ ~p.ok
  <2>t. toSender \subseteq Packet
    BY DEF TypeInv, TypeOK, NetTypeOK
  <2>1. CASE Lose
    BY <2>1 DEF Lose
  <2>2. CASE Corrupt
    <3>1. \A p \in toSender, type \in PacketTypes, seq \in CorruptSeqs :
            Damaged(p, type, seq).ok = FALSE
      BY <2>t DEF Damaged, Packet
    <3> QED
      BY <2>2, <3>1 DEF Corrupt, Damaging
  <2> QED
    BY <2>1, <2>2 DEF Channel
<1>3. SlotKinds' /\ UnheardInv' /\ AckedIsHeld'
  BY <1>2, AcknowledgedKept DEF Channel
<1> QED
  BY <1>1, <1>3 DEF OptReceiverInv

LEMMA OptReceiverInvStutter == OptReceiverInv /\ UNCHANGED vars => OptReceiverInv'
<1> SUFFICES ASSUME OptReceiverInv, UNCHANGED vars PROVE OptReceiverInv'
  OBVIOUS
<1>1. ReceiverInv'
  BY ReceiverInvStutter DEF OptReceiverInv
<1>2. SlotKinds' /\ UnheardInv' /\ AckedIsHeld'
  BY AcknowledgedKept DEF vars, netVars
<1> QED
  BY <1>1, <1>2 DEF OptReceiverInv

-----------------------------------------------------------------------------
(* The receiver's own steps.                                               *)

\* What a step of the receiver has to show: the slots, and the new ACKs.
LEMMA Acknowledges ==
  ASSUME OptReceiverInv, ReceiverInv', SlotKinds', rPc' # "listen",
         toSender \subseteq Packet,
         rPc' = "recv" =>
           /\ rPc \in {"listen", "recv"}
           /\ \A k \in Nat : Held(k) => Held(k)'
           /\ \A q \in toSender' :
                q \notin toSender => q.seq = 0 \/ Held(q.seq)'
  PROVE  OptReceiverInv'
<1>1. UnheardInv'
  BY DEF UnheardInv
<1>2. AckedIsHeld'
  <2> SUFFICES ASSUME rPc' = "recv",
                      NEW q \in toSender', q.type = "ACK", q.ok, q.seq > 0
               PROVE  Held(q.seq)'
    BY DEF AckedIsHeld
  <2>1. CASE q \notin toSender
    <3>1. q.seq # 0
      OBVIOUS
    <3> QED
      BY <2>1, <3>1
  <2>2. CASE q \in toSender
    <3>1. q.seq \in Nat
      BY <2>2 DEF Packet
    <3>2. rPc = "recv"
      BY <2>2 DEF OptReceiverInv, UnheardInv
    <3>3. Held(q.seq)
      BY <2>2, <3>2 DEF OptReceiverInv, AckedIsHeld
    <3> QED
      BY <3>1, <3>3
  <2> QED
    BY <2>1, <2>2
<1> QED
  BY <1>1, <1>2 DEF OptReceiverInv

\* The new ACKs after an accepted frame, as long as the receiver goes on.
LEMMA OptAcceptedAcks ==
  ASSUME NEW p, NEW sf, OptAccepted(p, sf), rPc' = "recv"
  PROVE  \A q \in toSender' : q \notin toSender => q.seq = p.seq
BY DEF OptAccepted, SendToSender, Ack, Control

\* A slot keeps its kind when a frame is put into the cache.
LEMMA AddedKinds ==
  ASSUME TypeInv, SlotKinds, NEW p \in toReceiver, IsData(p),
         NEW i \in 0..(RWindow - 1)
  PROVE  CacheAdd(p)[i].type = "DATA" \/ CacheAdd(p)[i] = EmptyRSlot
<1>1. rCache \in [0..(RWindow - 1) -> Packet] /\ p.type = "DATA"
  BY DEF TypeInv, TypeOK, ReceiverTypeOK, IsData
<1>2. CacheAdd(p)[i] = p \/ CacheAdd(p)[i] = rCache[i]
  BY <1>1 DEF CacheAdd
<1> QED
  BY <1>1, <1>2 DEF SlotKinds

LEMMA OptReceiverInvEarly ==
  ASSUME TypeInv, OptReceiverInv, NEW p \in toReceiver, OptReceiveEarly(p),
         UNCHANGED <<restlen, rcbSeq, frame, cache, toReceiver>>
  PROVE  OptReceiverInv'
<1>i. ReceiverInv /\ SlotKinds
  BY DEF OptReceiverInv
<1>d. /\ IsData(p) /\ InWindow(p.seq) /\ rPc = "recv"
      /\ rCache' = CacheAdd(p) /\ UNCHANGED <<rSf, rLeft, rBuf, endFlag, endSeq>>
      /\ OptAccepted(p, rSf)
  BY DEF OptReceiveEarly, IsData
<1>1. ReceiverInv'
  BY <1>i, <1>d, ReceiverInvKept
<1>2. SlotKinds'
  BY <1>i, <1>d, AddedKinds DEF SlotKinds
<1>3. Held(p.seq)' /\ \A k \in Nat : Held(k) => Held(k)'
  BY <1>i, <1>d, HeldAfterKeeping
<1>4. ASSUME rPc' = "recv"
      PROVE  \A q \in toSender' : q \notin toSender => q.seq = 0 \/ Held(q.seq)'
  BY <1>3, <1>4, <1>d, OptAcceptedAcks
<1>5. rPc' # "listen"
  BY <1>d DEF OptAccepted
<1>6. toSender \subseteq Packet
  BY DEF TypeInv, TypeOK, NetTypeOK
<1> QED
  BY <1>1, <1>2, <1>3, <1>4, <1>5, <1>6, <1>d, Acknowledges

\* Copying no frame empties no slot.
LEMMA NothingCopied ==
  ASSUME TypeInv, NEW p
  PROVE  CacheDe(CacheAdd(p), 0) = CacheAdd(p)
<1>1. CacheAdd(p) = [i \in 0..(RWindow - 1) |-> CacheAdd(p)[i]]
      /\ DOMAIN CacheAdd(p) = 0..(RWindow - 1)
  BY DEF CacheAdd, TypeInv, TypeOK, ReceiverTypeOK
<1>2. {RSlot(rSf + j) : j \in 0..(0 - 1)} = {}
  OBVIOUS
<1> QED
  BY <1>1, <1>2 DEF CacheDe

\* The frame wanted has length 0: it stays in its slot.
LEMMA OptReceiverInvNone ==
  ASSUME TypeInv, OptReceiverInv, NEW p \in toReceiver, IsData(p),
         InWindow(p.seq), p.seq = rSf,
         rBuf' = rBuf \o [i \in 1..0 |-> CacheAdd(p)[RSlot(rSf + i - 1)].data],
         rCache' = CacheDe(CacheAdd(p), 0),
         rSf' = rSf, rLeft' = rLeft,
         OptAccepted(p, rSf),
         UNCHANGED <<restlen, rcbSeq, frame, cache, toReceiver, endFlag, endSeq>>
  PROVE  OptReceiverInv'
<1>i. ReceiverInv /\ SlotKinds
  BY DEF OptReceiverInv
<1>t. /\ rCache \in [0..(RWindow - 1) -> Packet] /\ rBuf \in Seq(Payload)
      /\ toSender \subseteq Packet
  BY DEF TypeInv, TypeOK, ReceiverTypeOK, NetTypeOK
<1>1. rCache' = CacheAdd(p)
  BY NothingCopied
<1>2. rBuf' = rBuf
  <2>1. [i \in 1..0 |-> CacheAdd(p)[RSlot(rSf + i - 1)].data] = <<>>
    OBVIOUS
  <2> QED
    BY <1>t, <2>1
<1>3. ReceiverInv'
  BY <1>i, <1>1, <1>2, ReceiverInvKept
<1>4. SlotKinds'
  BY <1>i, <1>1, AddedKinds DEF SlotKinds
<1>5. Held(p.seq)' /\ \A k \in Nat : Held(k) => Held(k)'
  BY <1>i, <1>1, HeldAfterKeeping
<1>6. ASSUME rPc' = "recv"
      PROVE  \A q \in toSender' : q \notin toSender => q.seq = 0 \/ Held(q.seq)'
  BY <1>5, <1>6, OptAcceptedAcks
<1>7. rPc = "recv" /\ rPc' # "listen"
  BY DEF OptAccepted, IsData
<1> QED
  BY <1>3, <1>4, <1>5, <1>6, <1>7, <1>t, Acknowledges

\* Where the copy loop goes on, so does the loop of rtp.c: a slot that holds bytes
\* holds a frame.
LEMMA OptRunGoesOn ==
  ASSUME TypeInv, OptReceiverInv, NEW p \in toReceiver, IsData(p),
         NEW n \in 1..RWindow,
         \A m \in 0..(n - 1) : ~OptCopyStops(CacheAdd(p), m)
  PROVE  \A m \in 1..(n - 1) : ~CopyStops(CacheAdd(p), m)
<1> SUFFICES ASSUME NEW m \in 1..(n - 1)
             PROVE  ~CopyStops(CacheAdd(p), m)
  OBVIOUS
<1>t. rSf \in Nat
  BY DEF TypeInv, TypeOK, ReceiverTypeOK
<1>1. ~OptCopyStops(CacheAdd(p), m)
  OBVIOUS
<1>2. rSf + m \in Nat /\ m > 0
  BY <1>t
<1>3. RSlot(rSf + m) \in 0..(RWindow - 1)
  BY <1>2, SlotRange
<1>4. CacheAdd(p)[RSlot(rSf + m)].data.len # 0
  BY <1>1 DEF OptCopyStops
<1>5. EmptyRSlot.data.len = 0
  BY DEF EmptyRSlot, Control, NoPayload
<1>6. CacheAdd(p)[RSlot(rSf + m)].type = "DATA"
  BY <1>3, <1>4, <1>5, AddedKinds DEF OptReceiverInv
<1> QED
  BY <1>1, <1>2, <1>6 DEF OptCopyStops, CopyStops

\* The frame wanted and the run of frames kept after it are copied to buf.
LEMMA OptReceiverInvSome ==
  ASSUME TypeInv, OptReceiverInv, NEW p \in toReceiver, IsData(p),
         InWindow(p.seq), p.seq = rSf,
         NEW n \in 1..RWindow,
         \A m \in 0..(n - 1) : ~OptCopyStops(CacheAdd(p), m),
         rBuf' = rBuf \o [i \in 1..n |-> CacheAdd(p)[RSlot(rSf + i - 1)].data],
         rCache' = CacheDe(CacheAdd(p), n),
         rSf' = rSf + n,
         rLeft' = IF rSf + n = endSeq THEN rLeft + n - 1 ELSE rLeft + n,
         OptAccepted(p, rSf + n),
         UNCHANGED <<restlen, rcbSeq, frame, cache, toReceiver, endFlag, endSeq>>
  PROVE  OptReceiverInv'
<1>i. ReceiverInv /\ SlotKinds
  BY DEF OptReceiverInv
<1>t. /\ rSf \in Nat /\ endSeq \in Nat /\ toSender \subseteq Packet
      /\ rCache \in [0..(RWindow - 1) -> Packet]
  BY DEF TypeInv, TypeOK, ReceiverTypeOK, NetTypeOK
<1>p. rPc = "recv" /\ rPc' # "listen"
  BY DEF OptAccepted, IsData
<1>1. \A m \in 1..(n - 1) : ~CopyStops(CacheAdd(p), m)
  BY OptRunGoesOn
<1>2. rPc' \in {"listen", "recv"} => ~(endFlag /\ rSf + n >= endSeq)
  BY DEF OptAccepted
<1>3. ReceiverInv'
  BY <1>i, <1>1, <1>2, ReceiverInvCopied
<1>4. SlotKinds'
  <2> SUFFICES ASSUME NEW i \in 0..(RWindow - 1)
               PROVE  rCache'[i].type = "DATA" \/ rCache'[i] = EmptyRSlot
    BY DEF SlotKinds
  <2>1. DOMAIN CacheAdd(p) = 0..(RWindow - 1)
    BY <1>t DEF CacheAdd
  <2>2. rCache'[i] = EmptyRSlot \/ rCache'[i] = CacheAdd(p)[i]
    BY <2>1 DEF CacheDe
  <2> QED
    BY <1>i, <2>2, AddedKinds
<1>5. \A k \in Nat : Held(k) => Held(k)'
  BY <1>i, HeldAfterCopying
<1>6. Held(p.seq)'
  BY <1>t DEF Held
<1>7. ASSUME rPc' = "recv"
      PROVE  \A q \in toSender' : q \notin toSender => q.seq = 0 \/ Held(q.seq)'
  BY <1>6, <1>7, OptAcceptedAcks
<1> QED
  BY <1>3, <1>4, <1>5, <1>7, <1>p, <1>t, Acknowledges

LEMMA OptReceiverInvNext ==
  ASSUME TypeInv, OptReceiverInv, NEW p \in toReceiver, OptReceiveNext(p),
         UNCHANGED <<restlen, rcbSeq, frame, cache, toReceiver>>
  PROVE  OptReceiverInv'
<1>t. rSf \in Nat /\ rLeft \in Nat
  BY DEF TypeInv, TypeOK, ReceiverTypeOK
<1>1. PICK n \in 0..RWindow :
         /\ \A m \in 0..(n - 1) : ~OptCopyStops(CacheAdd(p), m)
         /\ rBuf' = rBuf \o [i \in 1..n |-> CacheAdd(p)[RSlot(rSf + i - 1)].data]
         /\ rCache' = CacheDe(CacheAdd(p), n)
         /\ rSf' = rSf + n
         /\ rLeft' = IF n > 0 /\ rSf + n = endSeq THEN rLeft + n - 1 ELSE rLeft + n
         /\ OptAccepted(p, rSf + n)
  BY DEF OptReceiveNext, OptCacheDe
<1>2. IsData(p) /\ InWindow(p.seq) /\ p.seq = rSf /\ UNCHANGED <<endFlag, endSeq>>
  BY DEF OptReceiveNext
<1>3. CASE n = 0
  <2>1. /\ rBuf' = rBuf \o [i \in 1..0 |-> CacheAdd(p)[RSlot(rSf + i - 1)].data]
        /\ rCache' = CacheDe(CacheAdd(p), 0)
    BY <1>1, <1>3
  <2>2. rSf + n = rSf /\ rLeft' = rLeft /\ rSf' = rSf
    BY <1>1, <1>t, <1>3
  <2>3. OptAccepted(p, rSf)
    BY <1>1, <2>2
  <2> QED
    BY <1>2, <2>1, <2>2, <2>3, OptReceiverInvNone
<1>4. CASE n > 0
  <2>1. n \in 1..RWindow
    BY <1>4
  <2> QED
    BY <1>1, <1>2, <1>4, <2>1, OptReceiverInvSome
<1> QED
  BY <1>3, <1>4

LEMMA OptReceiverInvReceiver ==
  TypeInv /\ OptReceiverInv /\ OptReceiverTurn => OptReceiverInv'
<1> SUFFICES ASSUME TypeInv, OptReceiverInv, OptReceiverTurn PROVE OptReceiverInv'
  OBVIOUS
<1>u. UNCHANGED <<restlen, rcbSeq, frame, cache, toReceiver>>
  BY DEF OptReceiverTurn, senderVars, mainVars
<1>i. ReceiverInv /\ SlotKinds
  BY DEF OptReceiverInv
<1>t. toSender \subseteq Packet /\ toReceiver \subseteq Packet
  BY DEF TypeInv, TypeOK, NetTypeOK
<1>q. ASSUME UNCHANGED <<rSf, rLeft, rCache, rBuf>>, EndInv',
             rPc' \in {"listen", "recv"} => rPc \in {"listen", "recv"}
      PROVE  ReceiverInv' /\ SlotKinds' /\ \A k \in Nat : Held(k) => Held(k)'
  <2>1. FramesInv' /\ DeliveredPrefix' /\ CutInv'
    BY <1>u, <1>i, <1>q DEF ReceiverInv, FramesInv, DeliveredPrefix, CutInv
  <2>2. KeptInv'
    BY <1>i, <1>q DEF ReceiverInv, KeptInv
  <2>3. SlotKinds' /\ \A k \in Nat : Held(k) => Held(k)'
    BY <1>i, <1>q DEF SlotKinds, Held
  <2> QED
    BY <1>q, <2>1, <2>2, <2>3 DEF ReceiverInv
<1>e. UNCHANGED <<endFlag, endSeq>> => EndInv'
  BY <1>i DEF ReceiverInv, EndInv
<1>1. CASE OptWriteFile
  BY <1>1, <1>q, <1>e, <1>t, Acknowledges DEF OptWriteFile, WriteFile
<1>2. ASSUME NEW p \in toReceiver, OptReceive(p)
      PROVE  OptReceiverInv'
  <2>1. CASE OptListen(p)
    <3>1. ReceiverInv' /\ SlotKinds' /\ \A k \in Nat : Held(k) => Held(k)'
      BY <2>1, <1>q, <1>e DEF OptListen
    <3>2. \A q \in toSender' : q \notin toSender => q.seq = 0
      BY <2>1 DEF OptListen, SendToSender, Ack, Control
    <3>3. rPc = "listen" /\ rPc' # "listen"
      BY <2>1 DEF OptListen
    <3> QED
      BY <3>1, <3>2, <3>3, <1>t, Acknowledges
  <2>2. CASE Drop(p)
    BY <2>2, <1>q, <1>e, <1>t, Acknowledges DEF Drop, receiverVars
  <2>3. CASE ReceiveEnd(p)
    <3>1. EndInv' /\ UNCHANGED <<rSf, rLeft, rCache, rBuf>> /\ rPc = "recv"
      BY <2>3 DEF ReceiveEnd, EndInv
    <3>2. rPc' # "listen" /\ (rPc' = "recv" => toSender' = toSender)
      BY <2>3 DEF ReceiveEnd
    <3>3. ReceiverInv' /\ SlotKinds' /\ \A k \in Nat : Held(k) => Held(k)'
      BY <3>1, <1>q
    <3> QED
      BY <3>1, <3>2, <3>3, <1>t, Acknowledges
  <2>4. CASE OptReceiveOld(p)
    <3>1. rPc = "recv" /\ p.seq < rLeft /\ UNCHANGED receiverVars
      BY <2>4 DEF OptReceiveOld, IsData
    <3>2. Held(p.seq)'
      BY <3>1, <1>i DEF Held, receiverVars, ReceiverInv, KeptInv
    <3>3. \A q \in toSender' : q \notin toSender => q.seq = p.seq
      BY <2>4 DEF OptReceiveOld, SendToSender, Ack, Control
    <3>4. ReceiverInv' /\ SlotKinds' /\ \A k \in Nat : Held(k) => Held(k)'
      BY <3>1, <1>q, <1>e DEF receiverVars
    <3>5. rPc' = "recv"
      BY <3>1 DEF receiverVars
    <3> QED
      BY <3>1, <3>2, <3>3, <3>4, <3>5, <1>t, Acknowledges
  <2>5. CASE OptReceiveBeyond(p)
    BY <2>5, <1>q, <1>e, <1>t, Acknowledges DEF OptReceiveBeyond, receiverVars, IsData
  <2>6. CASE OptReceiveEarly(p)
    BY <2>6, <1>u, OptReceiverInvEarly
  <2>7. CASE OptReceiveNext(p)
    BY <2>7, <1>u, OptReceiverInvNext
  <2> QED
    BY <1>2, <2>1, <2>2, <2>3, <2>4, <2>5, <2>6, <2>7 DEF OptReceive
<1> QED
  BY <1>1, <1>2 DEF OptReceiverTurn, OptReceiverStep

THEOREM OptReceiverInvariant == OptSpec => []OptReceiverInv
<1>1. TypeInv /\ OptReceiverInv /\ [OptNext]_vars => OptReceiverInv'
  BY OptReceiverInvMain, OptReceiverInvThread, OptReceiverInvReceiver,
     OptReceiverInvChannel, OptReceiverInvStutter DEF OptNext
<1> QED
  BY <1>1, OptReceiverInvInit, OptTypeInvariant, PTL DEF OptSpec

\* The selective-repeat receiver hands over a prefix of the message, chunk by
\* chunk, for every message and pair of windows and whatever the channel loses,
\* repeats, reorders or damages: the faults of its sender lose frames, and never
\* put a wrong one into the file.
THEOREM OptInOrderDelivery == OptSpec => []DeliveredPrefix
<1>1. OptReceiverInv => DeliveredPrefix
  BY DEF OptReceiverInv, ReceiverInv
<1> QED
  BY <1>1, OptReceiverInvariant, PTL

\* Whatever the selective-repeat receiver has acknowledged by number it holds:
\* an ACK makes the sender forget the frame, so a frame acknowledged and not
\* held would be lost for good.
THEOREM OptHoldsAcknowledged == OptSpec => []AckedIsHeld
<1>1. OptReceiverInv => AckedIsHeld
  BY DEF OptReceiverInv
<1> QED
  BY <1>1, OptReceiverInvariant, PTL

-----------------------------------------------------------------------------
(* The two outcomes for the frame wanted.                                  *)

\* It stays in its slot, for it has no bytes.
LeftInSlot(p) ==
  /\ rCache' = CacheAdd(p) /\ rSf' = rSf
  /\ OptAccepted(p, rSf)

\* It is copied, and the run of cached frames after it.
CopiedToBuf(p, n) ==
  /\ \A m \in 1..(n - 1) : ~CopyStops(CacheAdd(p), m)
  /\ rCache' = CacheDe(CacheAdd(p), n) /\ rSf' = rSf + n
  /\ OptAccepted(p, rSf + n)

LEMMA OptNextOutcome ==
  ASSUME TypeInv, OptReceiverInv, NEW p \in toReceiver, OptReceiveNext(p)
  PROVE  /\ IsData(p) /\ InWindow(p.seq) /\ p.seq = rSf /\ UNCHANGED <<endSeq, endFlag>>
         /\ LeftInSlot(p) \/ \E n \in 1..RWindow : CopiedToBuf(p, n)
<1>t. rSf \in Nat
  BY DEF TypeInv, TypeOK, ReceiverTypeOK
<1>d. IsData(p) /\ InWindow(p.seq) /\ p.seq = rSf /\ UNCHANGED <<endSeq, endFlag>>
  BY DEF OptReceiveNext
<1>1. PICK n \in 0..RWindow :
         /\ \A m \in 0..(n - 1) : ~OptCopyStops(CacheAdd(p), m)
         /\ rCache' = CacheDe(CacheAdd(p), n)
         /\ rSf' = rSf + n
         /\ OptAccepted(p, rSf + n)
  BY DEF OptReceiveNext, OptCacheDe
<1>2. CASE n = 0
  <2>1. rCache' = CacheAdd(p)
    BY <1>1, <1>2, NothingCopied
  <2>2. rSf + n = rSf
    BY <1>t, <1>2
  <2> QED
    BY <1>1, <1>d, <2>1, <2>2 DEF LeftInSlot
<1>3. CASE n > 0
  <2>1. n \in 1..RWindow
    BY <1>3
  <2>2. \A m \in 1..(n - 1) : ~CopyStops(CacheAdd(p), m)
    BY <1>1, <1>d, <2>1, OptRunGoesOn
  <2> QED
    BY <1>1, <1>d, <2>1, <2>2 DEF CopiedToBuf
<1> QED
  BY <1>2, <1>3

-----------------------------------------------------------------------------
(* The delivering half of a reliable transfer.                             *)

LEMMA OptNumbersThread == TypeInv /\ NumbersInv /\ OptThread => NumbersInv'
<1> SUFFICES ASSUME TypeInv, NumbersInv, OptThread PROVE NumbersInv'
  OBVIOUS
<1>u. UNCHANGED receiverVars
  BY DEF OptThread
<1>t. cache \in [0..(SWindow - 1) -> Packet] /\ Sf \in Nat
  BY DEF TypeInv, TypeOK, SenderTypeOK
<1>1. CASE OptTimeout \/ OptScan \/ OptSlide
  BY <1>1, <1>u, NumbersSent DEF OptTimeout, Timeout, OptScan, OptSlide, Slide, mainVars
<1>2. CASE OptResend
  <2>1. Numbered(cache[Slot(Sf)])
    BY <1>t, SlotRange DEF NumbersInv
  <2> QED
    BY <1>2, <1>u, <2>1, NumbersSent DEF OptResend, SendToReceiver, mainVars
<1>3. ASSUME NEW p \in toSender, OptAckNew(p)
      PROVE  NumbersInv'
  <2>1. Numbered(EmptySlot)
    BY DEF Numbered, EmptySlot, Control
  <2> QED
    BY <1>3, <1>t, <1>u, <2>1, NumbersSent DEF OptAckNew, OptFree, mainVars
<1>4. ASSUME NEW p \in toSender, OptAckOther(p)
      PROVE  NumbersInv'
  BY <1>4, <1>u, NumbersSent DEF OptAckOther, mainVars
<1> QED
  BY <1>1, <1>2, <1>3, <1>4 DEF OptThread, OptThreadStep

\* The receiver's number never goes back, and stays within the message.
LEMMA OptNumbersReceiver ==
  TypeInv /\ OptReceiverInv /\ NumbersInv /\ OptReceiverTurn => NumbersInv' /\ rSf' >= rSf
<1> SUFFICES ASSUME TypeInv, OptReceiverInv, NumbersInv, OptReceiverTurn
             PROVE  NumbersInv' /\ rSf' >= rSf
  OBVIOUS
<1>i. ReceiverInv
  BY DEF OptReceiverInv
<1>t. rSf \in Nat
  BY DEF TypeInv, TypeOK, ReceiverTypeOK
<1>u. UNCHANGED <<frame, cache, toReceiver>>
  BY DEF OptReceiverTurn, senderVars, mainVars
<1>q. UNCHANGED <<rSf, rCache>> => NumbersInv' /\ rSf' >= rSf
  BY <1>t, <1>u DEF NumbersInv
<1>1. CASE OptWriteFile
  BY <1>1, <1>q DEF OptWriteFile, WriteFile
<1>2. ASSUME NEW p \in toReceiver, OptReceive(p)
      PROVE  NumbersInv' /\ rSf' >= rSf
  <2>1. CASE \/ OptListen(p) \/ Drop(p) \/ ReceiveEnd(p)
             \/ OptReceiveOld(p) \/ OptReceiveBeyond(p)
    BY <2>1, <1>q
    DEF OptListen, Drop, ReceiveEnd, OptReceiveOld, OptReceiveBeyond, receiverVars
  <2>2. CASE OptReceiveEarly(p)
    BY <2>2, <1>t, <1>u, NumbersKept DEF OptReceiveEarly
  <2>3. CASE OptReceiveNext(p)
    <3>1. IsData(p) /\ InWindow(p.seq) /\ p.seq = rSf
      BY <2>3, OptNextOutcome
    <3>2. CASE LeftInSlot(p)
      BY <3>1, <3>2, <1>t, <1>u, NumbersKept DEF LeftInSlot
    <3>3. ASSUME NEW n \in 1..RWindow, CopiedToBuf(p, n)
          PROVE  NumbersInv' /\ rSf' >= rSf
      BY <3>1, <3>3, <1>i, <1>t, <1>u, NumbersCopied DEF CopiedToBuf
    <3> QED
      BY <2>3, <3>2, <3>3, OptNextOutcome
  <2> QED
    BY <1>2, <2>1, <2>2, <2>3 DEF OptReceive
<1> QED
  BY <1>1, <1>2 DEF OptReceiverTurn, OptReceiverStep

LEMMA OptNumbersInvariant == OptSpec => []NumbersInv
<1>1. TypeInv /\ OptReceiverInv /\ NumbersInv /\ [OptNext]_vars => NumbersInv'
  BY OptMainIsMain, NumbersMain, OptNumbersThread, OptNumbersReceiver, NumbersChannel,
     NumbersStutter DEF OptNext, OptReceiverInv
<1> QED
  BY <1>1, NumbersInit, OptTypeInvariant, OptReceiverInvariant, PTL DEF OptSpec

\* The receiver alone moves its number.
LEMMA OptReceiverForward ==
  ASSUME TypeInv, OptReceiverInv, NumbersInv, [OptNext]_vars
  PROVE  rSf' >= rSf
<1>1. rSf \in Nat
  BY DEF TypeInv, TypeOK, ReceiverTypeOK
<1>2. CASE OptReceiverTurn
  BY <1>2, OptNumbersReceiver
<1>3. CASE ~OptReceiverTurn
  BY <1>1, <1>3 DEF OptNext, OptMain, OptThread, Channel, vars, receiverVars
<1> QED
  BY <1>2, <1>3

\* The selective-repeat receiver keeps the promise as well, whatever the channel
\* damages, and whatever its own sender loses: what it hands over grows along the
\* message, and never beyond its end.
THEOREM OptDeliversMessage == OptSpec => DeliverySpec
<1>1. ASSUME TypeInv, OptReceiverInv, NumbersInv, TypeInv', OptReceiverInv', NumbersInv',
             [OptNext]_vars
      PROVE  [Delivery!Next]_Delivery!vars
  <2>1. rSf' \in Nat /\ rSf' >= rSf
    BY <1>1, OptReceiverForward DEF TypeInv, TypeOK, ReceiverTypeOK
  <2>2. rSf' <= NumFrames
    BY <1>1 DEF NumbersInv, NumFrames
  <2> QED
    BY <1>1, <2>1, <2>2, DeliveryStep DEF OptReceiverInv, ReceiverInv
<1> QED
  BY <1>1, DeliveryInit, OptTypeInvariant, OptReceiverInvariant, OptNumbersInvariant, PTL
  DEF OptSpec, DeliverySpec, Delivery!Spec

-----------------------------------------------------------------------------
(* The file is never shorter than the message.                             *)

LEMMA OptFileInvMain == TypeInv /\ OptReceiverInv /\ OptFileInv /\ OptMain => OptFileInv'
<1> SUFFICES ASSUME TypeInv, OptReceiverInv, OptFileInv, OptMain PROVE OptFileInv'
  OBVIOUS
<1>1. FileInv'
  BY OptMainIsMain, FileInvMain DEF OptReceiverInv, OptFileInv
<1>2. NoEndCached'
  <2>t. cache \in [0..(SWindow - 1) -> Packet]
    BY DEF TypeInv, TypeOK, SenderTypeOK
  <2>1. CASE CacheFrame
    <3>1. frame'.type = "DATA"
      BY <2>1 DEF CacheFrame, Data2Frame
    <3>2. cache' = [cache EXCEPT ![Slot(rcbSeq)] = [frame' EXCEPT !.ok = FALSE]]
          /\ frame' = Data2Frame(restlen, rcbSeq)
      BY <2>1 DEF CacheFrame
    <3>3. [frame' EXCEPT !.ok = FALSE].type = "DATA"
      BY <3>2 DEF Data2Frame
    <3> QED
      BY <2>t, <3>2, <3>3 DEF OptFileInv, NoEndCached
  <2>2. CASE FrameCached
    BY <2>t, <2>2 DEF FrameCached, OptFileInv, NoEndCached, FileInv, EndNumberInv
  <2>3. CASE cache' = cache
    BY <2>3 DEF OptFileInv, NoEndCached
  <2>4. CacheFrame \/ FrameCached \/ cache' = cache
    BY DEF OptMain, OptMainStep, OptConnect, OptSendMsg, OptAwaitEnd, SendStart,
           ConnectTimeout, ConnectReceive, AbortEnd, Transmit, Finish, FinishEmpty,
           EndTimeout, EndReceive
  <2> QED
    BY <2>1, <2>2, <2>3, <2>4
<1> QED
  BY <1>1, <1>2 DEF OptFileInv

LEMMA OptFileInvThread == TypeInv /\ OptFileInv /\ OptThread => OptFileInv'
<1> SUFFICES ASSUME TypeInv, OptFileInv, OptThread PROVE OptFileInv'
  OBVIOUS
<1>u. UNCHANGED receiverVars
  BY DEF OptThread
<1>t. cache \in [0..(SWindow - 1) -> Packet] /\ Sf \in Nat
  BY DEF TypeInv, TypeOK, SenderTypeOK
<1>k. CountInv'
  BY <1>u, CountKept DEF receiverVars, OptFileInv, FileInv
<1>q. ASSUME UNCHANGED mainVars, NoEndCached',
             \A p \in toReceiver' : p \in toReceiver \/ p.type # "END"
      PROVE  OptFileInv'
  BY <1>u, <1>k, <1>q
  DEF OptFileInv, FileInv, EndNumberInv, IsEnd, GivenUp, mainVars, receiverVars
<1>1. CASE OptTimeout \/ OptScan \/ OptSlide
  BY <1>1, <1>q DEF OptTimeout, Timeout, OptScan, OptSlide, Slide, OptFileInv, NoEndCached
<1>2. CASE OptResend
  <2>1. cache[Slot(Sf)].type # "END"
    BY <1>t, SlotRange DEF OptFileInv, NoEndCached
  <2> QED
    BY <1>2, <1>q, <2>1 DEF OptResend, SendToReceiver, OptFileInv, NoEndCached
<1>3. ASSUME NEW p \in toSender, OptAckNew(p)
      PROVE  OptFileInv'
  <2>1. EmptySlot.type # "END"
    BY DEF EmptySlot, Control
  <2>2. NoEndCached'
    BY <1>3, <1>t, <2>1 DEF OptAckNew, OptFree, OptFileInv, NoEndCached
  <2> QED
    BY <1>3, <1>q, <2>2 DEF OptAckNew
<1>4. ASSUME NEW p \in toSender, OptAckOther(p)
      PROVE  OptFileInv'
  BY <1>4, <1>q DEF OptAckOther, OptFileInv, NoEndCached
<1> QED
  BY <1>1, <1>2, <1>3, <1>4 DEF OptThread, OptThreadStep

LEMMA OptFileInvReceiver ==
  TypeInv /\ OptReceiverInv /\ OptFileInv /\ OptReceiverTurn => OptFileInv'
<1> SUFFICES ASSUME TypeInv, OptReceiverInv, OptFileInv, OptReceiverTurn
             PROVE  OptFileInv'
  OBVIOUS
<1>i. ReceiverInv /\ FileInv
  BY DEF OptReceiverInv, OptFileInv
<1>u. UNCHANGED <<restlen, rcbSeq, frame, cache, toReceiver>>
  BY DEF OptReceiverTurn, senderVars, mainVars
<1>t. rSf \in Nat /\ endSeq \in Nat
  BY DEF TypeInv, TypeOK, ReceiverTypeOK
<1>n. NoEndCached'
  BY <1>u DEF OptFileInv, NoEndCached
<1>g. GivenUp' = GivenUp
  BY DEF OptReceiverTurn, senderVars, mainVars, GivenUp
<1>q. ASSUME UNCHANGED <<rSf, rCache, countnum, endSeq, endFlag>>,
             rPc' \in {"finish", "written"} => rPc = "finish"
      PROVE  OptFileInv'
  <2>1. CountInv'
    BY <1>i, <1>q, CountKept DEF FileInv
  <2> QED
    BY <1>i, <1>u, <1>g, <1>n, <1>q, <2>1 DEF OptFileInv, FileInv, EndNumberInv, IsEnd
\* A frame is accepted: the receiver leaves when the frames END named are there.
<1>a. ASSUME NEW p \in toReceiver, IsData(p), OptAccepted(p, rSf'),
             UNCHANGED <<endSeq, endFlag>>, Missing' = Missing \ {p.seq}
      PROVE  OptFileInv'
  <2>1. rPc' \in {"finish", "written"} => endFlag /\ rSf' >= endSeq
    BY <1>a DEF OptAccepted, IsData
  <2>2. CountInv'
    BY <1>a, <1>i, CountAccepted DEF FileInv, OptAccepted
  <2> QED
    BY <1>i, <1>u, <1>g, <1>n, <1>a, <2>1, <2>2
    DEF OptFileInv, FileInv, EndNumberInv, IsEnd
<1>1. CASE OptWriteFile
  BY <1>1, <1>q DEF OptWriteFile, WriteFile
<1>2. ASSUME NEW p \in toReceiver, OptReceive(p)
      PROVE  OptFileInv'
  <2>1. CASE OptListen(p) \/ Drop(p) \/ OptReceiveOld(p) \/ OptReceiveBeyond(p)
    BY <2>1, <1>q
    DEF OptListen, Drop, OptReceiveOld, OptReceiveBeyond, IsData, receiverVars
  <2>2. CASE ReceiveEnd(p)
    <3>1. CountInv'
      BY <2>2, <1>i, CountKept DEF ReceiveEnd, FileInv
    <3>2. endFlag' /\ endSeq' = p.seq /\ p.type = "END" /\ p.ok /\ rSf' = rSf
          /\ (rPc' \in {"finish", "written"} => rSf >= p.seq)
      BY <2>2 DEF ReceiveEnd
    <3> QED
      BY <1>i, <1>u, <1>g, <1>n, <3>1, <3>2
      DEF OptFileInv, FileInv, EndNumberInv, IsEnd
  <2>3. CASE OptReceiveEarly(p)
    <3>1. IsData(p) /\ InWindow(p.seq) /\ rCache' = CacheAdd(p) /\ rSf' = rSf
          /\ OptAccepted(p, rSf) /\ UNCHANGED <<endSeq, endFlag>>
      BY <2>3 DEF OptReceiveEarly
    <3>2. Missing' = Missing \ {p.seq}
      BY <1>i, <3>1, MissingAfterKeeping
    <3> QED
      BY <1>a, <3>1, <3>2
  <2>4. CASE OptReceiveNext(p)
    <3>1. IsData(p) /\ InWindow(p.seq) /\ p.seq = rSf /\ UNCHANGED <<endSeq, endFlag>>
      BY <2>4, OptNextOutcome
    <3>2. CASE LeftInSlot(p)
      <4>1. Missing' = Missing \ {p.seq}
        BY <1>i, <3>1, <3>2, MissingAfterKeeping DEF LeftInSlot
      <4> QED
        BY <1>a, <3>1, <3>2, <4>1 DEF LeftInSlot
    <3>3. ASSUME NEW n \in 1..RWindow, CopiedToBuf(p, n)
          PROVE  OptFileInv'
      <4>1. Missing' = Missing \ {p.seq}
        BY <1>i, <3>1, <3>3, MissingAfterCopying DEF CopiedToBuf
      <4> QED
        BY <1>a, <3>1, <3>3, <4>1 DEF CopiedToBuf
    <3> QED
      BY <2>4, <3>2, <3>3, OptNextOutcome
  <2> QED
    BY <1>2, <2>1, <2>2, <2>3, <2>4 DEF OptReceive
<1> QED
  BY <1>1, <1>2 DEF OptReceiverTurn, OptReceiverStep

LEMMA OptFileInvariant == OptSpec => []OptFileInv
<1>1. TypeInv /\ OptReceiverInv /\ OptFileInv /\ [OptNext]_vars => OptFileInv'
  <2>1. TypeInv /\ OptFileInv /\ (Channel \/ UNCHANGED vars) => OptFileInv'
    BY FileInvChannel, FileInvStutter
    DEF OptFileInv, NoEndCached, Channel, vars, senderVars
  <2> QED
    BY <2>1, OptFileInvMain, OptFileInvThread, OptFileInvReceiver DEF OptNext
<1>2. Init => OptFileInv
  BY FileInvInit
  DEF OptFileInv, NoEndCached, Init, SenderInit, WindowInit, EmptySlot, Control
<1> QED
  BY <1>1, <1>2, OptTypeInvariant, OptReceiverInvariant, PTL DEF OptSpec

\* The file the selective-repeat receiver writes after a whole session is never
\* shorter than the message, when strlen sees all of it: although the sender loses
\* frames, the receiver does not leave before it has, and has counted, all of them.
THEOREM OptFileNeverShort ==
  ASSUME NoNul
  PROVE  OptSpec => []FileNotShort
<1>1. NoNul /\ TypeInv /\ OptFileInv => FileNotShort
  BY FileLongEnough DEF OptFileInv
<1> QED
  BY <1>1, OptFileInvariant, OptTypeInvariant, PTL

LEMMA OptExactCountStep ==
  ASSUME NoNul, CountCap >= MsgLen, TypeInv, OptReceiverInv, NumbersInv, ExactCountInv,
         [OptNext]_vars, ~OptRecounts
  PROVE  ExactCountInv'
<1>i. ReceiverInv
  BY DEF OptReceiverInv
<1>1. CASE UNCHANGED receiverVars
  BY <1>1, ExactCountKept DEF receiverVars
<1>2. CASE OptReceiverTurn
  <2>1. CASE OptWriteFile
    BY <2>1, ExactCountKept DEF OptWriteFile, WriteFile
  <2>2. ASSUME NEW p \in toReceiver, OptReceive(p)
        PROVE  ExactCountInv'
    <3>1. CASE OptListen(p) \/ Drop(p) \/ ReceiveEnd(p) \/ OptReceiveOld(p)
               \/ OptReceiveBeyond(p)
      BY <3>1, ExactCountKept
      DEF OptListen, Drop, ReceiveEnd, OptReceiveOld, OptReceiveBeyond, receiverVars
    <3>2. CASE OptReceiveEarly(p)
      <4>1. IsData(p) /\ InWindow(p.seq) /\ rCache' = CacheAdd(p) /\ rSf' = rSf
            /\ countnum' = Counted(p.data.len) /\ ~Held(p.seq)
        BY <3>2 DEF OptReceiveEarly, OptAccepted, OptRecounts
      <4>2. Missing' = Missing \ {p.seq}
        BY <1>i, <4>1, MissingAfterKeeping
      <4> QED
        BY <1>i, <4>1, <4>2, CountExact
    <3>3. CASE OptReceiveNext(p)
      <4>1. IsData(p) /\ InWindow(p.seq) /\ p.seq = rSf
            /\ countnum' = Counted(p.data.len) /\ ~Held(p.seq)
        BY <3>3 DEF OptReceiveNext, OptAccepted, OptRecounts
      <4>2. CASE LeftInSlot(p)
        <5>1. Missing' = Missing \ {p.seq}
          BY <1>i, <4>1, <4>2, MissingAfterKeeping DEF LeftInSlot
        <5> QED
          BY <1>i, <4>1, <5>1, CountExact
      <4>3. ASSUME NEW n \in 1..RWindow, CopiedToBuf(p, n)
            PROVE  ExactCountInv'
        <5>1. Missing' = Missing \ {p.seq}
          BY <1>i, <4>1, <4>3, MissingAfterCopying DEF CopiedToBuf
        <5> QED
          BY <1>i, <4>1, <5>1, CountExact
      <4> QED
        BY <3>3, <4>2, <4>3, OptNextOutcome
    <3> QED
      BY <2>2, <3>1, <3>2, <3>3 DEF OptReceive
  <2> QED
    BY <1>2, <2>1, <2>2 DEF OptReceiverTurn, OptReceiverStep
<1> QED
  BY <1>1, <1>2 DEF OptNext, OptMain, OptThread, Channel, vars

\* The file of the selective-repeat receiver is exactly as long as the message, when
\* strlen sees all of it, unless the receiver counts a frame twice.
THEOREM OptFileExact ==
  ASSUME NoNul, CountCap >= MsgLen
  PROVE  OptSpec /\ OptCountedOnce => []FileHasMessageLength
<1>1. TypeInv /\ OptReceiverInv /\ NumbersInv /\ ExactCountInv /\ [OptNext]_vars
        /\ [~OptRecounts]_vars => ExactCountInv'
  <2>1. ExactCountInv /\ UNCHANGED vars => ExactCountInv'
    BY ExactCountKept DEF vars, receiverVars
  <2> QED
    BY <2>1, OptExactCountStep
<1>2. Init => ExactCountInv
  BY NothingCounted DEF ExactCountInv
<1>3. TypeInv /\ OptFileInv /\ ExactCountInv => FileHasMessageLength
  BY FileExactLength DEF OptFileInv, FileInv
<1> QED
  BY <1>1, <1>2, <1>3, OptFileInvariant, OptTypeInvariant, OptReceiverInvariant,
     OptNumbersInvariant, PTL DEF OptSpec, OptCountedOnce
=============================================================================
