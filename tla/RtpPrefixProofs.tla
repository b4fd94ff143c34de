---------------------------- MODULE RtpPrefixProofs ---------------------------
(***************************************************************************)
(* What the receiver hands over is a prefix of the message, whatever the   *)
(* channel loses, repeats, reorders or damages: ReceiverInv is inductive.  *)
(***************************************************************************)
EXTENDS RtpProofs

USE NetworkAssumption, MessageAssumption, SWindowAssumption, RWindowAssumption

-----------------------------------------------------------------------------
(* Facts about frames.                                                     *)

\* FrameOf is a DATA frame with the number it is asked for.
LEMMA FrameOfFields ==
  ASSUME NEW k \in Nat
  PROVE  FrameOf(k).type = "DATA" /\ FrameOf(k).seq = k /\ FrameOf(k).ok = TRUE
BY DEF FrameOf, Data2Frame

\* A packet with the payload, the type and the number of a true frame is one.
LEMMA TrueFrameCopy ==
  ASSUME NEW p, NEW q, TrueFrame(p),
         q.type = p.type, q.seq = p.seq, q.data = p.data
  PROVE  TrueFrame(q)
BY DEF TrueFrame

\* Headers with length 0 are trivially true frames: they are no DATA.
LEMMA ControlTrue ==
  ASSUME NEW seq \in Nat
  PROVE  /\ TrueFrame(Control("START", seq))
         /\ TrueFrame(Control("END", seq))
BY DEF TrueFrame, Control

\* As long as something is left, what data2frame builds is the frame the cut
\* of the message at multiples of DATASIZE asks for.
LEMMA BuiltFrame ==
  ASSUME TypeInv, CutInv, restlen > 0
  PROVE  Data2Frame(restlen, rcbSeq) = FrameOf(rcbSeq)
<1>1. restlen \in Nat /\ rcbSeq * DataSize \in Nat
  BY DEF TypeInv, TypeOK, SenderTypeOK
<1>2. restlen = MsgLen - rcbSeq * DataSize
  BY <1>1 DEF CutInv
<1> QED
  BY <1>2 DEF FrameOf

\* Products keep the order of their first factors.
LEMMA TimesMonotonic ==
  ASSUME NEW a \in Int, NEW b \in Int, NEW d \in Nat, a <= b
  PROVE  a * d <= b * d
<1>1. (b - a) * d >= 0
  <2>1. b - a \in Nat
    OBVIOUS
  <2> QED
    BY <2>1
<1>2. (b - a) * d = b * d - a * d
  OBVIOUS
<1> QED
  BY <1>1, <1>2

\* The frames cover the message, and the last of them is needed for it.
LEMMA LastFrame ==
  /\ NumFrames \in Nat
  /\ NumFrames * DataSize \in Nat
  /\ NumFrames * DataSize >= MsgLen
  /\ NumFrames * DataSize - DataSize < MsgLen \/ NumFrames = 0
<1> DEFINE s == MsgLen + DataSize - 1
           q == s \div DataSize
           r == s % DataSize
<1>1. s \in Nat /\ q \in Nat /\ r \in 0..(DataSize - 1) /\ s = DataSize * q + r
  OBVIOUS
<1>2. NumFrames = q
  BY DEF NumFrames
<1> HIDE DEF q, r
<1>3. q * DataSize = DataSize * q /\ DataSize * q \in Nat
  BY <1>1
<1> QED
  BY <1>1, <1>2, <1>3

\* The frames are as many as it takes to carry the message, which is what mythread
\* waits for, or one less.
LEMMA NumFramesBounds ==
  /\ NumFrames \in Nat
  /\ NumFrames <= EndSeqnum
  /\ \A n \in Nat : n > 0 /\ (n - 1) * DataSize < MsgLen => n <= NumFrames
<1> DEFINE q == MsgLen \div DataSize
           r == MsgLen % DataSize
<1>1. q \in Nat /\ r \in 0..(DataSize - 1) /\ MsgLen = DataSize * q + r
  BY MessageAssumption
<1> HIDE DEF q, r
<1>2. EndSeqnum = q + 1
  BY DEF EndSeqnum, q
<1>3. NumFrames = IF r = 0 THEN q ELSE q + 1
  <2>1. CASE r = 0
    <3>1. MsgLen + DataSize - 1 = DataSize * q + (DataSize - 1)
      BY <1>1, <2>1, MessageAssumption
    <3> QED
      BY <1>1, <2>1, <3>1, MessageAssumption DEF NumFrames
  <2>2. CASE r # 0
    <3>1. MsgLen + DataSize - 1 = DataSize * (q + 1) + (r - 1)
      BY <1>1, <2>2, MessageAssumption
    <3> QED
      BY <1>1, <2>2, <3>1, MessageAssumption DEF NumFrames
  <2> QED
    BY <2>1, <2>2
<1>4. ASSUME NEW n \in Nat, n > 0, (n - 1) * DataSize < MsgLen
      PROVE  n <= NumFrames
  <2> SUFFICES ASSUME n > NumFrames PROVE FALSE
    BY <1>1, <1>3
  <2>1. NumFrames \in Nat /\ NumFrames <= n - 1
    BY <1>1, <1>3
  <2>2. NumFrames * DataSize <= (n - 1) * DataSize
    BY <2>1, TimesMonotonic, MessageAssumption
  <2>3. NumFrames * DataSize >= MsgLen
    BY <1>1, <1>3, MessageAssumption
  <2>4. (n - 1) * DataSize \in Int /\ NumFrames * DataSize \in Int
    BY <2>1, MessageAssumption
  <2> HIDE DEF NumFrames
  <2> QED
    BY <1>4, <2>2, <2>3, <2>4, MessageAssumption
<1> QED
  BY <1>1, <1>2, <1>3, <1>4

\* A frame that starts inside the message is one of its frames.
LEMMA FrameOfMessage ==
  ASSUME NEW k \in Nat, k * DataSize < MsgLen
  PROVE  k < NumFrames
<1> DEFINE N == NumFrames
<1>1. N \in Nat /\ N * DataSize \in Nat /\ N * DataSize >= MsgLen
  BY LastFrame
<1>2. k * DataSize \in Nat
  OBVIOUS
<1> HIDE DEF N
<1>3. N <= k => N * DataSize <= k * DataSize
  BY <1>1, TimesMonotonic
<1>4. k < N
  BY <1>1, <1>2, <1>3
<1> QED
  BY <1>4 DEF N

-----------------------------------------------------------------------------

LEMMA ReceiverInvInit == Init => ReceiverInv
<1> SUFFICES ASSUME Init PROVE ReceiverInv
  OBVIOUS
<1> USE DEF Init, NetInit, SenderInit, RcbInit, WindowInit, ReceiverInit
<1>1. CutInv
  BY DEF CutInv
<1>2. FramesInv
  BY ControlTrue DEF FramesInv, EmptySlot, EmptyRSlot
<1>3. KeptInv
  BY DEF KeptInv, EmptyRSlot, Control
<1>4. EndInv
  BY DEF EndInv
<1>5. DeliveredPrefix
  <2>1. [k \in 1..0 |-> FrameOf(k - 1).data] = <<>>
    OBVIOUS
  <2> QED
    BY <2>1 DEF DeliveredPrefix
<1> QED
  BY <1>1, <1>2, <1>3, <1>4, <1>5 DEF ReceiverInv

\* What the receiver keeps is not touched by anyone else.
LEMMA ReceiverSideKept ==
  ASSUME ReceiverInv, UNCHANGED receiverVars
  PROVE  KeptInv' /\ EndInv' /\ DeliveredPrefix'
BY DEF ReceiverInv, receiverVars, KeptInv, EndInv, DeliveredPrefix

\* A step that builds and keeps no frame disturbs neither cut nor frames when
\* what it sends, if it is undamaged, is true.
LEMMA QuietStep ==
  ASSUME ReceiverInv, UNCHANGED <<restlen, rcbSeq, frame, cache, rCache>>,
         \A p \in toReceiver' : p \notin toReceiver /\ p.ok => TrueFrame(p)
  PROVE  CutInv' /\ FramesInv'
BY DEF ReceiverInv, CutInv, FramesInv

LEMMA ReceiverInvMain == TypeInv /\ ReceiverInv /\ Main => ReceiverInv'
<1> SUFFICES ASSUME TypeInv, ReceiverInv, Main PROVE ReceiverInv'
  OBVIOUS
<1>k. KeptInv' /\ EndInv' /\ DeliveredPrefix'
  BY ReceiverSideKept DEF Main, receiverVars
<1> SUFFICES CutInv' /\ FramesInv'
  BY <1>k DEF ReceiverInv
<1>t. restlen \in 0..MsgLen /\ rcbSeq \in Nat /\ frame \in Packet
      /\ cache \in [0..(SWindow - 1) -> Packet]
  BY DEF TypeInv, TypeOK, SenderTypeOK
<1>r. rCache' = rCache
  BY DEF Main, receiverVars
<1>q. ASSUME UNCHANGED <<restlen, rcbSeq, frame, cache>>,
             \/ UNCHANGED toReceiver
             \/ SendToReceiver({Control("START", 0)})
             \/ SendToReceiver({Control("END", 0)})
             \/ SendToReceiver({Control("END", rcbSeq)})
      PROVE  CutInv' /\ FramesInv'
  <2>1. \A p \in toReceiver' : p \notin toReceiver /\ p.ok => TrueFrame(p)
    BY <1>q, <1>t, ControlTrue DEF SendToReceiver
  <2> QED
    BY <1>q, <1>r, <2>1, QuietStep
<1>1. CASE SendStart
  BY <1>1, <1>q DEF SendStart
<1>2. CASE ConnectTimeout
  BY <1>2, <1>q DEF ConnectTimeout, GiveUp
<1>3. CASE AbortEnd
  BY <1>3, <1>q DEF AbortEnd
<1>4. CASE CacheFrame
  <2>1. restlen > 0
    BY <1>4, <1>t DEF CacheFrame
  <2>2. frame' = FrameOf(rcbSeq)
    BY <1>4, <2>1, BuiltFrame DEF CacheFrame, ReceiverInv
  <2>3. TrueFrame(frame') /\ TrueFrame([frame' EXCEPT !.ok = FALSE])
    BY <2>2, <1>t, FrameOfFields DEF TrueFrame, FrameOf, Data2Frame
  <2>4. CutInv'
    <3> SUFFICES ASSUME restlen' > 0 PROVE MsgLen - restlen' = rcbSeq' * DataSize
      BY DEF CutInv
    <3>1. restlen' = restlen - DataSize /\ rcbSeq' = rcbSeq + 1
      BY <1>4, <1>t DEF CacheFrame, RestAfter
    <3>2. MsgLen - restlen = rcbSeq * DataSize
      BY <2>1 DEF ReceiverInv, CutInv
    <3>3. (rcbSeq + 1) * DataSize = rcbSeq * DataSize + DataSize
      BY <1>t
    <3> QED
      BY <1>t, <3>1, <3>2, <3>3
  <2>5. \A i \in 0..(SWindow - 1) : TrueFrame(cache'[i])
    BY <1>4, <1>t, <2>3 DEF CacheFrame, ReceiverInv, FramesInv
  <2>6. toReceiver' = toReceiver
    BY <1>4 DEF CacheFrame
  <2> QED
    BY <1>r, <2>3, <2>4, <2>5, <2>6 DEF ReceiverInv, FramesInv
<1>5. CASE FrameCached
  <2>1. \A i \in 0..(SWindow - 1) : TrueFrame(cache'[i])
    BY <1>5, <1>t DEF FrameCached, ReceiverInv, FramesInv
  <2> QED
    BY <1>5, <1>r, <2>1 DEF FrameCached, ReceiverInv, FramesInv, CutInv
<1>6. CASE Transmit
  <2>1. TrueFrame(FirstSending(frame))
    BY <1>t DEF FirstSending, TrueFrame, Packet, ReceiverInv, FramesInv
  <2>2. toReceiver' = toReceiver \cup {FirstSending(frame)}
    BY <1>6 DEF Transmit, SendToReceiver
  <2> QED
    BY <1>6, <1>r, <2>1, <2>2, QuietStep DEF Transmit
<1>7. CASE Finish
  BY <1>7, <1>q DEF Finish, SendEnd
<1>8. CASE FinishEmpty
  BY <1>8, <1>q DEF FinishEmpty, SendEnd
<1>9. CASE EndTimeout
  BY <1>9, <1>q DEF EndTimeout
<1>10. ASSUME NEW p \in toSender, ConnectReceive(p)
       PROVE  CutInv' /\ FramesInv'
  BY <1>10, <1>q DEF ConnectReceive, GiveUp
<1>11. ASSUME NEW p \in toSender, EndReceive(p)
       PROVE  CutInv' /\ FramesInv'
  BY <1>11, <1>q DEF EndReceive
<1> QED
  BY <1>1, <1>2, <1>3, <1>4, <1>5, <1>6, <1>7, <1>8, <1>9, <1>10, <1>11
  DEF Main, MainStep

LEMMA ReceiverInvThread == TypeInv /\ ReceiverInv /\ Thread => ReceiverInv'
<1> SUFFICES ASSUME TypeInv, ReceiverInv, Thread PROVE ReceiverInv'
  OBVIOUS
<1>k. KeptInv' /\ EndInv' /\ DeliveredPrefix'
  BY ReceiverSideKept DEF Thread, receiverVars
<1> SUFFICES CutInv' /\ FramesInv'
  BY <1>k DEF ReceiverInv
<1>t. cache \in [0..(SWindow - 1) -> Packet] /\ Sf \in Nat
  BY DEF TypeInv, TypeOK, SenderTypeOK
<1>r. rCache' = rCache
  BY DEF Thread, receiverVars
<1>q. ASSUME UNCHANGED <<mainVars, cache, toReceiver>>
      PROVE  CutInv' /\ FramesInv'
  BY <1>q, <1>r DEF mainVars, ReceiverInv, CutInv, FramesInv
<1>1. CASE Timeout
  BY <1>1, <1>q DEF Timeout
<1>2. CASE Slide
  BY <1>2, <1>q DEF Slide
<1>3. CASE Resend
  <2>1. TrueFrame(cache[Slot(Sf)])
    BY <1>t, SlotRange DEF ReceiverInv, FramesInv
  <2>2. toReceiver' = toReceiver \cup {cache[Slot(Sf)]}
    BY <1>3 DEF Resend, SendToReceiver
  <2> QED
    BY <1>3, <1>r, <2>1, <2>2, QuietStep DEF Resend, mainVars
<1>4. ASSUME NEW p \in toSender, AckNew(p)
      PROVE  CutInv' /\ FramesInv'
  <2>1. TrueFrame(EmptySlot)
    BY ControlTrue DEF EmptySlot
  <2>2. \A i \in 0..(SWindow - 1) : TrueFrame(cache'[i])
    BY <1>4, <1>t, <2>1 DEF AckNew, ReceiverInv, FramesInv
  <2> QED
    BY <1>4, <1>r, <2>2 DEF AckNew, mainVars, ReceiverInv, FramesInv, CutInv
<1>5. ASSUME NEW p \in toSender, AckOther(p)
      PROVE  CutInv' /\ FramesInv'
  BY <1>5, <1>q DEF AckOther
<1> QED
  BY <1>1, <1>2, <1>3, <1>4, <1>5 DEF Thread, ThreadStep

LEMMA ReceiverInvChannel == TypeInv /\ ReceiverInv /\ Channel => ReceiverInv'
<1> SUFFICES ASSUME TypeInv, ReceiverInv, Channel PROVE ReceiverInv'
  OBVIOUS
<1>k. KeptInv' /\ EndInv' /\ DeliveredPrefix'
  BY ReceiverSideKept DEF Channel, receiverVars
<1> SUFFICES CutInv' /\ FramesInv'
  BY <1>k DEF ReceiverInv
<1>t. toReceiver \subseteq Packet
  BY DEF TypeInv, TypeOK, NetTypeOK
<1>u. UNCHANGED <<restlen, rcbSeq, frame, cache, rCache>>
  BY DEF Channel, senderVars, mainVars, receiverVars
<1>1. CASE Lose
  <2>1. \A p \in toReceiver' : p \in toReceiver
    BY <1>1 DEF Lose
  <2> QED
    BY <1>u, <2>1, QuietStep
<1>2. CASE Corrupt
  <2>1. \A p \in Packet, type \in PacketTypes, seq \in CorruptSeqs :
          ~Damaged(p, type, seq).ok
    BY DEF Damaged, Packet
  <2>2. \A p \in toReceiver' : p \notin toReceiver => ~p.ok
    BY <1>2, <1>t, <2>1 DEF Corrupt, Damaging
  <2> QED
    BY <1>u, <2>2, QuietStep
<1> QED
  BY <1>1, <1>2 DEF Channel

LEMMA ReceiverInvStutter == ReceiverInv /\ UNCHANGED vars => ReceiverInv'
BY DEF ReceiverInv, CutInv, FramesInv, KeptInv, EndInv, DeliveredPrefix, vars,
   netVars, senderVars, mainVars, receiverVars

-----------------------------------------------------------------------------
(* The receiver's own steps.                                               *)

\* A number of a range is its start plus an offset.
LEMMA Offset ==
  ASSUME NEW s \in Nat, NEW low \in Nat, NEW n \in Nat, low <= s, s < low + n
  PROVE  \E j \in 0..(n - 1) : s = low + j
<1>1. s - low \in 0..(n - 1) /\ s = low + (s - low)
  OBVIOUS
<1> QED
  BY <1>1

\* A run of n values that goes on where m values of the same function end.
LEMMA AppendRun ==
  ASSUME NEW f, NEW m \in Nat, NEW n \in Nat
  PROVE  [k \in 1..m |-> f[k - 1]] \o [k \in 1..n |-> f[m + k - 1]]
           = [k \in 1..(m + n) |-> f[k - 1]]
<1> DEFINE a == [k \in 1..m |-> f[k - 1]]
           b == [k \in 1..n |-> f[m + k - 1]]
           S == {f[k] : k \in Int}
<1>1. a \in Seq(S) /\ b \in Seq(S)
  OBVIOUS
<1>2. Len(a) = m /\ Len(b) = n
  OBVIOUS
<1> QED
  BY <1>1, <1>2

\* The copy loop: the slots it empties hold the frames that follow the one
\* wanted, each in its turn.
LEMMA CopiedRun ==
  ASSUME TypeInv, ReceiverInv,
         NEW p \in toReceiver, IsData(p), p.seq = rSf,
         NEW n \in 1..RWindow,
         \A m \in 1..(n - 1) : ~CopyStops(CacheAdd(p), m)
  PROVE  \A j \in 0..(n - 1) :
           /\ CacheAdd(p)[RSlot(rSf + j)].data = FrameOf(rSf + j).data
           /\ CacheAdd(p)[RSlot(rSf + j)].seq = rSf + j
           /\ j > 0 => /\ rCache[RSlot(rSf + j)].type = "DATA"
                       /\ rCache[RSlot(rSf + j)].seq = rSf + j
<1> SUFFICES ASSUME NEW j \in 0..(n - 1)
             PROVE  /\ CacheAdd(p)[RSlot(rSf + j)].data = FrameOf(rSf + j).data
                    /\ CacheAdd(p)[RSlot(rSf + j)].seq = rSf + j
                    /\ j > 0 => /\ rCache[RSlot(rSf + j)].type = "DATA"
                                /\ rCache[RSlot(rSf + j)].seq = rSf + j
  OBVIOUS
<1>t. /\ rSf \in Nat /\ rCache \in [0..(RWindow - 1) -> Packet] /\ p \in Packet
      /\ toReceiver \subseteq Packet
  BY DEF TypeInv, TypeOK, ReceiverTypeOK, NetTypeOK
<1>j. rSf + j \in Nat /\ rSf + j < rSf + RWindow
  BY <1>t
<1>s. RSlot(rSf) \in 0..(RWindow - 1) /\ RSlot(rSf + j) \in 0..(RWindow - 1)
  BY <1>t, <1>j, SlotRange
<1>1. CASE j = 0
  <2>1. CacheAdd(p)[RSlot(rSf + j)] = p
    BY <1>1, <1>t, <1>s DEF CacheAdd
  <2> QED
    BY <1>1, <1>t, <2>1 DEF IsData, ReceiverInv, FramesInv, TrueFrame
<1>2. CASE j > 0
  <2>1. CacheAdd(p)[RSlot(rSf + j)].type = "DATA"
    BY <1>2, <1>t DEF CopyStops
  <2>2. RSlot(rSf + j) # RSlot(rSf)
    <3>1. rSf < rSf + j
      BY <1>2, <1>t
    <3>2. rSf % RWindow # (rSf + j) % RWindow
      BY <1>t, <1>j, <3>1, ModDistinct, Zenon
    <3> QED
      BY <3>2 DEF RSlot
  <2>3. CacheAdd(p)[RSlot(rSf + j)] = rCache[RSlot(rSf + j)]
    BY <1>t, <1>s, <2>2 DEF CacheAdd
  <2> DEFINE q == rCache[RSlot(rSf + j)]
  <2>4. q.type = "DATA" /\ TrueFrame(q) /\ q \in Packet
    BY <1>t, <1>s, <2>1, <2>3 DEF ReceiverInv, FramesInv
  <2>5. q.seq \in Nat
    BY <2>4 DEF Packet
  <2>6. q.seq >= rSf /\ q.seq < rSf + RWindow /\ RSlot(q.seq) = RSlot(rSf + j)
    BY <1>s, <2>4 DEF IsData, ReceiverInv, KeptInv
  <2> HIDE DEF q
  <2>7. q.seq = rSf + j
    <3>1. rSf <= rSf + j /\ rSf <= q.seq
      BY <1>t, <2>5, <2>6
    <3>2. q.seq % RWindow = (rSf + j) % RWindow
      BY <2>6 DEF RSlot
    <3> QED
      BY <1>t, <1>j, <2>5, <2>6, <3>1, <3>2, SlotsInjective, Zenon
  <2> QED
    BY <2>3, <2>4, <2>7 DEF TrueFrame, q
<1> QED
  BY <1>1, <1>2

\* The frames the copy loop leaves in the cache lie ahead of the new rSf.
LEMMA KeptRun ==
  ASSUME TypeInv, ReceiverInv,
         NEW p \in toReceiver, IsData(p), p.seq = rSf,
         NEW n \in 1..RWindow,
         NEW i \in 0..(RWindow - 1), CacheDe(CacheAdd(p), n)[i].type = "DATA"
  PROVE  /\ CacheDe(CacheAdd(p), n)[i] = rCache[i]
         /\ rCache[i].seq >= rSf + n
         /\ rCache[i].seq < rSf + n + RWindow
         /\ RSlot(rCache[i].seq) = i
<1>t. rSf \in Nat /\ rCache \in [0..(RWindow - 1) -> Packet]
  BY DEF TypeInv, TypeOK, ReceiverTypeOK
<1>s. RSlot(rSf) \in 0..(RWindow - 1)
  BY <1>t, SlotRange
<1>a. CacheAdd(p) = [rCache EXCEPT ![RSlot(rSf)] = p]
  BY DEF CacheAdd
<1>1. i \notin {RSlot(rSf + j) : j \in 0..(n - 1)}
  BY <1>t, <1>a DEF CacheDe, EmptyRSlot, Control
<1>2. CacheDe(CacheAdd(p), n)[i] = CacheAdd(p)[i]
  BY <1>t, <1>a, <1>1 DEF CacheDe
<1>3. i # RSlot(rSf)
  <2>1. rSf = rSf + 0 /\ 0 \in 0..(n - 1)
    BY <1>t
  <2> QED
    BY <1>1, <2>1
<1>4. CacheAdd(p)[i] = rCache[i]
  BY <1>t, <1>a, <1>s, <1>3
<1>5. /\ rCache[i].seq >= rSf
      /\ rCache[i].seq < rSf + RWindow
      /\ RSlot(rCache[i].seq) = i
  BY <1>2, <1>4 DEF IsData, ReceiverInv, KeptInv
<1>6. rCache[i].seq \in Nat
  BY <1>t DEF Packet
<1>7. rCache[i].seq >= rSf + n
  <2> SUFFICES ASSUME rCache[i].seq < rSf + n PROVE FALSE
    BY <1>t, <1>6
  <2>0. rSf <= rCache[i].seq /\ n \in Nat
    BY <1>t, <1>5, <1>6
  <2>a. \A s \in Nat : rSf <= s /\ s < rSf + n => \E j \in 0..(n - 1) : s = rSf + j
    BY <1>t, <2>0, Offset
  <2>1. PICK j \in 0..(n - 1) : rCache[i].seq = rSf + j
    BY <1>6, <2>0, <2>a
  <2> QED
    BY <1>1, <1>5, <2>1
<1> QED
  BY <1>t, <1>2, <1>4, <1>5, <1>6, <1>7

\* A frame kept for later leaves every frame the receiver holds where it is.
LEMMA HeldAfterKeeping ==
  ASSUME TypeInv, ReceiverInv, NEW p \in toReceiver, IsData(p), InWindow(p.seq),
         rCache' = CacheAdd(p), rSf' = rSf
  PROVE  /\ Held(p.seq)'
         /\ \A k \in Nat : Held(k) => Held(k)'
<1>t. /\ rSf \in Nat /\ rCache \in [0..(RWindow - 1) -> Packet]
      /\ p \in Packet /\ p.seq \in Nat
  BY DEF TypeInv, TypeOK, ReceiverTypeOK, NetTypeOK, Packet
<1>1. \A i \in 0..(RWindow - 1) : rCache'[i] = IF i = RSlot(p.seq) THEN p ELSE rCache[i]
  BY <1>t, SlotRange DEF CacheAdd
<1>2. p.type = "DATA" /\ rSf <= p.seq /\ p.seq < rSf + RWindow
  BY <1>t DEF IsData, InWindow, rRight, ReceiverInv, KeptInv
<1>3. Held(p.seq)'
  BY <1>t, <1>1, <1>2, SlotRange DEF Held
<1>4. ASSUME NEW k \in Nat, Held(k)
      PROVE  Held(k)'
  <2>1. CASE k < rSf
    BY <2>1 DEF Held
  <2>2. CASE /\ rCache[RSlot(k)].type = "DATA" /\ rCache[RSlot(k)].seq = k
             /\ RSlot(k) = RSlot(p.seq)
    <3>1. rSf <= k /\ k < rSf + RWindow
      BY <2>2, SlotRange DEF IsData, ReceiverInv, KeptInv
    <3>2. k % RWindow = p.seq % RWindow
      BY <2>2 DEF RSlot
    <3>3. k = p.seq
      BY <1>t, <1>2, <3>1, <3>2, SlotsInjective, RWindowAssumption, Zenon
    <3> QED
      BY <1>3, <3>3
  <2>3. CASE /\ rCache[RSlot(k)].type = "DATA" /\ rCache[RSlot(k)].seq = k
             /\ RSlot(k) # RSlot(p.seq)
    BY <1>1, <2>3, SlotRange DEF Held
  <2> QED
    BY <1>4, <2>1, <2>2, <2>3 DEF Held
<1> QED
  BY <1>3, <1>4

\* Copying frames to buf empties the slots of those copied and no other.
LEMMA HeldAfterCopying ==
  ASSUME TypeInv, ReceiverInv, NEW p \in toReceiver, IsData(p), p.seq = rSf,
         NEW n \in 1..RWindow,
         rCache' = CacheDe(CacheAdd(p), n), rSf' = rSf + n
  PROVE  \A k \in Nat : Held(k) => Held(k)'
<1>t. rSf \in Nat /\ rCache \in [0..(RWindow - 1) -> Packet]
  BY DEF TypeInv, TypeOK, ReceiverTypeOK
<1> SUFFICES ASSUME NEW k \in Nat, Held(k)
             PROVE  Held(k)'
  OBVIOUS
<1>0. CASE k < rSf + n
  BY <1>0 DEF Held
<1> SUFFICES ASSUME k >= rSf + n PROVE Held(k)'
  BY <1>0, <1>t
<1>1. rCache[RSlot(k)].type = "DATA" /\ rCache[RSlot(k)].seq = k
  BY <1>t DEF Held
<1>2. rSf <= k /\ k < rSf + RWindow /\ RSlot(k) \in 0..(RWindow - 1)
  BY <1>1, <1>t, SlotRange DEF IsData, ReceiverInv, KeptInv
<1>3. ASSUME NEW j \in 0..(n - 1)
      PROVE  RSlot(k) # RSlot(rSf + j)
  <2> SUFFICES ASSUME k % RWindow = (rSf + j) % RWindow PROVE FALSE
    BY DEF RSlot
  <2>1. /\ rSf + j \in Nat /\ rSf <= rSf + j /\ rSf + j < rSf + RWindow
        /\ rSf + j # k
    BY <1>t
  <2> QED
    BY <1>t, <1>2, <2>1, SlotsInjective, RWindowAssumption, Zenon
<1>4. RSlot(k) # RSlot(rSf)
  <2>1. 0 \in 0..(n - 1) /\ rSf + 0 = rSf
    BY <1>t
  <2> QED
    BY <1>3, <2>1
<1>5. CacheAdd(p) = [rCache EXCEPT ![RSlot(rSf)] = p]
  BY DEF CacheAdd
<1>6. rCache'[RSlot(k)] = rCache[RSlot(k)]
  BY <1>t, <1>2, <1>3, <1>4, <1>5 DEF CacheDe
<1> QED
  BY <1>1, <1>6 DEF Held

\* A frame is kept for later: it lies in the window, in a slot of its own.
LEMMA ReceiverInvKept ==
  ASSUME TypeInv, ReceiverInv, NEW p \in toReceiver, IsData(p), InWindow(p.seq),
         UNCHANGED <<restlen, rcbSeq, frame, cache, toReceiver>>,
         rCache' = CacheAdd(p),
         UNCHANGED <<rSf, rLeft, rBuf, endFlag, endSeq>>
  PROVE  ReceiverInv'
<1>t. /\ rSf \in Nat /\ rLeft \in Nat /\ rCache \in [0..(RWindow - 1) -> Packet]
      /\ toReceiver \subseteq Packet
  BY DEF TypeInv, TypeOK, ReceiverTypeOK, NetTypeOK
<1>1. p.seq \in Nat /\ RSlot(p.seq) \in 0..(RWindow - 1)
  BY <1>t, SlotRange DEF Packet
<1>2. \A i \in 0..(RWindow - 1) :
        rCache'[i] = IF i = RSlot(p.seq) THEN p ELSE rCache[i]
  BY <1>t, <1>1 DEF CacheAdd
<1>3. rLeft = rSf /\ p.seq >= rSf /\ p.seq < rSf + RWindow
  BY <1>t, <1>1 DEF IsData, InWindow, rRight, ReceiverInv, KeptInv
<1>4. TrueFrame(p)
  BY DEF IsData, ReceiverInv, FramesInv
<1>5. CutInv'
  BY DEF ReceiverInv, CutInv
<1>6. FramesInv'
  BY <1>2, <1>4 DEF ReceiverInv, FramesInv
<1>7. KeptInv'
  BY <1>2, <1>3 DEF IsData, ReceiverInv, KeptInv
<1>8. EndInv' /\ DeliveredPrefix'
  BY DEF ReceiverInv, EndInv, DeliveredPrefix
<1> QED
  BY <1>5, <1>6, <1>7, <1>8 DEF ReceiverInv

\* The frame wanted and those kept behind it, n together, are copied to buf.
LEMMA ReceiverInvCopied ==
  ASSUME TypeInv, ReceiverInv, NEW p \in toReceiver, IsData(p), p.seq = rSf,
         UNCHANGED <<restlen, rcbSeq, frame, cache, toReceiver, endFlag, endSeq>>,
         NEW n \in 1..RWindow,
         \A m \in 1..(n - 1) : ~CopyStops(CacheAdd(p), m),
         rBuf' = rBuf \o [i \in 1..n |-> CacheAdd(p)[RSlot(rSf + i - 1)].data],
         rCache' = CacheDe(CacheAdd(p), n),
         rSf' = rSf + n,
         rLeft' = IF rSf + n = endSeq THEN rLeft + n - 1 ELSE rLeft + n,
         rPc' \in {"listen", "recv"} => ~(endFlag /\ rSf + n >= endSeq)
  PROVE  ReceiverInv'
<1>t. /\ rSf \in Nat /\ rLeft \in Nat /\ endSeq \in Nat
      /\ rCache \in [0..(RWindow - 1) -> Packet]
  BY DEF TypeInv, TypeOK, ReceiverTypeOK
<1>4. \A j \in 0..(n - 1) : CacheAdd(p)[RSlot(rSf + j)].data = FrameOf(rSf + j).data
  BY CopiedRun
<1>5. ASSUME NEW i \in 0..(RWindow - 1), rCache'[i].type = "DATA"
      PROVE  /\ rCache'[i] = rCache[i]
             /\ rCache[i].seq >= rSf + n
             /\ rCache[i].seq < rSf + n + RWindow
             /\ RSlot(rCache[i].seq) = i
  <2>1. CacheDe(CacheAdd(p), n)[i].type = "DATA"
    BY <1>5
  <2>2. /\ CacheDe(CacheAdd(p), n)[i] = rCache[i]
        /\ rCache[i].seq >= rSf + n
        /\ rCache[i].seq < rSf + n + RWindow
        /\ RSlot(rCache[i].seq) = i
    BY <2>1, KeptRun, Zenon
  <2> QED
    BY <2>2
<1>6. CutInv'
  BY DEF ReceiverInv, CutInv
<1>7. FramesInv'
  <2>1. \A i \in 0..(RWindow - 1) : TrueFrame(rCache'[i])
    BY <1>5 DEF ReceiverInv, FramesInv, TrueFrame
  <2> QED
    BY <2>1 DEF ReceiverInv, FramesInv
<1>8. KeptInv'
  <2> SUFFICES ASSUME rPc' \in {"listen", "recv"} PROVE rLeft' = rSf'
    BY <1>5 DEF KeptInv
  <2>1. ~(endFlag /\ rSf + n >= endSeq)
    OBVIOUS
  <2>2. rSf + n # endSeq
    BY <1>t, <2>1 DEF ReceiverInv, EndInv
  <2>3. rLeft = rSf
    BY DEF IsData, ReceiverInv, KeptInv
  <2> QED
    BY <1>t, <2>2, <2>3
<1>9. EndInv'
  BY DEF ReceiverInv, EndInv
<1>10. DeliveredPrefix'
  <2> DEFINE run == [i \in 1..n |-> CacheAdd(p)[RSlot(rSf + i - 1)].data]
             whole == [k \in 1..(rSf + n) |-> FrameOf(k - 1).data]
  <2>1. \A i \in 1..n : run[i] = FrameOf(rSf + i - 1).data
    <3> SUFFICES ASSUME NEW i \in 1..n PROVE run[i] = FrameOf(rSf + i - 1).data
      OBVIOUS
    <3>1. i - 1 \in 0..(n - 1) /\ rSf + (i - 1) = rSf + i - 1
      BY <1>t
    <3> QED
      BY <1>4, <3>1
  <2>2. rBuf = [k \in 1..rSf |-> FrameOf(k - 1).data]
    BY DEF ReceiverInv, DeliveredPrefix
  <2>3. rBuf \o run = whole
    <3> DEFINE f == [k \in Nat |-> FrameOf(k).data]
    <3>1. rBuf = [k \in 1..rSf |-> f[k - 1]]
      BY <1>t, <2>2
    <3>2. run = [k \in 1..n |-> f[rSf + k - 1]]
      <4>1. \A i \in 1..n : rSf + i - 1 \in Nat
        BY <1>t
      <4>2. \A i \in 1..n : f[rSf + i - 1] = FrameOf(rSf + i - 1).data
        BY <4>1
      <4> QED
        BY <2>1, <4>2
    <3>3. whole = [k \in 1..(rSf + n) |-> f[k - 1]]
      BY <1>t
    <3> HIDE DEF f, run, whole
    <3> QED
      BY <1>t, <3>1, <3>2, <3>3, AppendRun
  <2> QED
    BY <2>3 DEF DeliveredPrefix
<1> QED
  BY <1>6, <1>7, <1>8, <1>9, <1>10 DEF ReceiverInv

LEMMA ReceiverInvNext ==
  ASSUME TypeInv, ReceiverInv, NEW p \in toReceiver, ReceiveNext(p),
         UNCHANGED <<restlen, rcbSeq, frame, cache, toReceiver>>
  PROVE  ReceiverInv'
<1>1. PICK n \in 1..RWindow :
         /\ \A m \in 1..(n - 1) : ~CopyStops(CacheAdd(p), m)
         /\ rBuf' = rBuf \o [i \in 1..n |-> CacheAdd(p)[RSlot(rSf + i - 1)].data]
         /\ rCache' = CacheDe(CacheAdd(p), n)
         /\ rSf' = rSf + n
         /\ rLeft' = IF rSf + n = endSeq THEN rLeft + n - 1 ELSE rLeft + n
         /\ Accepted(p, rSf + n)
  BY DEF ReceiveNext
<1>2. IsData(p) /\ p.seq = rSf /\ endFlag' = endFlag /\ endSeq' = endSeq
  BY DEF ReceiveNext
<1>3. rPc' \in {"listen", "recv"} => ~(endFlag /\ rSf + n >= endSeq)
  BY <1>1 DEF Accepted
<1> QED
  BY <1>1, <1>2, <1>3, ReceiverInvCopied

LEMMA ReceiverInvReceiver == TypeInv /\ ReceiverInv /\ Receiver => ReceiverInv'
<1> SUFFICES ASSUME TypeInv, ReceiverInv, Receiver PROVE ReceiverInv'
  OBVIOUS
<1>u. UNCHANGED <<restlen, rcbSeq, frame, cache, toReceiver>>
  BY DEF Receiver, senderVars, mainVars
<1>t. /\ rSf \in Nat /\ rLeft \in Nat /\ endSeq \in Nat
      /\ rCache \in [0..(RWindow - 1) -> Packet] /\ toReceiver \subseteq Packet
  BY DEF TypeInv, TypeOK, ReceiverTypeOK, NetTypeOK
<1>c. CutInv'
  BY <1>u DEF ReceiverInv, CutInv
<1>q. ASSUME UNCHANGED <<rSf, rLeft, rCache, rBuf>>, EndInv',
             rPc' \in {"listen", "recv"} => rPc \in {"listen", "recv"}
      PROVE  ReceiverInv'
  <2>1. FramesInv' /\ DeliveredPrefix'
    BY <1>u, <1>q DEF ReceiverInv, FramesInv, DeliveredPrefix
  <2>2. KeptInv'
    BY <1>q DEF ReceiverInv, KeptInv
  <2> QED
    BY <1>c, <1>q, <2>1, <2>2 DEF ReceiverInv
<1>1. CASE WriteFile
  BY <1>1, <1>q DEF WriteFile, ReceiverInv, EndInv
<1>2. ASSUME NEW p \in toReceiver, Receive(p)
      PROVE  ReceiverInv'
  <2>1. CASE Listen(p)
    BY <2>1, <1>q DEF Listen, ReceiverInv, EndInv
  <2>2. CASE Drop(p)
    BY <2>2, <1>q DEF Drop, receiverVars, ReceiverInv, EndInv
  <2>3. CASE ReceiveEnd(p)
    BY <2>3, <1>q DEF ReceiveEnd, EndInv
  <2>4. CASE ReceiveOutside(p)
    BY <2>4, <1>q DEF ReceiveOutside, receiverVars, ReceiverInv, EndInv
  <2>5. CASE ReceiveEarly(p)
    BY <2>5, <1>u, ReceiverInvKept DEF ReceiveEarly
  <2>6. CASE ReceiveNext(p)
    BY <2>6, <1>u, ReceiverInvNext
  <2> QED
    BY <1>2, <2>1, <2>2, <2>3, <2>4, <2>5, <2>6 DEF Receive
<1> QED
  BY <1>1, <1>2 DEF Receiver, ReceiverStep

\* What the receiver hands over is always a prefix of the message, chunk by
\* chunk in order and without repetition, for every message, frame size and
\* pair of window sizes, and for any loss, duplication, reordering or damage of
\* packets (that the checksum detects).
THEOREM ReceiverInvariant == Spec => []ReceiverInv
<1>1. TypeInv /\ ReceiverInv /\ [Next]_vars => ReceiverInv'
  BY ReceiverInvMain, ReceiverInvThread, ReceiverInvReceiver, ReceiverInvChannel,
     ReceiverInvStutter DEF Next
<1> QED
  BY <1>1, ReceiverInvInit, TypeInvariant, PTL DEF Spec

THEOREM InOrderDelivery == Spec => []DeliveredPrefix
<1>1. ReceiverInv => DeliveredPrefix
  BY DEF ReceiverInv
<1> QED
  BY <1>1, ReceiverInvariant, PTL
-----------------------------------------------------------------------------
(* The delivering half of a reliable transfer: nothing beyond the message.  *)

LEMMA NumbersInit == Init => NumbersInv
<1> SUFFICES ASSUME Init PROVE NumbersInv
  OBVIOUS
<1>1. \A n : Numbered(Control("START", n))
  BY DEF Numbered, Control
<1>2. rSf <= NumFrames
  BY LastFrame DEF Init, ReceiverInit
<1> QED
  BY <1>1, <1>2
  DEF Init, NetInit, SenderInit, RcbInit, WindowInit, ReceiverInit, NumbersInv,
      EmptySlot, EmptyRSlot

\* A step of the sender or of the channel that builds no new frame.
LEMMA NumbersSent ==
  ASSUME NumbersInv, UNCHANGED receiverVars, UNCHANGED frame,
         \A i \in 0..(SWindow - 1) : cache'[i] # cache[i] => Numbered(cache'[i]),
         \A p \in toReceiver' : p \notin toReceiver /\ p.ok => Numbered(p)
  PROVE  NumbersInv'
BY DEF NumbersInv, Numbered, receiverVars

LEMMA NumbersMain == TypeInv /\ ReceiverInv /\ NumbersInv /\ Main => NumbersInv'
<1> SUFFICES ASSUME TypeInv, ReceiverInv, NumbersInv, Main PROVE NumbersInv'
  OBVIOUS
<1>u. UNCHANGED receiverVars
  BY DEF Main
<1>t. /\ restlen \in 0..MsgLen /\ rcbSeq \in Nat /\ frame \in Packet
      /\ cache \in [0..(SWindow - 1) -> Packet]
  BY DEF TypeInv, TypeOK, SenderTypeOK
<1> USE DEF SendToReceiver, Control
<1>1. CASE SendStart \/ ConnectTimeout \/ AbortEnd \/ EndTimeout
  BY <1>1, <1>u, NumbersSent
  DEF SendStart, ConnectTimeout, GiveUp, AbortEnd, EndTimeout, Numbered
<1>2. CASE CacheFrame
  <2>1. /\ restlen > 0 /\ frame' = Data2Frame(restlen, rcbSeq)
        /\ toReceiver' = toReceiver
        /\ cache' = [cache EXCEPT ![Slot(rcbSeq)] = [frame' EXCEPT !.ok = FALSE]]
    BY <1>2 DEF CacheFrame
  <2>2. frame'.type = "DATA" /\ frame'.seq = rcbSeq
    BY <2>1 DEF Data2Frame
  <2>3. rcbSeq * DataSize < MsgLen
    <3>1. MsgLen - restlen = rcbSeq * DataSize /\ rcbSeq * DataSize \in Nat
      BY <1>t, <2>1 DEF ReceiverInv, CutInv
    <3> QED
      BY <1>t, <2>1, <3>1
  <2>4. rcbSeq < NumFrames
    BY <1>t, <2>3, FrameOfMessage
  <2>5. Numbered(frame') /\ Numbered([frame' EXCEPT !.ok = FALSE])
    BY <2>1, <2>2, <2>4 DEF Numbered, Data2Frame
  <2>6. \A i \in 0..(SWindow - 1) : Numbered(cache'[i])
    BY <1>t, <2>1, <2>5 DEF NumbersInv
  <2> QED
    BY <1>u, <2>1, <2>5, <2>6 DEF NumbersInv, Numbered, receiverVars
<1>3. CASE FrameCached
  <2>1. /\ cache' = [cache EXCEPT ![Slot(rcbSeq - 1)] = frame]
        /\ toReceiver' = toReceiver /\ frame' = frame
    BY <1>3 DEF FrameCached
  <2>2. \A i \in 0..(SWindow - 1) : Numbered(cache'[i])
    BY <1>t, <2>1 DEF NumbersInv
  <2> QED
    BY <1>u, <2>1, <2>2, NumbersSent
<1>4. CASE Transmit
  <2>1. Numbered(FirstSending(frame))
    BY <1>t DEF FirstSending, Packet, NumbersInv, Numbered
  <2>2. toReceiver' = toReceiver \cup {FirstSending(frame)}
        /\ UNCHANGED <<frame, cache>>
    BY <1>4 DEF Transmit
  <2> QED
    BY <1>u, <2>1, <2>2, NumbersSent
<1>5. CASE Finish \/ FinishEmpty
  BY <1>5, <1>u, NumbersSent DEF Finish, FinishEmpty, SendEnd, Numbered
<1>6. ASSUME NEW p \in toSender, ConnectReceive(p) \/ EndReceive(p)
      PROVE  NumbersInv'
  BY <1>6, <1>u, NumbersSent DEF ConnectReceive, GiveUp, EndReceive, Numbered
<1> QED
  BY <1>1, <1>2, <1>3, <1>4, <1>5, <1>6 DEF Main, MainStep

LEMMA NumbersThread == TypeInv /\ NumbersInv /\ Thread => NumbersInv'
<1> SUFFICES ASSUME TypeInv, NumbersInv, Thread PROVE NumbersInv'
  OBVIOUS
<1>u. UNCHANGED receiverVars
  BY DEF Thread
<1>t. cache \in [0..(SWindow - 1) -> Packet] /\ Sf \in Nat
  BY DEF TypeInv, TypeOK, SenderTypeOK
<1>1. CASE Timeout \/ Slide
  BY <1>1, <1>u, NumbersSent DEF Timeout, Slide, mainVars
<1>2. CASE Resend
  <2>1. Numbered(cache[Slot(Sf)])
    BY <1>t, SlotRange DEF NumbersInv
  <2> QED
    BY <1>2, <1>u, <2>1, NumbersSent DEF Resend, SendToReceiver, mainVars
<1>3. ASSUME NEW p \in toSender, AckNew(p)
      PROVE  NumbersInv'
  <2>1. Numbered(EmptySlot)
    BY DEF Numbered, EmptySlot, Control
  <2> QED
    BY <1>3, <1>t, <1>u, <2>1, NumbersSent DEF AckNew, mainVars
<1>4. ASSUME NEW p \in toSender, AckOther(p)
      PROVE  NumbersInv'
  BY <1>4, <1>u, NumbersSent DEF AckOther, mainVars
<1> QED
  BY <1>1, <1>2, <1>3, <1>4 DEF Thread, ThreadStep

LEMMA NumbersChannel == TypeInv /\ NumbersInv /\ Channel => NumbersInv'
<1> SUFFICES ASSUME TypeInv, NumbersInv, Channel PROVE NumbersInv'
  OBVIOUS
<1>u. UNCHANGED <<receiverVars, frame, cache>>
  BY DEF Channel, senderVars, mainVars
<1>1. \A p \in toReceiver' : p \in toReceiver \/ ~p.ok
  <2>1. CASE Lose
    BY <2>1 DEF Lose
  <2>2. CASE Corrupt
    <3>1. \A p \in toReceiver, type \in PacketTypes, seq \in CorruptSeqs :
            Damaged(p, type, seq).ok = FALSE
      BY DEF Damaged, Packet, TypeInv, TypeOK, NetTypeOK
    <3> QED
      BY <2>2, <3>1 DEF Corrupt, Damaging
  <2> QED
    BY <2>1, <2>2 DEF Channel
<1> QED
  BY <1>u, <1>1, NumbersSent

LEMMA NumbersStutter == NumbersInv /\ UNCHANGED vars => NumbersInv'
BY DEF NumbersInv, vars, netVars, senderVars, mainVars, receiverVars

\* A frame is kept for later.
LEMMA NumbersKept ==
  ASSUME TypeInv, NumbersInv, NEW p \in toReceiver, IsData(p),
         UNCHANGED <<frame, cache, toReceiver, rSf>>, rCache' = CacheAdd(p)
  PROVE  NumbersInv'
<1>1. Numbered(p)
  BY DEF NumbersInv, IsData
<1>2. \A i \in 0..(RWindow - 1) : Numbered(rCache'[i])
  BY <1>1 DEF CacheAdd, NumbersInv, TypeInv, TypeOK, ReceiverTypeOK
<1> QED
  BY <1>2 DEF NumbersInv

\* Frames are copied: the last of them is one of the message's.
LEMMA NumbersCopied ==
  ASSUME TypeInv, ReceiverInv, NumbersInv, NEW p \in toReceiver, IsData(p), p.seq = rSf,
         NEW n \in 1..RWindow,
         \A m \in 1..(n - 1) : ~CopyStops(CacheAdd(p), m),
         UNCHANGED <<frame, cache, toReceiver>>,
         rCache' = CacheDe(CacheAdd(p), n), rSf' = rSf + n
  PROVE  NumbersInv'
<1>t. rSf \in Nat /\ NumFrames \in Nat /\ rCache \in [0..(RWindow - 1) -> Packet]
  BY LastFrame DEF TypeInv, TypeOK, ReceiverTypeOK
<1>1. ASSUME NEW i \in 0..(RWindow - 1)
      PROVE  Numbered(rCache'[i])
  <2>1. CASE CacheDe(CacheAdd(p), n)[i].type = "DATA"
    <3>1. CacheDe(CacheAdd(p), n)[i] = rCache[i]
      BY <2>1, KeptRun, Zenon
    <3> QED
      BY <3>1 DEF NumbersInv
  <2>2. CASE CacheDe(CacheAdd(p), n)[i].type # "DATA"
    BY <2>2 DEF Numbered
  <2> QED
    BY <2>1, <2>2
<1>2. rSf + n <= NumFrames
  <2>1. CASE n = 1
    <3>1. p.seq < NumFrames
      BY DEF IsData, NumbersInv, Numbered
    <3> QED
      BY <1>t, <2>1, <3>1
  <2>2. CASE n > 1
    <3>1. n - 1 \in 0..(n - 1) /\ n - 1 > 0
      BY <2>2
    <3>2. /\ rCache[RSlot(rSf + (n - 1))].type = "DATA"
          /\ rCache[RSlot(rSf + (n - 1))].seq = rSf + (n - 1)
      BY <3>1, CopiedRun
    <3>3. RSlot(rSf + (n - 1)) \in 0..(RWindow - 1)
      <4>1. rSf + (n - 1) \in Nat
        BY <1>t, <2>2
      <4> QED
        BY <4>1, SlotRange
    <3>4. rSf + (n - 1) < NumFrames
      BY <3>2, <3>3 DEF NumbersInv, Numbered
    <3> QED
      BY <1>t, <3>4
  <2> QED
    BY <2>1, <2>2
<1> QED
  BY <1>1, <1>2 DEF NumbersInv

LEMMA NumbersReceiver == TypeInv /\ ReceiverInv /\ NumbersInv /\ Receiver => NumbersInv'
<1> SUFFICES ASSUME TypeInv, ReceiverInv, NumbersInv, Receiver PROVE NumbersInv'
  OBVIOUS
<1>u. UNCHANGED <<frame, cache, toReceiver>>
  BY DEF Receiver, senderVars, mainVars
<1>q. UNCHANGED <<rSf, rCache>> => NumbersInv'
  BY <1>u DEF NumbersInv
<1>1. CASE WriteFile
  BY <1>1, <1>q DEF WriteFile
<1>2. ASSUME NEW p \in toReceiver, Receive(p)
      PROVE  NumbersInv'
  <2>1. CASE Listen(p) \/ Drop(p) \/ ReceiveEnd(p) \/ ReceiveOutside(p)
    BY <2>1, <1>q DEF Listen, Drop, ReceiveEnd, ReceiveOutside, receiverVars
  <2>2. CASE ReceiveEarly(p)
    BY <2>2, <1>u, NumbersKept DEF ReceiveEarly
  <2>3. CASE ReceiveNext(p)
    BY <2>3, <1>u, NumbersCopied DEF ReceiveNext
  <2> QED
    BY <1>2, <2>1, <2>2, <2>3 DEF Receive
<1> QED
  BY <1>1, <1>2 DEF Receiver, ReceiverStep

\* What makes a step one of the abstract transfer: what is delivered is a prefix
\* of the message before and after it, and not shorter.
LEMMA DeliveryStep ==
  ASSUME TypeInv, DeliveredPrefix, DeliveredPrefix', rSf' \in Nat,
         rSf' >= rSf, rSf' <= NumFrames
  PROVE  [Delivery!Next]_Delivery!vars
<1> DEFINE Message == [k \in 1..NumFrames |-> FrameOf(k - 1).data]
<1>t. rSf \in Nat /\ NumFrames \in Nat
  BY LastFrame DEF TypeInv, TypeOK, ReceiverTypeOK
<1>1. /\ rBuf = [k \in 1..rSf |-> FrameOf(k - 1).data]
      /\ rBuf' = [k \in 1..rSf' |-> FrameOf(k - 1).data]
  BY DEF DeliveredPrefix
<1>2. CASE rSf' = rSf
  BY <1>1, <1>2 DEF Delivery!vars
<1>3. CASE rSf' > rSf
  <2>1. Len(rBuf) = rSf /\ Len(Message) = NumFrames
    BY <1>t, <1>1
  <2>2. rBuf' = SubSeq(Message, 1, rSf')
    BY <1>t, <1>1
  <2>3. rSf' \in (Len(rBuf) + 1)..Len(Message)
    BY <1>t, <1>3, <2>1
  <2>4. Delivery!Deliver
    BY <2>2, <2>3 DEF Delivery!Deliver
  <2> QED
    BY <2>4 DEF Delivery!Next
<1> QED
  BY <1>t, <1>2, <1>3

\* The receiver's number never goes back.
LEMMA ReceiverForward ==
  ASSUME TypeInv, Receiver
  PROVE  rSf' >= rSf
<1>t. rSf \in Nat
  BY DEF TypeInv, TypeOK, ReceiverTypeOK
<1>1. CASE WriteFile
  BY <1>1, <1>t DEF WriteFile
<1>2. ASSUME NEW p \in toReceiver, Receive(p)
      PROVE  rSf' >= rSf
  <2>1. CASE ReceiveNext(p)
    BY <2>1, <1>t DEF ReceiveNext
  <2>2. CASE ~ReceiveNext(p)
    BY <1>2, <2>2, <1>t
    DEF Receive, Listen, Drop, ReceiveEnd, ReceiveOutside, ReceiveEarly, receiverVars
  <2> QED
    BY <2>1, <2>2
<1> QED
  BY <1>1, <1>2 DEF Receiver, ReceiverStep

LEMMA DeliveryInit == Init => Delivery!Init
BY DEF Init, ReceiverInit, Delivery!Init

\* The numbers stay within the message.
LEMMA NumbersInvariant == Spec => []NumbersInv
<1>1. TypeInv /\ ReceiverInv /\ NumbersInv /\ [Next]_vars => NumbersInv'
  BY NumbersMain, NumbersThread, NumbersReceiver, NumbersChannel, NumbersStutter
  DEF Next
<1> QED
  BY <1>1, NumbersInit, TypeInvariant, ReceiverInvariant, PTL DEF Spec

\* For every message, frame size and pair of windows, and whatever the channel
\* loses, repeats, reorders or damages, what the receiver hands over grows along
\* the message, chunk after chunk, and never beyond its end: the delivering half of
\* the abstract transfer does not lean on the sender, which damaged ACKs mislead.
THEOREM DeliversMessage == Spec => DeliverySpec
<1>1. ASSUME TypeInv, ReceiverInv, TypeInv', ReceiverInv', NumbersInv', [Next]_vars
      PROVE  [Delivery!Next]_Delivery!vars
  <2>1. rSf \in Nat /\ rSf' \in Nat
    BY <1>1 DEF TypeInv, TypeOK, ReceiverTypeOK
  <2>2. rSf' >= rSf
    <3>1. CASE Receiver
      BY <1>1, <3>1, ReceiverForward
    <3>2. CASE ~Receiver
      BY <1>1, <2>1, <3>2 DEF Next, Main, Thread, Channel, vars, receiverVars
    <3> QED
      BY <3>1, <3>2
  <2>3. rSf' <= NumFrames
    BY <1>1 DEF NumbersInv, NumFrames
  <2> QED
    BY <1>1, <2>1, <2>2, <2>3, DeliveryStep DEF ReceiverInv
<1> QED
  BY <1>1, DeliveryInit, NumbersInvariant, TypeInvariant, ReceiverInvariant, PTL
  DEF Spec, DeliverySpec, Delivery!Spec

-----------------------------------------------------------------------------
(* How far the main thread is ahead of mythread, in both kinds of sender.  *)

\* The main thread is never more than a window ahead of Sf, it runs out of bytes
\* after the last frame and not before, and mythread ends when Sf has reached
\* EndSeqnum.
PaceInv ==
  /\ right = Sf + SWindow - 1
  /\ rcbSeq = IF mainPc \in {"caching", "transmit"} THEN Sn + 1 ELSE Sn
  /\ rcbSeq <= Sf + SWindow
  /\ rcbSeq <= NumFrames
  /\ restlen = 0 => rcbSeq * DataSize >= MsgLen
  /\ ackPc = "notCreated" <=> Sn = 0
  /\ ackPc # "returned" => Sf < EndSeqnum

\* What is left when a frame is cut off is part of the message.
LEMMA FrameNumbered ==
  ASSUME TypeInv, CutInv, restlen > 0
  PROVE  rcbSeq + 1 <= NumFrames
<1>t. rcbSeq \in Nat /\ restlen \in 0..MsgLen
  BY DEF TypeInv, TypeOK, SenderTypeOK
<1>1. rcbSeq * DataSize < MsgLen
  BY <1>t DEF CutInv
<1>2. \A n \in Nat : n = rcbSeq + 1 => n > 0 /\ n - 1 = rcbSeq
  BY <1>t
<1>3. \A n \in Nat : n = rcbSeq + 1 => n <= NumFrames
  BY <1>1, <1>2, NumFramesBounds
<1> QED
  BY <1>t, <1>3

LEMMA PaceInit == Init => PaceInv
<1>1. EndSeqnum > 0
  BY NumFramesBounds, LastFrame DEF EndSeqnum
<1>2. NumFrames \in Nat
  BY LastFrame
<1> QED
  BY <1>1, <1>2 DEF Init, SenderInit, RcbInit, WindowInit, PaceInv

LEMMA PaceMain == TypeInv /\ CutInv /\ PaceInv /\ Main => PaceInv'
<1> SUFFICES ASSUME TypeInv, CutInv, PaceInv, Main PROVE PaceInv'
  OBVIOUS
<1>t. rcbSeq \in Nat /\ Sn \in Nat /\ Sf \in Nat /\ right \in Nat /\ restlen \in 0..MsgLen
  BY DEF TypeInv, TypeOK, SenderTypeOK
<1> DEFINE Still == UNCHANGED <<restlen, rcbSeq, Sn, Sf, right>>
\* Nothing is cached or sent.
<1>q. ASSUME Still, mainPc \notin {"caching", "transmit"},
             mainPc' \notin {"caching", "transmit"}, ackPc' = ackPc
      PROVE  PaceInv'
  BY <1>q DEF PaceInv
<1>1. CASE CacheFrame
  <2>1. /\ mainPc = "send" /\ Sn <= right /\ restlen > 0
        /\ restlen' = RestAfter(restlen) /\ rcbSeq' = rcbSeq + 1
        /\ mainPc' = "caching" /\ UNCHANGED <<Sn, ackPc, Sf, right>>
    BY <1>1 DEF CacheFrame, WindowOpen, threadVars
  <2>2. rcbSeq' <= Sf' + SWindow
    BY <1>t, <2>1 DEF PaceInv
  <2>3. restlen' = 0 => rcbSeq' * DataSize >= MsgLen
    <3>1. MsgLen - restlen = rcbSeq * DataSize
      BY <2>1 DEF CutInv
    <3>2. (rcbSeq + 1) * DataSize = rcbSeq * DataSize + DataSize
          /\ rcbSeq * DataSize \in Nat
      BY <1>t
    <3> QED
      BY <1>t, <2>1, <3>1, <3>2 DEF RestAfter
  <2>4. rcbSeq' <= NumFrames
    BY <1>t, <2>1, FrameNumbered
  <2> QED
    BY <1>t, <2>1, <2>2, <2>3, <2>4 DEF PaceInv
<1>2. CASE FrameCached
  BY <1>2 DEF FrameCached, PaceInv, threadVars
<1>3. CASE Transmit
  BY <1>3, <1>t DEF Transmit, PaceInv
<1>4. CASE \/ SendStart \/ ConnectTimeout \/ AbortEnd \/ Finish \/ FinishEmpty \/ EndTimeout
           \/ \E p \in toSender : ConnectReceive(p) \/ EndReceive(p)
  BY <1>4, <1>q DEF SendStart, ConnectTimeout, AbortEnd, Finish, FinishEmpty, EndTimeout,
     ConnectReceive, EndReceive, GiveUp, SendEnd, threadVars
<1> QED
  BY <1>1, <1>2, <1>3, <1>4 DEF Main, MainStep

\* The window slides as far as Sf does.
LEMMA PaceSlide ==
  ASSUME TypeInv, PaceInv, Slide
  PROVE  PaceInv'
<1>t. /\ rcbSeq \in Nat /\ Sf \in Nat /\ ackSeq \in Nat /\ right \in Nat
      /\ (ackPc = "slide" => ackSeq >= Sf)
  BY DEF TypeInv, TypeOK, SenderTypeOK
<1>1. EndSeqnum \in Nat
  BY DEF EndSeqnum
<1>2. /\ ackPc = "slide" /\ Sf' = ackSeq /\ right' = right + (ackSeq - Sf)
      /\ ackPc' = IF ackSeq >= EndSeqnum THEN "returned" ELSE "select"
      /\ UNCHANGED <<mainPc, restlen, rcbSeq, Sn>>
  BY DEF Slide, mainVars
<1> QED
  BY <1>t, <1>1, <1>2 DEF PaceInv

\* Any other step leaves what PaceInv is about alone.
LEMMA PaceKept ==
  ASSUME PaceInv, UNCHANGED <<mainPc, restlen, rcbSeq, Sn, Sf, right>>,
         ackPc' = "notCreated" <=> ackPc = "notCreated",
         ackPc' # "returned" => ackPc # "returned"
  PROVE  PaceInv'
BY DEF PaceInv

\* When DATASIZE does not divide the length of the message, mythread waits for no
\* more frames than it takes to carry it.
LEMMA EndReached ==
  ASSUME MsgLen % DataSize # 0, NEW n \in Nat, n * DataSize >= MsgLen
  PROVE  n >= EndSeqnum
<1> DEFINE q == MsgLen \div DataSize
           r == MsgLen % DataSize
<1>1. q \in Nat /\ r \in 1..(DataSize - 1) /\ MsgLen = DataSize * q + r
  OBVIOUS
<1> HIDE DEF q, r
<1>2. EndSeqnum = q + 1
  BY DEF EndSeqnum, q
<1>3. n <= q => n * DataSize <= q * DataSize
  BY <1>1, TimesMonotonic
<1>4. q * DataSize = DataSize * q
  BY <1>1
<1> QED
  BY <1>1, <1>2, <1>3, <1>4

\* The main thread cannot wait as long as it has not built frame Sf.
LEMMA MainBehind ==
  ASSUME MsgLen % DataSize # 0, TypeInv, PaceInv, ackPc # "returned", MainWaits
  PROVE  Sf < rcbSeq
<1>t. rcbSeq \in Nat /\ Sn \in Nat /\ Sf \in Nat /\ EndSeqnum \in Nat
  BY DEF TypeInv, TypeOK, SenderTypeOK, EndSeqnum
<1>1. mainPc = "send" /\ rcbSeq = Sn /\ right = Sf + SWindow - 1 /\ Sf < EndSeqnum
  BY DEF MainWaits, PaceInv
<1>2. CASE ~WindowOpen
  BY <1>t, <1>1, <1>2 DEF WindowOpen
<1>3. CASE restlen = 0
  <2>1. rcbSeq * DataSize >= MsgLen
    BY <1>3 DEF PaceInv
  <2>2. rcbSeq >= EndSeqnum
    BY <1>t, <2>1, EndReached
  <2> QED
    BY <1>t, <1>1, <2>2
<1> QED
  BY <1>2, <1>3 DEF MainWaits
=============================================================================
