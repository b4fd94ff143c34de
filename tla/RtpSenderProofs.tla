---------------------------- MODULE RtpSenderProofs ---------------------------
(***************************************************************************)
(* As long as no damaged packet deceives the programs, the sender never    *)
(* loses a frame the receiver still misses, and it ends only when          *)
(* everything is delivered: SenderInv is inductive.                        *)
(***************************************************************************)
EXTENDS RtpPrefixProofs

USE NetworkAssumption, MessageAssumption, SWindowAssumption, RWindowAssumption

-----------------------------------------------------------------------------
(* Arithmetic of the frame numbers.                                        *)

\* EndSeqnum is at least the number of frames, and that many frames would be
\* more than the message.
LEMMA EndSeqnumBounds ==
  /\ EndSeqnum \in Nat
  /\ EndSeqnum * DataSize > MsgLen
  /\ \A n \in Nat : n > 0 /\ (n - 1) * DataSize < MsgLen => n <= EndSeqnum
<1> DEFINE q == MsgLen \div DataSize
           r == MsgLen % DataSize
<1>1. q \in Nat /\ r \in 0..(DataSize - 1) /\ MsgLen = DataSize * q + r
  OBVIOUS
<1> HIDE DEF q, r
<1>2. EndSeqnum = q + 1
  BY DEF EndSeqnum, q
<1>3. EndSeqnum * DataSize = DataSize * q + DataSize
  BY <1>1, <1>2
<1>4. ASSUME NEW n \in Nat, n > EndSeqnum
      PROVE  (n - 1) * DataSize >= MsgLen
  <2>1. EndSeqnum <= n - 1 /\ n - 1 \in Int /\ EndSeqnum \in Int
    BY <1>1, <1>2, <1>4
  <2>2. EndSeqnum * DataSize <= (n - 1) * DataSize
    BY <2>1, TimesMonotonic
  <2> QED
    BY <1>1, <1>2, <1>3, <2>1, <2>2
<1> QED
  BY <1>1, <1>2, <1>3, <1>4

-----------------------------------------------------------------------------

LEMMA SenderInvInit == Init => SenderInv
<1> SUFFICES ASSUME Init PROVE SenderInv
  OBVIOUS
<1> USE DEF Init, NetInit, SenderInit, RcbInit, WindowInit, ReceiverInit
<1>1. HandshakeInv
  BY DEF HandshakeInv, BeforeConnection, Trusted
<1>2. WindowInv
  BY DEF Cached, WindowInv, EmptyRSlot, Control
<1>3. CacheInv
  BY DEF CacheInv, Oldest, EmptySlot, Control
<1>4. EndingInv
  BY DEF EndingInv, EndNeverEarly
<1> QED
  BY <1>1, <1>2, <1>3, <1>4 DEF SenderInv

-----------------------------------------------------------------------------
(* The main thread.                                                        *)

\* A step that neither cuts nor caches and sends no frame leaves the windows
\* and the cache as they are.
LEMMA QuietMain ==
  ASSUME SenderInv,
         UNCHANGED <<receiverVars, toSender, corrupted, restlen, rcbSeq, frame, Sn,
                     threadVars, cache>>,
         mainPc \notin {"caching", "transmit"}, mainPc' \notin {"caching", "transmit"},
         HandshakeInv',
         \A p \in toReceiver' :
           p \notin toReceiver => p.type # "DATA" /\ (p.type = "END" => p.seq <= rSf)
  PROVE  SenderInv'
<1> USE DEF receiverVars, threadVars
<1>1. WindowInv'
  BY DEF SenderInv, Cached, WindowInv, Trusted
<1>2. CacheInv'
  BY DEF SenderInv, CacheInv, Oldest
<1>3. EndingInv'
  BY DEF SenderInv, EndingInv, EndNeverEarly
<1> QED
  BY <1>1, <1>2, <1>3 DEF SenderInv

\* The new frame: the slot it takes is not one of a frame still needed.
LEMMA SenderInvCacheFrame ==
  ASSUME TypeInv, ReceiverInv, SenderInv, CacheFrame,
         UNCHANGED <<receiverVars, toSender, corrupted>>
  PROVE  SenderInv'
<1>t. /\ restlen \in 0..MsgLen /\ rcbSeq \in Nat /\ Sn \in Nat /\ Sf \in Nat
      /\ ackSeq \in Nat /\ rSf \in Nat
      /\ cache \in [0..(SWindow - 1) -> Packet]
  BY DEF TypeInv, TypeOK, SenderTypeOK, ReceiverTypeOK
<1>a. /\ mainPc = "send" /\ mainPc' = "caching" /\ restlen > 0
      /\ rcbSeq' = rcbSeq + 1 /\ Sn' = Sn /\ toReceiver' = toReceiver
      /\ UNCHANGED threadVars /\ Sn <= right
  BY <1>t DEF CacheFrame, WindowOpen
<1>b. frame' = FrameOf(rcbSeq)
  BY <1>a, BuiltFrame DEF CacheFrame, ReceiverInv
<1>c. /\ rcbSeq = Sn /\ right = Sf + SWindow - 1 /\ Sf <= rSf /\ rSf <= rcbSeq
      /\ ackPc = "slide" => Sf < ackSeq /\ ackSeq <= rSf
  BY <1>a DEF SenderInv, HandshakeInv, Cached, WindowInv, Trusted
<1>x. Cached = rcbSeq /\ Cached' = rcbSeq
  BY <1>a, <1>t DEF Cached
<1>d. rcbSeq < Sf + SWindow
  BY <1>a, <1>c, <1>t
<1>e. Oldest' = Oldest /\ Oldest \in Nat /\ Sf <= Oldest /\ Oldest <= rcbSeq
  BY <1>a, <1>c, <1>t DEF Oldest, threadVars
<1>s. Slot(rcbSeq) \in 0..(SWindow - 1)
  BY <1>t, SlotRange
<1>1. HandshakeInv'
  BY <1>a, <1>c, <1>t
  DEF SenderInv, HandshakeInv, BeforeConnection, Trusted, receiverVars, threadVars
<1>2. WindowInv'
  <2>1. rcbSeq' <= Sf + SWindow /\ rSf <= rcbSeq'
    BY <1>a, <1>c, <1>d, <1>t
  <2>2. \A n \in Nat : n < rcbSeq => n < rcbSeq'
    BY <1>a, <1>t
  <2>3. \A p \in toReceiver : p.type = "DATA" /\ Trusted(p) => p.seq < rcbSeq'
    <3> SUFFICES ASSUME NEW p \in toReceiver, p.type = "DATA", Trusted(p)
                 PROVE  p.seq < rcbSeq'
      OBVIOUS
    <3>1. p.seq \in Nat /\ p.seq < rcbSeq
      BY DEF SenderInv, Cached, WindowInv, Trusted, TypeInv, TypeOK, NetTypeOK, Packet
    <3> QED
      BY <3>1, <2>2
  <2> QED
    BY <1>a, <1>x, <2>1, <2>3 DEF SenderInv, WindowInv, Trusted, receiverVars, threadVars
<1>3. CacheInv'
  <2>1. \A i \in 0..(SWindow - 1) :
          cache'[i] = IF i = Slot(rcbSeq) THEN [FrameOf(rcbSeq) EXCEPT !.ok = FALSE]
                                          ELSE cache[i]
    BY <1>b, <1>s, <1>t DEF CacheFrame
  <2>2. ASSUME NEW k \in Oldest..(rcbSeq - 1)
        PROVE  Slot(k) \in 0..(SWindow - 1) /\ Slot(k) # Slot(rcbSeq)
    <3>1. k \in Nat /\ k < rcbSeq /\ rcbSeq < k + SWindow
      BY <1>d, <1>e, <1>t
    <3>2. k % SWindow # rcbSeq % SWindow
      BY <1>t, <3>1, ModDistinct, Zenon
    <3> QED
      BY <3>1, <3>2, SlotRange DEF Slot
  <2>3. ASSUME NEW k \in Oldest..(rcbSeq' - 1)
        PROVE  cache'[Slot(k)] = IF k = rcbSeq' - 1
                                   THEN [FrameOf(k) EXCEPT !.ok = FALSE]
                                   ELSE FrameOf(k)
    <3>1. CASE k = rcbSeq
      <4>1. k = rcbSeq' - 1
        BY <1>a, <1>t, <3>1
      <4>2. cache'[Slot(k)] = [FrameOf(k) EXCEPT !.ok = FALSE]
        BY <1>s, <2>1, <3>1
      <4> QED
        BY <4>1, <4>2
    <3>2. CASE k # rcbSeq
      <4>1. k \in Oldest..(rcbSeq - 1) /\ k # rcbSeq' - 1
        BY <1>a, <1>e, <1>t, <3>2
      <4>2. cache[Slot(k)] = FrameOf(k)
        BY <1>a, <4>1 DEF SenderInv, CacheInv
      <4>3. cache'[Slot(k)] = cache[Slot(k)]
        BY <2>1, <2>2, <4>1
      <4> QED
        BY <4>1, <4>2, <4>3
    <3> QED
      BY <3>1, <3>2
  <2>4. ASSUME NEW i \in 0..(SWindow - 1), cache'[i].type = "DATA"
        PROVE  /\ cache'[i].seq >= Oldest /\ cache'[i].seq < rcbSeq'
               /\ Slot(cache'[i].seq) = i
    <3>1. CASE i = Slot(rcbSeq)
      <4>1. cache'[i].seq = rcbSeq
        BY <2>1, <3>1, <1>t, FrameOfFields DEF FrameOf, Data2Frame
      <4> QED
        BY <3>1, <4>1, <1>a, <1>e, <1>t
    <3>2. CASE i # Slot(rcbSeq)
      <4>1. cache'[i] = cache[i]
        BY <2>1, <3>2
      <4>2. /\ cache[i].seq >= Oldest /\ cache[i].seq < rcbSeq
            /\ Slot(cache[i].seq) = i
        BY <2>4, <4>1 DEF SenderInv, CacheInv
      <4>3. cache[i].seq \in Nat
        BY <1>t DEF Packet
      <4> QED
        BY <1>a, <1>t, <4>1, <4>2, <4>3
    <3> QED
      BY <3>1, <3>2
  <2>5. frame' = FrameOf(rcbSeq' - 1)
    BY <1>a, <1>b, <1>t
  <2> QED
    BY <1>a, <1>e, <2>3, <2>4, <2>5 DEF CacheInv
<1>4. EndingInv'
  <2>1. (rcbSeq' - 1) * DataSize < MsgLen
    <3>1. MsgLen - restlen = rcbSeq * DataSize
      BY <1>a DEF ReceiverInv, CutInv
    <3>2. rcbSeq' - 1 = rcbSeq
      BY <1>a, <1>t
    <3> QED
      BY <1>a, <1>t, <3>1, <3>2
  <2> QED
    BY <1>a, <2>1 DEF SenderInv, EndingInv, EndNeverEarly, threadVars, receiverVars
<1> QED
  BY <1>1, <1>2, <1>3, <1>4 DEF SenderInv

LEMMA SenderInvMain == TypeInv /\ ReceiverInv /\ SenderInv /\ Main => SenderInv'
<1> SUFFICES ASSUME TypeInv, ReceiverInv, SenderInv, Main PROVE SenderInv'
  OBVIOUS
<1>u. UNCHANGED <<receiverVars, toSender, corrupted>> /\ rPc' = rPc /\ rSf' = rSf
  BY DEF Main, receiverVars
<1>t. /\ restlen \in 0..MsgLen /\ rcbSeq \in Nat /\ Sn \in Nat /\ Sf \in Nat
      /\ rSf \in Nat /\ cache \in [0..(SWindow - 1) -> Packet]
      /\ toReceiver \subseteq Packet
  BY DEF TypeInv, TypeOK, SenderTypeOK, ReceiverTypeOK, NetTypeOK
<1> DEFINE Still == UNCHANGED <<restlen, rcbSeq, frame, Sn, threadVars, cache>>
\* The steps of the handshake: START or END 0 at most, before and after it.
<1>h. ASSUME Still, BeforeConnection, BeforeConnection',
             \/ UNCHANGED toReceiver
             \/ SendToReceiver({Control("START", 0)})
             \/ SendToReceiver({Control("END", 0)})
      PROVE  SenderInv'
  <2>1. \A p \in toReceiver' :
          p \notin toReceiver => p.type \in {"START", "END"} /\ p.seq = 0
    BY <1>h DEF SendToReceiver, Control
  <2>2. HandshakeInv'
    BY <1>h, <1>u, <2>1 DEF SenderInv, HandshakeInv, BeforeConnection, Trusted, threadVars
  <2>3. \A p \in toReceiver' :
          p \notin toReceiver => p.type # "DATA" /\ (p.type = "END" => p.seq <= rSf)
    BY <2>1, <1>t
  <2> QED
    BY <1>h, <1>u, <2>2, <2>3, QuietMain DEF BeforeConnection
\* END goes out: everything is delivered.
<1>e. ASSUME Still, mainPc = "send", mainPc' \in {"awaitEndAck", "crashed"},
             ackPc \in {"returned", "notCreated"},
             UNCHANGED toReceiver \/ SendToReceiver({Control("END", rcbSeq)})
      PROVE  SenderInv'
  <2>1. rcbSeq <= rSf
    <3>1. CASE ackPc = "returned"
      <4>1. EndSeqnum <= Sf /\ Sf <= rSf /\ (rcbSeq > 0 => (rcbSeq - 1) * DataSize < MsgLen)
        BY <3>1, <1>t, EndSeqnumBounds DEF SenderInv, EndingInv, Cached, WindowInv, Trusted
      <4>2. rcbSeq <= EndSeqnum
        BY <4>1, <1>t, EndSeqnumBounds
      <4> QED
        BY <4>1, <4>2, <1>t, EndSeqnumBounds
    <3>2. CASE ackPc = "notCreated"
      BY <1>e, <1>t, <3>2 DEF SenderInv, HandshakeInv
    <3> QED
      BY <1>e, <3>1, <3>2
  <2>2. \A p \in toReceiver' :
          p \notin toReceiver => p.type # "DATA" /\ (p.type = "END" => p.seq <= rSf)
    BY <1>e, <2>1 DEF SendToReceiver, Control
  <2>3. HandshakeInv'
    BY <1>e, <1>u DEF SenderInv, HandshakeInv, BeforeConnection, Trusted, threadVars
  <2> QED
    BY <1>e, <1>u, <2>2, <2>3, QuietMain
\* The answer to END, or none: nothing but the place of the main thread changes.
<1>w. ASSUME Still, mainPc = "awaitEndAck", mainPc' \in {"endAcked", "endUnacked"},
             UNCHANGED toReceiver
      PROVE  SenderInv'
  <2>1. HandshakeInv'
    BY <1>w, <1>u DEF SenderInv, HandshakeInv, BeforeConnection, Trusted, threadVars
  <2> QED
    BY <1>w, <1>u, <2>1, QuietMain
<1>1. CASE SendStart
  BY <1>1, <1>h DEF SendStart, BeforeConnection
<1>2. CASE ConnectTimeout
  BY <1>2, <1>h DEF ConnectTimeout, GiveUp, BeforeConnection
<1>3. CASE AbortEnd
  BY <1>3, <1>h DEF AbortEnd, BeforeConnection
<1>4. CASE CacheFrame
  BY <1>4, <1>u, SenderInvCacheFrame
<1>5. CASE FrameCached
  <2>1. /\ mainPc = "caching" /\ mainPc' = "transmit" /\ rcbSeq' = rcbSeq /\ rcbSeq = Sn + 1
        /\ UNCHANGED <<restlen, frame, Sn, threadVars, toReceiver>>
    BY <1>5 DEF FrameCached, SenderInv, HandshakeInv
  <2>2. Slot(rcbSeq - 1) \in 0..(SWindow - 1)
    <3>1. rcbSeq - 1 \in Nat
      BY <2>1, <1>t
    <3> QED
      BY <3>1, SlotRange
  <2>3. Oldest' = Oldest
    BY <2>1 DEF Oldest, threadVars
  <2>4. \A i \in 0..(SWindow - 1) :
          cache'[i] = IF i = Slot(rcbSeq - 1) THEN frame ELSE cache[i]
    BY <1>5, <1>t DEF FrameCached
  <2>w. rcbSeq <= Oldest + SWindow
    BY <1>t DEF Oldest, TypeInv, TypeOK, SenderTypeOK, SenderInv, WindowInv, Cached
  <2>o. Oldest \in Nat /\ Oldest <= rcbSeq - 1
    BY <1>t, <2>1 DEF Oldest, TypeInv, TypeOK, SenderTypeOK, SenderInv, WindowInv, Cached
  <2>f. frame = FrameOf(rcbSeq - 1)
    BY <2>1 DEF SenderInv, CacheInv
  <2>5. ASSUME NEW k \in Oldest..(rcbSeq - 1)
        PROVE  cache'[Slot(k)] = FrameOf(k)
    <3>1. k \in Nat
      BY <1>t, <2>o
    <3>2. Slot(k) \in 0..(SWindow - 1)
      BY <3>1, SlotRange
    <3>3. CASE k = rcbSeq - 1
      BY <2>4, <2>f, <3>2, <3>3
    <3>4. CASE k # rcbSeq - 1
      <4>1. k < rcbSeq - 1 /\ rcbSeq - 1 < k + SWindow /\ rcbSeq - 1 \in Nat
        BY <1>t, <2>1, <2>o, <2>w, <3>1, <3>4
      <4>2. k % SWindow # (rcbSeq - 1) % SWindow
        BY <3>1, <4>1, ModDistinct, Zenon
      <4>3. cache'[Slot(k)] = cache[Slot(k)]
        BY <2>4, <3>2, <4>2 DEF Slot
      <4> QED
        BY <3>4, <4>3 DEF SenderInv, CacheInv
    <3> QED
      BY <3>3, <3>4
  <2>6. ASSUME NEW i \in 0..(SWindow - 1), cache'[i].type = "DATA"
        PROVE  /\ cache'[i].seq >= Oldest /\ cache'[i].seq < rcbSeq
               /\ Slot(cache'[i].seq) = i
    <3>1. CASE i = Slot(rcbSeq - 1)
      <4>1. cache'[i] = FrameOf(rcbSeq - 1) /\ rcbSeq - 1 \in Nat
        BY <1>t, <2>1, <2>4, <2>f, <3>1
      <4>2. cache'[i].seq = rcbSeq - 1
        BY <4>1, FrameOfFields
      <4> QED
        BY <1>t, <2>o, <3>1, <4>2
    <3>2. CASE i # Slot(rcbSeq - 1)
      BY <2>4, <2>6, <3>2 DEF SenderInv, CacheInv
    <3> QED
      BY <3>1, <3>2
  <2>7. HandshakeInv'
    BY <2>1, <1>u DEF SenderInv, HandshakeInv, BeforeConnection, Trusted, threadVars
  <2>x. Cached' = rcbSeq /\ Cached = rcbSeq - 1
    BY <2>1 DEF Cached
  <2>m. rSf <= rcbSeq /\ \A n \in Nat : n < Cached => n < rcbSeq
    BY <1>t, <2>x DEF SenderInv, WindowInv, Trusted
  <2>8. WindowInv'
    <3>1. \A i \in 0..(RWindow - 1) : rCache[i].type = "DATA" => rCache[i].seq < rcbSeq
      <4> SUFFICES ASSUME NEW i \in 0..(RWindow - 1), rCache[i].type = "DATA"
                   PROVE  rCache[i].seq < rcbSeq
        OBVIOUS
      <4>1. rCache[i].seq \in Nat /\ rCache[i].seq < Cached
        BY DEF SenderInv, WindowInv, Trusted, TypeInv, TypeOK, ReceiverTypeOK, Packet
      <4> QED
        BY <2>m, <4>1
    <3> QED
      BY <2>1, <2>x, <2>m, <3>1, <1>u
      DEF SenderInv, WindowInv, Trusted, threadVars, receiverVars
  <2>9. CacheInv'
    BY <2>1, <2>3, <2>5, <2>6, <2>f DEF CacheInv
  <2>10. EndingInv'
    BY <2>1, <1>u DEF SenderInv, EndingInv, EndNeverEarly, threadVars
  <2> QED
    BY <2>7, <2>8, <2>9, <2>10 DEF SenderInv
<1>6. CASE Transmit
  <2>1. /\ mainPc = "transmit" /\ mainPc' = "send" /\ Sn' = Sn + 1
        /\ ackPc' = IF Sn = 0 THEN "select" ELSE ackPc
        /\ toReceiver' = toReceiver \cup {FirstSending(frame)}
        /\ UNCHANGED <<restlen, rcbSeq, frame, ackSeq, Sf, right, cache>>
    BY <1>6 DEF Transmit, SendToReceiver
  <2>2. frame = FrameOf(rcbSeq - 1) /\ rcbSeq = Sn + 1 /\ rcbSeq - 1 \in Nat
    BY <2>1, <1>t DEF SenderInv, CacheInv, HandshakeInv
  <2>3. FirstSending(frame).type = "DATA" /\ FirstSending(frame).seq = rcbSeq - 1
    BY <2>2, FrameOfFields DEF FirstSending, FrameOf, Data2Frame
  <2>4. ackPc = "slide" => Sn # 0
    BY DEF SenderInv, HandshakeInv
  <2>7. HandshakeInv'
    BY <2>1, <2>2, <1>t, <1>u DEF SenderInv, HandshakeInv, BeforeConnection, Trusted
  <2>8. WindowInv'
    <3>1. \A p \in toReceiver' : p.type = "DATA" /\ Trusted(p) => p.seq < rcbSeq
      BY <2>1, <2>2, <2>3, <1>t DEF SenderInv, Cached, WindowInv, Trusted
    <3> QED
      BY <2>1, <3>1, <1>u DEF SenderInv, Cached, WindowInv, Trusted, receiverVars
  <2>9. CacheInv'
    BY <2>1, <2>4 DEF SenderInv, CacheInv, Oldest
  <2>10. EndingInv'
    BY <2>1, <2>3, <1>u DEF SenderInv, EndingInv, EndNeverEarly
  <2> QED
    BY <2>7, <2>8, <2>9, <2>10 DEF SenderInv
<1>7. CASE Finish
  BY <1>7, <1>e DEF Finish, SendEnd
<1>8. CASE FinishEmpty
  BY <1>8, <1>e DEF FinishEmpty, SendEnd
<1>9. CASE EndTimeout
  BY <1>9, <1>w DEF EndTimeout
<1>10. ASSUME NEW p \in toSender, ConnectReceive(p)
       PROVE  SenderInv'
  <2>1. CASE BeforeConnection'
    BY <1>10, <2>1, <1>h DEF ConnectReceive, GiveUp, BeforeConnection
  <2>2. CASE ~BeforeConnection'
    <3>1. Still /\ mainPc = "awaitAck" /\ mainPc' = "send" /\ UNCHANGED toReceiver
      BY <1>10, <2>2 DEF ConnectReceive, GiveUp, BeforeConnection
    <3>2. HandshakeInv'
      BY <1>u, <3>1 DEF SenderInv, HandshakeInv, BeforeConnection, Trusted, threadVars
    <3> QED
      BY <1>u, <3>1, <3>2, QuietMain
  <2> QED
    BY <2>1, <2>2
<1>11. ASSUME NEW p \in toSender, EndReceive(p)
       PROVE  SenderInv'
  BY <1>11, <1>w DEF EndReceive
<1> QED
  BY <1>1, <1>2, <1>3, <1>4, <1>5, <1>6, <1>7, <1>8, <1>9, <1>10, <1>11
  DEF Main, MainStep

-----------------------------------------------------------------------------
(* mythread.                                                               *)

\* The frames an ACK covers are freed, and no other.
LEMMA SenderInvAckNew ==
  ASSUME TypeInv, SenderInv, NEW p \in toSender, p.ok, AckNew(p),
         UNCHANGED <<receiverVars, toSender, corrupted>>
  PROVE  SenderInv'
<1>t. /\ rcbSeq \in Nat /\ Sf \in Nat /\ rSf \in Nat /\ p \in Packet /\ p.seq \in Nat
      /\ cache \in [0..(SWindow - 1) -> Packet]
  BY DEF TypeInv, TypeOK, SenderTypeOK, ReceiverTypeOK, NetTypeOK, Packet
<1>a. /\ ackPc = "select" /\ ackPc' = "slide" /\ ackSeq' = p.seq /\ p.seq > Sf
      /\ UNCHANGED <<mainVars, Sf, right, toReceiver>>
  BY DEF AckNew, Advances
<1>b. p.seq <= rSf /\ rSf <= rcbSeq /\ rcbSeq <= Sf + SWindow
  BY <1>t DEF AckNew, Advances, SenderInv, WindowInv, Trusted, Cached
<1>c. Oldest = Sf /\ Oldest' = p.seq
  BY <1>a DEF Oldest
<1>d. \A i \in 0..(SWindow - 1) :
        cache'[i] = IF i \in FreedSlots(p.seq) THEN EmptySlot ELSE cache[i]
  BY <1>t DEF AckNew
<1>1. HandshakeInv'
  BY <1>a DEF SenderInv, HandshakeInv, BeforeConnection, Trusted, mainVars, receiverVars
<1>2. WindowInv'
  BY <1>a, <1>b DEF SenderInv, Cached, WindowInv, Trusted, mainVars, receiverVars
<1>3. CacheInv'
  <2>1. ASSUME NEW k \in p.seq..(rcbSeq - 1)
        PROVE  cache'[Slot(k)] = cache[Slot(k)] /\ k \in Oldest..(rcbSeq - 1)
    <3>1. k \in Nat /\ k \in Oldest..(rcbSeq - 1) /\ k < Sf + SWindow
      BY <1>a, <1>b, <1>c, <1>t
    <3>2. Slot(k) \in 0..(SWindow - 1)
      BY <3>1, SlotRange
    <3>3. Slot(k) \notin FreedSlots(p.seq)
      <4> SUFFICES ASSUME NEW i \in Sf..(p.seq - 1), Slot(k) = Slot(i)
                   PROVE  FALSE
        BY DEF FreedSlots
      <4>1. i \in Nat /\ i < k /\ k < i + SWindow
        BY <1>t, <3>1
      <4>2. i % SWindow # k % SWindow
        BY <3>1, <4>1, ModDistinct, Zenon
      <4> QED
        BY <4>2 DEF Slot
    <3> QED
      BY <1>d, <3>1, <3>2, <3>3
  <2>2. ASSUME NEW i \in 0..(SWindow - 1), cache'[i].type = "DATA"
        PROVE  /\ cache'[i].seq >= p.seq /\ cache'[i].seq < rcbSeq
               /\ Slot(cache'[i].seq) = i
    <3>1. i \notin FreedSlots(p.seq) /\ cache'[i] = cache[i]
      BY <1>d, <2>2 DEF EmptySlot, Control
    <3>2. /\ cache[i].seq >= Sf /\ cache[i].seq < rcbSeq
          /\ Slot(cache[i].seq) = i
      BY <1>c, <2>2, <3>1 DEF SenderInv, CacheInv
    <3>3. cache[i].seq \in Nat
      BY <1>t DEF Packet
    <3>4. cache[i].seq \notin Sf..(p.seq - 1)
      BY <3>1, <3>2 DEF FreedSlots
    <3> QED
      BY <1>t, <3>1, <3>2, <3>3, <3>4
  <2>3. mainPc' = mainPc /\ rcbSeq' = rcbSeq /\ frame' = frame
    BY <1>a DEF mainVars
  <2> QED
    BY <1>c, <2>1, <2>2, <2>3 DEF SenderInv, CacheInv
<1>4. EndingInv'
  BY <1>a DEF SenderInv, EndingInv, EndNeverEarly, mainVars, receiverVars
<1> QED
  BY <1>1, <1>2, <1>3, <1>4 DEF SenderInv

LEMMA SenderInvThread == TypeInv /\ SenderInv /\ Thread /\ ~Deceived => SenderInv'
<1> SUFFICES ASSUME TypeInv, SenderInv, Thread, ~Deceived PROVE SenderInv'
  OBVIOUS
<1>u. UNCHANGED <<receiverVars, toSender, corrupted>>
  BY DEF Thread
<1>t. /\ rcbSeq \in Nat /\ Sf \in Nat /\ rSf \in Nat /\ ackSeq \in Nat /\ right \in Nat
      /\ cache \in [0..(SWindow - 1) -> Packet]
  BY DEF TypeInv, TypeOK, SenderTypeOK, ReceiverTypeOK
\* mythread goes from select to the retransmission.
<1>r. ASSUME ackPc = "select", ackPc' = "resend",
             UNCHANGED <<mainVars, ackSeq, Sf, right, cache, toReceiver>>
      PROVE  SenderInv'
  <2> USE <1>r, <1>u DEF mainVars, receiverVars
  <2>1. HandshakeInv'
    BY DEF SenderInv, HandshakeInv, BeforeConnection, Trusted
  <2>2. WindowInv'
    BY DEF SenderInv, Cached, WindowInv, Trusted
  <2>3. CacheInv'
    BY DEF SenderInv, CacheInv, Oldest
  <2>4. EndingInv'
    BY DEF SenderInv, EndingInv, EndNeverEarly
  <2> QED
    BY <2>1, <2>2, <2>3, <2>4 DEF SenderInv
<1>1. CASE Timeout
  BY <1>1, <1>r DEF Timeout
<1>2. CASE Slide
  <2>a. /\ ackPc = "slide" /\ Sf' = ackSeq /\ right' = right + (ackSeq - Sf)
        /\ ackPc' = IF ackSeq >= EndSeqnum THEN "returned" ELSE "select"
        /\ UNCHANGED <<mainVars, ackSeq, cache, toReceiver>>
    BY <1>2 DEF Slide
  <2>b. /\ right = Sf + SWindow - 1 /\ Sf < ackSeq /\ ackSeq <= rSf
        /\ rSf <= rcbSeq /\ rcbSeq <= Sf + SWindow
    BY <1>t, <2>a DEF SenderInv, Cached, WindowInv, Trusted
  <2>c. Oldest' = Oldest
    BY <2>a DEF Oldest
  <2>1. HandshakeInv'
    BY <1>u, <2>a
    DEF SenderInv, HandshakeInv, BeforeConnection, Trusted, mainVars, receiverVars
  <2>2. WindowInv'
    <3>1. right' = Sf' + SWindow - 1 /\ rcbSeq <= Sf' + SWindow
      BY <1>t, <2>a, <2>b
    <3> QED
      BY <1>u, <2>a, <2>b, <3>1
      DEF SenderInv, Cached, WindowInv, Trusted, mainVars, receiverVars
  <2>3. CacheInv'
    BY <2>a, <2>c DEF SenderInv, CacheInv, mainVars
  <2>4. EndingInv'
    BY <1>u, <2>a DEF SenderInv, EndingInv, EndNeverEarly, mainVars, receiverVars
  <2> QED
    BY <2>1, <2>2, <2>3, <2>4 DEF SenderInv
<1>3. CASE Resend
  <2> DEFINE q == cache[Slot(Sf)]
  <2>a. /\ ackPc = "resend" /\ ackPc' = "select" /\ q.type = "DATA"
        /\ toReceiver' = toReceiver \cup {q}
        /\ UNCHANGED <<mainVars, ackSeq, Sf, right, cache>>
    BY <1>3 DEF Resend, CacheGet, SendToReceiver
  <2>b. q.seq >= Oldest /\ q.seq < rcbSeq /\ Slot(q.seq) = Slot(Sf) /\ q.seq \in Nat
    BY <1>t, <2>a, SlotRange DEF SenderInv, CacheInv, Packet
  <2>c. q.ok => q.seq < Cached
    <3>1. CASE mainPc = "caching" /\ q.seq = rcbSeq - 1
      <4>1. q.seq \in Oldest..(rcbSeq - 1)
        BY <1>t, <2>b DEF Oldest
      <4>2. q = [FrameOf(q.seq) EXCEPT !.ok = FALSE]
        BY <2>b, <3>1, <4>1 DEF SenderInv, CacheInv
      <4>3. q.ok = FALSE
        BY <4>2 DEF FrameOf, Data2Frame
      <4> QED
        BY <4>3
    <3>2. CASE ~(mainPc = "caching" /\ q.seq = rcbSeq - 1)
      <4>1. q.seq < Cached
        <5> HIDE DEF q
        <5> QED
          BY <1>t, <2>b, <3>2 DEF Cached
      <4> QED
        BY <4>1
    <3> QED
      BY <3>1, <3>2
  <2> HIDE DEF q
  <2> USE <1>u, <2>a DEF mainVars, receiverVars
  <2>1. HandshakeInv'
    BY DEF SenderInv, HandshakeInv, BeforeConnection, Trusted
  <2>2. WindowInv'
    BY <2>b, <2>c DEF SenderInv, Cached, WindowInv, Trusted
  <2>3. CacheInv'
    BY DEF SenderInv, CacheInv, Oldest
  <2>4. EndingInv'
    BY DEF SenderInv, EndingInv, EndNeverEarly
  <2> QED
    BY <2>1, <2>2, <2>3, <2>4 DEF SenderInv
<1>4. ASSUME NEW p \in toSender, AckNew(p)
      PROVE  SenderInv'
  BY <1>4, <1>u, SenderInvAckNew DEF Deceived
<1>5. ASSUME NEW p \in toSender, AckOther(p)
      PROVE  SenderInv'
  BY <1>5, <1>r DEF AckOther
<1> QED
  BY <1>1, <1>2, <1>3, <1>4, <1>5 DEF Thread, ThreadStep

-----------------------------------------------------------------------------
(* The receiver and the channel.                                           *)

\* A step of the receiver that acknowledges no more than what is delivered, and
\* delivers and keeps no more than what was sent.
LEMMA QuietReceiver ==
  ASSUME TypeInv, SenderInv, UNCHANGED <<senderVars, toReceiver, corrupted>>,
         rPc' # "listen",
         rSf' \in Nat, rSf <= rSf', rSf' <= Cached,
         \A p \in toSender' : p \notin toSender => p.ok /\ p.type = "ACK" /\ p.seq <= rSf',
         \A i \in 0..(RWindow - 1) : rCache'[i].type = "DATA" => rCache'[i].seq < Cached
  PROVE  SenderInv'
<1> USE DEF senderVars, mainVars, threadVars
<1>t. /\ rSf \in Nat /\ Sf \in Nat /\ ackSeq \in Nat /\ rcbSeq \in Nat
      /\ toReceiver \subseteq Packet /\ toSender \subseteq Packet
  BY DEF TypeInv, TypeOK, SenderTypeOK, ReceiverTypeOK, NetTypeOK
<1>m. \A n \in Nat : n <= rSf => n <= rSf'
  BY <1>t
<1>1. HandshakeInv'
  BY DEF SenderInv, HandshakeInv, BeforeConnection, Trusted
<1>2. WindowInv'
  <2>1. \A p \in toSender' : Trusted(p) => p.ok /\ p.type = "ACK" /\ p.seq <= rSf'
    BY <1>t, <1>m DEF SenderInv, Cached, WindowInv, Trusted, Packet
  <2>2. Sf <= rSf' /\ (ackPc = "slide" => ackSeq <= rSf')
    BY <1>t, <1>m DEF SenderInv, Cached, WindowInv, Trusted
  <2> QED
    BY <2>1, <2>2 DEF SenderInv, Cached, WindowInv, Trusted
<1>3. CacheInv'
  BY DEF SenderInv, CacheInv, Oldest
<1>4. EndingInv'
  BY <1>t, <1>m DEF SenderInv, EndingInv, EndNeverEarly, Packet
<1> QED
  BY <1>1, <1>2, <1>3, <1>4 DEF SenderInv

\* The ACKs that follow an accepted frame do not run ahead of the delivery.
LEMMA AcceptedAcks ==
  ASSUME NEW p, NEW sf \in Nat, endSeq \in Nat, Accepted(p, sf)
  PROVE  \A q \in toSender' : q \notin toSender => q.ok /\ q.type = "ACK" /\ q.seq <= sf
BY DEF Accepted, SendToSender, Ack, Control

LEMMA SenderInvReceiver ==
  TypeInv /\ ReceiverInv /\ SenderInv /\ Receiver /\ ~Deceived => SenderInv'
<1> SUFFICES ASSUME TypeInv, ReceiverInv, SenderInv, Receiver, ~Deceived PROVE SenderInv'
  OBVIOUS
<1>u. UNCHANGED <<senderVars, toReceiver, corrupted>>
  BY DEF Receiver
<1>t. /\ rSf \in Nat /\ rcbSeq \in Nat /\ endSeq \in Nat
      /\ rCache \in [0..(RWindow - 1) -> Packet] /\ toReceiver \subseteq Packet
  BY DEF TypeInv, TypeOK, SenderTypeOK, ReceiverTypeOK, NetTypeOK
<1>x. Cached \in Int
  BY <1>t DEF Cached
<1>w. /\ rSf <= Cached
      /\ \A p \in toReceiver : p.type = "DATA" /\ p.ok => p.seq < Cached
      /\ \A i \in 0..(RWindow - 1) : rCache[i].type = "DATA" => rCache[i].seq < Cached
  BY DEF SenderInv, Cached, WindowInv, Trusted
<1>q. ASSUME UNCHANGED <<rSf, rCache>>, rPc' # "listen",
             \A p \in toSender' : p \notin toSender => p.ok /\ p.type = "ACK" /\ p.seq <= rSf
      PROVE  SenderInv'
  BY <1>q, <1>t, <1>u, <1>w, QuietReceiver
<1>1. CASE WriteFile
  BY <1>1, <1>q DEF WriteFile
<1>2. ASSUME NEW p \in toReceiver, Receive(p)
      PROVE  SenderInv'
  <2>p. p \in Packet /\ p.seq \in Nat
    BY <1>t DEF Packet
  <2>1. CASE Listen(p)
    <3>1. Refuses(p) \/ p.seq = 0
      <4>1. p.ok \/ Refuses(p) \/ ~(p.seq > 0)
        BY <2>1 DEF Deceived
      <4>2. p.ok => p.seq = 0
        BY <2>1 DEF Listen, SenderInv, HandshakeInv, Trusted
      <4> QED
        BY <2>p, <4>1, <4>2
    <3>2. \A q \in toSender' : q \notin toSender => q.ok /\ q.type = "ACK" /\ q.seq <= rSf
      BY <2>1, <3>1, <1>t DEF Listen, SendToSender, Ack, Control
    <3> QED
      BY <2>1, <3>2, <1>q DEF Listen
  <2>2. CASE Drop(p)
    BY <2>2, <1>q DEF Drop, receiverVars
  <2>3. CASE ReceiveEnd(p)
    <3>1. \A q \in toSender' : q \notin toSender => q.ok /\ q.type = "ACK" /\ q.seq <= rSf
      BY <2>3, <2>p, <1>t DEF ReceiveEnd, SendToSender, Ack, Control
    <3> QED
      BY <2>3, <3>1, <1>q DEF ReceiveEnd
  <2>4. CASE ReceiveOutside(p)
    <3>1. \A q \in toSender' : q \notin toSender => q.ok /\ q.type = "ACK" /\ q.seq <= rSf
      BY <2>4, <1>t DEF ReceiveOutside, SendToSender, Ack, Control
    <3> QED
      BY <2>4, <3>1, <1>q DEF ReceiveOutside, IsData, receiverVars
  <2>5. CASE ReceiveEarly(p)
    <3>1. /\ p.type = "DATA" /\ p.ok /\ rPc = "recv" /\ rSf' = rSf
          /\ rCache' = CacheAdd(p) /\ Accepted(p, rSf)
      BY <2>5 DEF ReceiveEarly, IsData
    <3>2. \A i \in 0..(RWindow - 1) : rCache'[i] = IF i = RSlot(p.seq) THEN p ELSE rCache[i]
      BY <1>t, <2>p, <3>1, SlotRange DEF CacheAdd
    <3>3. \A i \in 0..(RWindow - 1) : rCache'[i].type = "DATA" => rCache'[i].seq < Cached
      BY <1>w, <3>1, <3>2
    <3>4. \A q \in toSender' : q \notin toSender => q.ok /\ q.type = "ACK" /\ q.seq <= rSf'
      BY <1>t, <3>1, AcceptedAcks
    <3>5. rPc' # "listen"
      BY <3>1 DEF Accepted
    <3> QED
      BY <1>t, <1>u, <1>w, <3>1, <3>3, <3>4, <3>5, QuietReceiver
  <2>6. CASE ReceiveNext(p)
    <3>1. PICK n \in 1..RWindow :
             /\ \A m \in 1..(n - 1) : ~CopyStops(CacheAdd(p), m)
             /\ rCache' = CacheDe(CacheAdd(p), n)
             /\ rSf' = rSf + n
             /\ Accepted(p, rSf + n)
      BY <2>6 DEF ReceiveNext
    <3>2. IsData(p) /\ p.type = "DATA" /\ p.ok /\ rPc = "recv" /\ p.seq = rSf
      BY <2>6 DEF ReceiveNext, IsData
    <3>3. rSf + (n - 1) < Cached
      <4>1. CASE n = 1
        BY <4>1, <1>t, <1>w, <3>2
      <4>2. CASE n > 1
        <5>1. n - 1 \in 0..(n - 1) /\ n - 1 > 0 /\ rSf + (n - 1) \in Nat
          BY <4>2, <1>t
        <5>2. /\ rCache[RSlot(rSf + (n - 1))].type = "DATA"
              /\ rCache[RSlot(rSf + (n - 1))].seq = rSf + (n - 1)
          BY <3>1, <3>2, <5>1, CopiedRun
        <5>3. RSlot(rSf + (n - 1)) \in 0..(RWindow - 1)
          BY <5>1, SlotRange
        <5> QED
          BY <1>w, <5>2, <5>3
      <4> QED
        BY <4>1, <4>2
    <3>4. rSf' \in Nat /\ rSf <= rSf' /\ rSf' <= Cached
      BY <1>t, <1>x, <3>1, <3>3
    <3>5. \A i \in 0..(RWindow - 1) : rCache'[i].type = "DATA" => rCache'[i].seq < Cached
      <4> SUFFICES ASSUME NEW i \in 0..(RWindow - 1), rCache'[i].type = "DATA"
                   PROVE  rCache'[i].seq < Cached
        OBVIOUS
      <4>1. CacheDe(CacheAdd(p), n)[i] = rCache[i]
        <5>1. CacheDe(CacheAdd(p), n)[i].type = "DATA"
          BY <3>1
        <5> QED
          BY <3>2, <5>1, KeptRun, Zenon
      <4> QED
        BY <1>w, <3>1, <4>1
    <3>6. \A q \in toSender' : q \notin toSender => q.ok /\ q.type = "ACK" /\ q.seq <= rSf'
      <4>1. rSf + n \in Nat
        BY <1>t
      <4> QED
        BY <1>t, <3>1, <4>1, AcceptedAcks
    <3>7. rPc' # "listen"
      BY <3>1, <3>2 DEF Accepted
    <3> QED
      BY <1>u, <3>4, <3>5, <3>6, <3>7, QuietReceiver
  <2> QED
    BY <1>2, <2>1, <2>2, <2>3, <2>4, <2>5, <2>6 DEF Receive
<1> QED
  BY <1>1, <1>2 DEF Receiver, ReceiverStep

\* A damaged packet is trusted no more.
LEMMA SenderInvChannel == TypeInv /\ SenderInv /\ Channel => SenderInv'
<1> SUFFICES ASSUME TypeInv, SenderInv, Channel PROVE SenderInv'
  OBVIOUS
<1>1. UNCHANGED <<senderVars, receiverVars>>
  BY DEF Channel
<1>2. /\ \A p \in toReceiver' : p.ok => p \in toReceiver
      /\ \A p \in toSender' : p.ok => p \in toSender
      /\ toSender = {} => toSender' = {}
      /\ \/ /\ corrupted' = corrupted
            /\ toReceiver' \subseteq toReceiver /\ toSender' \subseteq toSender
         \/ corrupted' # 0
  <2>1. CASE Lose
    BY <2>1 DEF Lose
  <2>2. CASE Corrupt
    <3>1. corrupted' # 0
      BY <2>2 DEF Corrupt, TypeInv, TypeOK, NetTypeOK
    <3>2. \A p \in Packet : \A t, n : Damaged(p, t, n).ok = FALSE
      BY DEF Damaged, Packet
    <3> QED
      BY <2>2, <3>1, <3>2
      DEF Corrupt, Damaging, TypeInv, TypeOK, NetTypeOK
  <2> QED
    BY <2>1, <2>2 DEF Channel
<1>3. /\ \A p \in toReceiver' : (p.ok \/ corrupted' = 0) => p \in toReceiver /\ Trusted(p)
      /\ \A p \in toSender' : (p.ok \/ corrupted' = 0) => p \in toSender /\ Trusted(p)
  BY <1>2 DEF Trusted
<1> USE <1>1, <1>2, <1>3 DEF senderVars, mainVars, threadVars, receiverVars
<1>4. HandshakeInv'
  <2>1. ASSUME BeforeConnection, NEW p \in toReceiver', p.ok \/ corrupted' = 0
        PROVE  p.type \in {"START", "END"} /\ p.seq = 0
    BY <2>1 DEF SenderInv, HandshakeInv
  <2> QED
    BY <2>1 DEF SenderInv, HandshakeInv, BeforeConnection, Trusted
<1>5. WindowInv'
  BY DEF SenderInv, Cached, WindowInv, Trusted
<1>6. CacheInv'
  BY DEF SenderInv, CacheInv, Oldest
<1>7. EndingInv'
  BY DEF SenderInv, EndingInv, EndNeverEarly
<1> QED
  BY <1>4, <1>5, <1>6, <1>7 DEF SenderInv

LEMMA SenderInvStutter == SenderInv /\ UNCHANGED vars => SenderInv'
<1> SUFFICES ASSUME SenderInv, UNCHANGED vars PROVE SenderInv'
  OBVIOUS
<1> USE DEF vars, netVars, senderVars, mainVars, threadVars, receiverVars
<1>1. HandshakeInv'
  BY DEF SenderInv, HandshakeInv, BeforeConnection, Trusted
<1>2. WindowInv'
  BY DEF SenderInv, Cached, WindowInv, Trusted
<1>3. CacheInv'
  BY DEF SenderInv, CacheInv, Oldest
<1>4. EndingInv'
  BY DEF SenderInv, EndingInv, EndNeverEarly
<1> QED
  BY <1>1, <1>2, <1>3, <1>4 DEF SenderInv

-----------------------------------------------------------------------------

\* SenderInv holds whatever the channel loses, repeats, reorders or damages, as long
\* as no damaged packet deceives the programs.
THEOREM SenderInvariant == Spec /\ Undeceived => []SenderInv
<1>1. TypeInv /\ ReceiverInv /\ SenderInv /\ [Next]_vars /\ [~Deceived]_vars => SenderInv'
  BY SenderInvMain, SenderInvThread, SenderInvReceiver, SenderInvChannel,
     SenderInvStutter DEF Next
<1> QED
  BY <1>1, SenderInvInit, TypeInvariant, ReceiverInvariant, PTL DEF Spec, Undeceived

\* A channel that damages nothing deceives nobody.
THEOREM UndamagedUndeceived ==
  ASSUME MaxCorrupt = 0
  PROVE  Spec => Undeceived
<1>1. TypeInv /\ SenderInv => ~Deceived
  <2> SUFFICES ASSUME TypeInv, SenderInv, Deceived PROVE FALSE
    OBVIOUS
  <2>1. corrupted = 0
    BY DEF TypeInv, TypeOK, NetTypeOK
  <2>2. \A p \in toSender : p.ok
    BY <2>1 DEF SenderInv, WindowInv, Trusted
  <2>3. PICK p \in toReceiver : p.seq > 0 /\ Listen(p)
    BY <2>2 DEF Deceived
  <2>4. p.seq = 0
    BY <2>1, <2>3 DEF Listen, SenderInv, HandshakeInv, Trusted
  <2> QED
    BY <2>3, <2>4
<1>2. TypeInv /\ ReceiverInv /\ SenderInv /\ [Next]_vars => SenderInv'
  BY <1>1, SenderInvMain, SenderInvThread, SenderInvReceiver, SenderInvChannel,
     SenderInvStutter DEF Next
<1>3. TypeInv /\ SenderInv => [~Deceived]_vars
  BY <1>1
<1> QED
  BY <1>2, <1>3, SenderInvInit, TypeInvariant, ReceiverInvariant, PTL DEF Spec, Undeceived

\* No frame is lost inside the sender: every frame the receiver still misses is
\* in the cache, in its own slot.
THEOREM NothingLostInSender == Spec /\ Undeceived => []UndeliveredIsCached
<1>1. TypeInv /\ SenderInv => UndeliveredIsCached
  <2> SUFFICES ASSUME TypeInv, SenderInv, NEW k \in rSf..(Sn - 1)
               PROVE  cache[Slot(k)] = FrameOf(k)
    BY DEF UndeliveredIsCached
  <2>t. rSf \in Nat /\ Sn \in Nat /\ Sf \in Nat /\ ackSeq \in Nat /\ rcbSeq \in Nat
    BY DEF TypeInv, TypeOK, SenderTypeOK, ReceiverTypeOK
  <2>1. k \in Oldest..(rcbSeq - 1) /\ k \in Nat
    BY <2>t DEF Oldest, SenderInv, HandshakeInv, Cached, WindowInv
  <2>2. ~(mainPc = "caching" /\ k = rcbSeq - 1)
    BY <2>t DEF SenderInv, HandshakeInv
  <2> QED
    BY <2>1, <2>2 DEF SenderInv, CacheInv
<1> QED
  BY <1>1, SenderInvariant, TypeInvariant, PTL

\* What mythread sends again is the frame at the left border of the window.
THEOREM RetransmitsOldest == Spec /\ Undeceived => []ResendsOldest
<1>1. TypeInv /\ SenderInv => ResendsOldest
  <2> SUFFICES ASSUME TypeInv, SenderInv, ackPc = "resend", CacheGet(Sf)
               PROVE  cache[Slot(Sf)].seq = Sf
    BY DEF ResendsOldest
  <2> DEFINE s == cache[Slot(Sf)].seq
  <2>t. Sf \in Nat /\ rcbSeq \in Nat /\ rSf \in Nat /\ Slot(Sf) \in 0..(SWindow - 1)
        /\ cache \in [0..(SWindow - 1) -> Packet]
    BY SlotRange DEF TypeInv, TypeOK, SenderTypeOK, ReceiverTypeOK
  <2>1. s >= Sf /\ s < rcbSeq /\ Slot(s) = Slot(Sf) /\ rcbSeq <= Sf + SWindow
    BY <2>t DEF CacheGet, SenderInv, CacheInv, Cached, WindowInv, Oldest
  <2>2. s \in Nat
    BY <2>t DEF Packet
  <2> HIDE DEF s
  <2>3. Sf <= s /\ s < Sf + SWindow /\ Sf < Sf + SWindow /\ Sf <= Sf
        /\ s % SWindow = Sf % SWindow
    BY <2>t, <2>1, <2>2 DEF Slot
  <2>4. s = Sf
    BY <2>t, <2>2, <2>3, SlotsInjective, SWindowAssumption, Zenon
  <2> QED
    BY <2>4 DEF s
<1> QED
  BY <1>1, SenderInvariant, TypeInvariant, PTL

\* When mythread returns ("all ACK received, finish transmition") the receiver
\* has the whole message.
THEOREM FinishesDelivered == Spec /\ Undeceived => []FinishedMeansDelivered
<1>1. TypeInv /\ SenderInv => FinishedMeansDelivered
  <2> SUFFICES ASSUME TypeInv, SenderInv, ackPc = "returned" PROVE rSf * DataSize >= MsgLen
    BY DEF FinishedMeansDelivered
  <2>t. rSf \in Nat /\ Sf \in Nat
    BY DEF TypeInv, TypeOK, SenderTypeOK, ReceiverTypeOK
  <2>1. EndSeqnum \in Nat /\ EndSeqnum <= rSf
    BY <2>t, EndSeqnumBounds DEF SenderInv, EndingInv, Cached, WindowInv, Trusted
  <2>2. EndSeqnum * DataSize <= rSf * DataSize
    BY <2>t, <2>1, TimesMonotonic
  <2> QED
    BY <2>t, <2>1, <2>2, EndSeqnumBounds
<1> QED
  BY <1>1, SenderInvariant, TypeInvariant, PTL

\* END never overtakes what it stands for.
THEOREM EndAfterDelivery == Spec /\ Undeceived => []EndNeverEarly
<1>1. SenderInv => EndNeverEarly
  BY DEF SenderInv, EndingInv
<1> QED
  BY <1>1, SenderInvariant, PTL

\* A receiver with a window at least as large as the sender's refuses no frame
\* for being too far ahead.
THEOREM WindowsAgree ==
  ASSUME MaxCorrupt = 0, SWindow <= RWindow
  PROVE  Spec => []WithinReceiverWindow
<1>1. TypeInv /\ ReceiverInv /\ SenderInv => WithinReceiverWindow
  <2> SUFFICES ASSUME TypeInv, ReceiverInv, SenderInv, rPc = "recv",
                      NEW p \in toReceiver, p.type = "DATA"
               PROVE  p.seq <= rRight
    BY DEF WithinReceiverWindow
  <2>t. /\ rSf \in Nat /\ Sf \in Nat /\ rcbSeq \in Nat /\ p.seq \in Nat /\ rLeft \in Nat
    BY DEF TypeInv, TypeOK, SenderTypeOK, ReceiverTypeOK, NetTypeOK, Packet
  <2>1. p.seq < rcbSeq /\ rcbSeq <= Sf + SWindow /\ Sf <= rSf /\ rLeft = rSf
    <3>1. corrupted = 0
      BY DEF TypeInv, TypeOK, NetTypeOK
    <3> QED
      BY <3>1 DEF SenderInv, Cached, WindowInv, Trusted, ReceiverInv, KeptInv
  <2> QED
    BY <2>t, <2>1 DEF rRight
<1> QED
  BY <1>1, SenderInvariant, UndamagedUndeceived, ReceiverInvariant, TypeInvariant, PTL

-----------------------------------------------------------------------------
(* The two threads of the sender never wait for each other.                *)

\* The slots of the frames built and not yet freed are filled, whatever numbers
\* the channel makes of the ACKs.
FilledInv ==
  /\ mainPc = "caching" => frame.type = "DATA"
  /\ \A k \in Oldest..(rcbSeq - 1) : CacheGet(k)

LEMMA FilledInit == Init => FilledInv
BY DEF Init, SenderInit, RcbInit, WindowInit, FilledInv, Oldest

\* The main thread fills slots and empties none.
LEMMA FilledMain == TypeInv /\ PaceInv /\ FilledInv /\ Main => FilledInv'
<1> SUFFICES ASSUME TypeInv, PaceInv, FilledInv, Main PROVE FilledInv'
  OBVIOUS
<1>t. /\ rcbSeq \in Nat /\ Sf \in Nat /\ ackSeq \in Nat
      /\ cache \in [0..(SWindow - 1) -> Packet]
  BY DEF TypeInv, TypeOK, SenderTypeOK
<1>o. Oldest \in Nat
  BY <1>t DEF Oldest
\* A DATA frame is put into one slot.
<1>f. ASSUME NEW x, x.type = "DATA", NEW j \in Nat,
             cache' = [cache EXCEPT ![Slot(j)] = x]
      PROVE  cache'[Slot(j)].type = "DATA" /\ \A k \in Nat : CacheGet(k) => CacheGet(k)'
  <2>1. \A k \in Nat : Slot(k) \in 0..(SWindow - 1)
    BY SlotRange
  <2> QED
    BY <1>t, <1>f, <2>1 DEF CacheGet, Slot
<1>1. CASE CacheFrame
  <2>1. /\ frame' = Data2Frame(restlen, rcbSeq) /\ rcbSeq' = rcbSeq + 1
        /\ cache' = [cache EXCEPT ![Slot(rcbSeq)] = [frame' EXCEPT !.ok = FALSE]]
        /\ Oldest' = Oldest
    BY <1>1 DEF CacheFrame, Oldest, threadVars
  <2>2. frame'.type = "DATA" /\ [frame' EXCEPT !.ok = FALSE].type = "DATA"
    BY <2>1 DEF Data2Frame
  <2>3. cache'[Slot(rcbSeq)].type = "DATA" /\ \A k \in Nat : CacheGet(k) => CacheGet(k)'
    BY <1>t, <1>f, <2>1, <2>2
  <2>4. ASSUME NEW k \in Oldest..rcbSeq
        PROVE  CacheGet(k)'
    <3>1. k \in Nat /\ (k = rcbSeq \/ k \in Oldest..(rcbSeq - 1))
      BY <1>t, <1>o
    <3> QED
      BY <2>3, <3>1 DEF FilledInv, CacheGet
  <2>5. Oldest'..(rcbSeq' - 1) = Oldest..rcbSeq
    BY <1>t, <2>1
  <2> QED
    BY <2>2, <2>4, <2>5 DEF FilledInv
<1>2. CASE FrameCached
  <2>1. /\ mainPc = "caching" /\ mainPc' = "transmit" /\ rcbSeq' = rcbSeq
        /\ cache' = [cache EXCEPT ![Slot(rcbSeq - 1)] = frame]
        /\ Oldest' = Oldest
    BY <1>2 DEF FrameCached, Oldest, threadVars
  <2>2. frame.type = "DATA"
    BY <2>1 DEF FilledInv
  <2>3. ASSUME NEW k \in Oldest..(rcbSeq - 1)
        PROVE  CacheGet(k)'
    <3>1. k \in Nat /\ rcbSeq - 1 \in Nat
      BY <1>t, <1>o
    <3>2. \A i \in Nat : CacheGet(i) => CacheGet(i)'
      BY <1>f, <2>1, <2>2, <3>1
    <3> QED
      BY <3>1, <3>2 DEF FilledInv
  <2> QED
    BY <2>1, <2>3 DEF FilledInv
<1>3. CASE Transmit
  <2>1. /\ mainPc' = "send" /\ UNCHANGED <<rcbSeq, cache, ackSeq, Sf>>
        /\ ackPc' = IF Sn = 0 THEN "select" ELSE ackPc
    BY <1>3 DEF Transmit
  <2> QED
    BY <2>1 DEF PaceInv, FilledInv, Oldest, CacheGet
<1>4. CASE \/ SendStart \/ ConnectTimeout \/ AbortEnd \/ Finish \/ FinishEmpty \/ EndTimeout
           \/ \E p \in toSender : ConnectReceive(p) \/ EndReceive(p)
  <2>1. mainPc' # "caching" /\ UNCHANGED <<rcbSeq, cache, threadVars>>
    BY <1>4 DEF SendStart, ConnectTimeout, AbortEnd, Finish, FinishEmpty, EndTimeout,
       ConnectReceive, EndReceive, GiveUp, SendEnd
  <2> QED
    BY <2>1 DEF FilledInv, Oldest, CacheGet, threadVars
<1> QED
  BY <1>1, <1>2, <1>3, <1>4 DEF Main, MainStep

\* Freeing the slots before the new Sf leaves those of the frames behind it alone:
\* they are less than a window away from each other.
LEMMA FilledAckNew ==
  ASSUME TypeInv, PaceInv, FilledInv, NEW p \in toSender, AckNew(p)
  PROVE  FilledInv'
<1>t. /\ rcbSeq \in Nat /\ Sf \in Nat /\ p.seq \in Nat
      /\ cache \in [0..(SWindow - 1) -> Packet]
  BY DEF TypeInv, TypeOK, SenderTypeOK, NetTypeOK, Packet
<1>1. /\ ackPc = "select" /\ ackPc' = "slide" /\ ackSeq' = p.seq /\ p.seq > Sf
      /\ cache' = [i \in DOMAIN cache |->
                     IF i \in FreedSlots(p.seq) THEN EmptySlot ELSE cache[i]]
      /\ UNCHANGED <<mainPc, rcbSeq, frame>>
  BY DEF AckNew, Advances, mainVars
<1>2. Oldest = Sf /\ Oldest' = p.seq /\ rcbSeq <= Sf + SWindow
  BY <1>1 DEF Oldest, PaceInv
<1>3. ASSUME NEW k \in p.seq..(rcbSeq - 1)
      PROVE  CacheGet(k)'
  <2>1. k \in Nat /\ k \in Oldest..(rcbSeq - 1) /\ k < Sf + SWindow
    BY <1>t, <1>1, <1>2
  <2>2. Slot(k) \notin FreedSlots(p.seq)
    <3> SUFFICES ASSUME NEW i \in Sf..(p.seq - 1), Slot(i) = Slot(k) PROVE FALSE
      BY DEF FreedSlots
    <3>1. i \in Nat /\ i < k /\ k < i + SWindow /\ SWindow \in Nat \ {0}
      BY <1>t, <2>1
    <3>2. i % SWindow # k % SWindow
      BY <2>1, <3>1, ModDistinct, Zenon
    <3> QED
      BY <3>2 DEF Slot
  <2>3. Slot(k) \in DOMAIN cache
    BY <1>t, <2>1, SlotRange
  <2>4. CacheGet(k)
    BY <2>1 DEF FilledInv
  <2> QED
    BY <1>1, <2>2, <2>3, <2>4 DEF CacheGet, Slot
<1> QED
  BY <1>1, <1>2, <1>3 DEF FilledInv

LEMMA FilledThread ==
  TypeInv /\ PaceInv /\ FilledInv /\ Thread => PaceInv' /\ FilledInv'
<1> SUFFICES ASSUME TypeInv, PaceInv, FilledInv, Thread PROVE PaceInv' /\ FilledInv'
  OBVIOUS
<1>1. CASE Slide
  <2>1. /\ ackPc = "slide" /\ ackPc' # "slide" /\ Sf' = ackSeq
        /\ UNCHANGED <<mainPc, rcbSeq, frame, cache>>
    BY <1>1 DEF Slide, mainVars
  <2>2. FilledInv'
    BY <2>1 DEF FilledInv, Oldest, CacheGet
  <2> QED
    BY <1>1, <2>2, PaceSlide
<1>2. ASSUME NEW p \in toSender, AckNew(p)
      PROVE  PaceInv' /\ FilledInv'
  <2>1. PaceInv'
    BY <1>2, PaceKept DEF AckNew, mainVars
  <2> QED
    BY <1>2, <2>1, FilledAckNew
<1>3. CASE Timeout \/ Resend \/ \E p \in toSender : AckOther(p)
  <2>1. /\ ackPc \in {"select", "resend"} /\ ackPc' \in {"select", "resend"}
        /\ UNCHANGED <<mainVars, ackSeq, Sf, right, cache>>
    BY <1>3 DEF Timeout, Resend, AckOther
  <2>2. PaceInv'
    BY <2>1, PaceKept DEF mainVars
  <2>3. FilledInv'
    BY <2>1 DEF FilledInv, Oldest, CacheGet, mainVars
  <2> QED
    BY <2>2, <2>3
<1> QED
  BY <1>1, <1>2, <1>3 DEF Thread, ThreadStep

\* Whatever the channel loses, repeats, reorders or damages, the two threads never
\* wait for each other, when DATASIZE does not divide the length of the message:
\* without a lock, the main thread is let go on before mythread spins on a slot it
\* has not filled.  (When DATASIZE divides it, mythread waits for a last frame that
\* never comes, the finding of AllAckedFinishes.)
THEOREM ThreadsNeverBothWait ==
  ASSUME MsgLen % DataSize # 0
  PROVE  Spec => []NeverBothWait
<1>1. TypeInv /\ ReceiverInv /\ PaceInv /\ FilledInv /\ [Next]_vars => PaceInv' /\ FilledInv'
  <2> SUFFICES ASSUME TypeInv, ReceiverInv, PaceInv, FilledInv, [Next]_vars
               PROVE  PaceInv' /\ FilledInv'
    OBVIOUS
  <2>1. CASE Main
    BY <2>1, PaceMain, FilledMain DEF ReceiverInv
  <2>2. CASE Thread
    BY <2>2, FilledThread
  <2>3. CASE UNCHANGED senderVars
    <3>1. UNCHANGED <<mainPc, restlen, rcbSeq, Sn, frame, ackPc, ackSeq, Sf, right, cache>>
      BY <2>3 DEF senderVars, mainVars, threadVars
    <3> QED
      BY <3>1, PaceKept DEF FilledInv, Oldest, CacheGet
  <2> QED
    BY <2>1, <2>2, <2>3 DEF Next, Receiver, Channel, vars
<1>2. TypeInv /\ PaceInv /\ FilledInv => NeverBothWait
  <2> SUFFICES ASSUME TypeInv, PaceInv, FilledInv, MainWaits, ThreadWaits PROVE FALSE
    BY DEF NeverBothWait
  <2>1. ackPc = "resend" /\ ~CacheGet(Sf)
    BY DEF ThreadWaits
  <2>2. Sf < rcbSeq /\ Sf \in Nat /\ rcbSeq \in Nat
    BY <2>1, MainBehind DEF TypeInv, TypeOK, SenderTypeOK
  <2>3. Sf \in Oldest..(rcbSeq - 1)
    BY <2>1, <2>2 DEF Oldest
  <2> QED
    BY <2>1, <2>3 DEF FilledInv
<1> QED
  BY <1>1, <1>2, PaceInit, FilledInit, TypeInvariant, ReceiverInvariant, PTL DEF Spec
=============================================================================
