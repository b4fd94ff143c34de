---------------------------- MODULE OptSenderProofs ----------------------------
(***************************************************************************)
(* Between the two windows of the selective-repeat programs no frame is    *)
(* lost, for every message, frame size and pair of windows, as long as     *)
(* mythread believes no damaged ACK.                                       *)
(***************************************************************************)
EXTENDS OptProofs

USE NetworkAssumption, MessageAssumption, SWindowAssumption, RWindowAssumption

LEMMA OptSenderInvInit == Init => OptSenderInv
<1> SUFFICES ASSUME Init PROVE OptSenderInv
  OBVIOUS
<1> USE DEF Init, NetInit, SenderInit, RcbInit, WindowInit, ReceiverInit
<1>1. OptHandshakeInv
  BY DEF OptHandshakeInv, BeforeConnection, Connected, Open
<1>2. OptNumbersInv
  BY DEF OptNumbersInv, EmptySlot, Control
<1>3. OptCacheInv
  BY DEF OptCacheInv, Oldest, Cached
<1> QED
  BY <1>1, <1>2, <1>3 DEF OptSenderInv

-----------------------------------------------------------------------------
(* The main thread.                                                        *)

\* A step of the main thread that builds and caches no frame, and sends no more
\* than START or END.
LEMMA OptQuietMain ==
  ASSUME OptSenderInv, OptHandshakeInv',
         UNCHANGED <<receiverVars, toSender, corrupted, restlen, rcbSeq, frame, Sn,
                     threadVars, cache>>,
         mainPc \notin {"caching", "transmit"}, mainPc' \notin {"caching", "transmit"},
         Open' => Open,
         \A p \in toReceiver' : p \notin toReceiver => p.type # "DATA"
  PROVE  OptSenderInv'
<1> USE DEF receiverVars, threadVars
<1>1. OptNumbersInv'
  BY DEF OptSenderInv, OptNumbersInv, Trusted
<1>2. Oldest' = Oldest /\ Cached' = Cached
  BY DEF Oldest, Cached
<1>3. \A k : (Held(k) => Held(k)') /\ (Passed(k) => Passed(k)')
  BY DEF Held, Passed
<1>4. OptCacheInv'
  BY <1>2, <1>3 DEF OptSenderInv, OptCacheInv
<1> QED
  BY <1>1, <1>4 DEF OptSenderInv

\* Only the slot of the newest frame is written by the main thread.
LEMMA OptOtherSlots ==
  ASSUME TypeInv, OptSenderInv, NEW s \in Nat, s <= rcbSeq, s < Sf + SWindow,
         NEW k \in Oldest..(s - 1)
  PROVE  /\ Slot(k) \in 0..(SWindow - 1) /\ Slot(s) \in 0..(SWindow - 1)
         /\ Slot(k) # Slot(s)
<1>t. /\ Sf \in Nat /\ ackSeq \in Nat /\ rcbSeq \in Nat
      /\ (ackPc = "slide" => ackSeq >= Sf)
  BY DEF TypeInv, TypeOK, SenderTypeOK
<1>1. k \in Nat /\ Sf <= k /\ k < s /\ s < k + SWindow
  BY <1>t DEF Oldest
<1>2. k % SWindow # s % SWindow
  BY <1>1, ModDistinct, Zenon
<1> QED
  BY <1>1, <1>2, SlotRange DEF Slot

LEMMA OptSenderInvCacheFrame ==
  ASSUME TypeInv, ReceiverInv, OptSenderInv, CacheFrame,
         UNCHANGED <<receiverVars, toSender, corrupted>>
  PROVE  OptSenderInv'
<1>t. /\ restlen \in 0..MsgLen /\ rcbSeq \in Nat /\ Sn \in Nat /\ Sf \in Nat
      /\ right \in Nat /\ toReceiver \subseteq Packet /\ toSender \subseteq Packet
      /\ cache \in [0..(SWindow - 1) -> Packet]
  BY DEF TypeInv, TypeOK, SenderTypeOK, NetTypeOK
<1>a. /\ mainPc = "send" /\ mainPc' = "caching" /\ restlen > 0
      /\ rcbSeq' = rcbSeq + 1 /\ Sn' = Sn /\ toReceiver' = toReceiver
      /\ UNCHANGED threadVars /\ Sn <= right
  BY <1>t DEF CacheFrame, WindowOpen
<1>b. frame' = FrameOf(rcbSeq)
  BY <1>a, BuiltFrame DEF CacheFrame, ReceiverInv
<1>c. rcbSeq = Sn /\ rcbSeq < Sf + SWindow
  BY <1>a, <1>t DEF OptSenderInv, OptHandshakeInv, OptNumbersInv, Trusted
<1>d. \A i \in 0..(SWindow - 1) :
        cache'[i] = IF i = Slot(rcbSeq) THEN [FrameOf(rcbSeq) EXCEPT !.ok = FALSE]
                                        ELSE cache[i]
  BY <1>b, <1>t, SlotRange DEF CacheFrame
<1>n. \A n \in Nat : n < rcbSeq => n < rcbSeq'
  BY <1>a, <1>t
<1>1. OptHandshakeInv'
  BY <1>a, <1>c DEF OptSenderInv, OptHandshakeInv, BeforeConnection, Connected, Open,
     receiverVars, threadVars
<1>2. OptNumbersInv'
  <2>1. \A i \in 0..(SWindow - 1) :
          cache'[i].type # "END" /\ (cache'[i].type = "DATA" => cache'[i].seq < rcbSeq')
    <3> SUFFICES ASSUME NEW i \in 0..(SWindow - 1)
                 PROVE  /\ cache'[i].type # "END"
                        /\ cache'[i].type = "DATA" => cache'[i].seq < rcbSeq'
      OBVIOUS
    <3>1. CASE i = Slot(rcbSeq)
      <4>1. cache'[i].type = "DATA" /\ cache'[i].seq = rcbSeq
        BY <1>d, <3>1 DEF FrameOf, Data2Frame
      <4> QED
        BY <1>a, <1>t, <4>1
    <3>2. CASE i # Slot(rcbSeq)
      <4>1. cache'[i] = cache[i] /\ cache[i].seq \in Nat
        BY <1>d, <1>t, <3>2 DEF Packet
      <4> QED
        BY <1>n, <4>1 DEF OptSenderInv, OptNumbersInv, Trusted
    <3> QED
      BY <3>1, <3>2
  <2>2. \A p \in toReceiver : p.type = "DATA" /\ p.ok => p.seq < rcbSeq'
    BY <1>n, <1>t DEF OptSenderInv, OptNumbersInv, Trusted, Packet
  <2>3. Open => \A p \in toSender : p.type = "ACK" /\ p.ok => p.seq = 0 \/ p.seq < rcbSeq'
    BY <1>n, <1>t DEF OptSenderInv, OptNumbersInv, Trusted, Packet
  <2>4. rcbSeq' <= Sf + SWindow
    BY <1>a, <1>c, <1>t
  <2>5. Open
    BY <1>a DEF Open, Connected
  <2> QED
    BY <1>a, <2>1, <2>2, <2>3, <2>4, <2>5
    DEF OptSenderInv, OptNumbersInv, Trusted, receiverVars, threadVars
<1>3. OptCacheInv'
  <2>1. Cached = rcbSeq /\ Cached' = rcbSeq /\ Oldest' = Oldest
    BY <1>a, <1>t DEF Cached, Oldest, threadVars
  <2>2. frame' = FrameOf(rcbSeq' - 1)
    BY <1>a, <1>b, <1>t
  <2>3. ASSUME NEW k \in Oldest..(rcbSeq - 1)
        PROVE  cache'[Slot(k)] = FrameOf(k) \/ Held(k)' \/ Passed(k)'
    <3>1. cache[Slot(k)] = FrameOf(k) \/ Held(k) \/ Passed(k)
      BY <2>1 DEF OptSenderInv, OptCacheInv
    <3>2. cache'[Slot(k)] = cache[Slot(k)]
      BY <1>c, <1>d, <1>t, OptOtherSlots
    <3>3. Held(k) => Held(k)'
      BY DEF Held, receiverVars
    <3>4. Passed(k) => Passed(k)'
      BY <1>a, <3>2 DEF Passed, threadVars
    <3> QED
      BY <3>1, <3>2, <3>3, <3>4
  <2> QED
    BY <2>1, <2>2, <2>3 DEF OptCacheInv
<1> QED
  BY <1>1, <1>2, <1>3 DEF OptSenderInv

LEMMA OptSenderInvFrameCached ==
  ASSUME TypeInv, OptSenderInv, FrameCached, UNCHANGED <<receiverVars, toSender, corrupted>>
  PROVE  OptSenderInv'
<1>t. /\ rcbSeq \in Nat /\ Sn \in Nat /\ Sf \in Nat /\ ackSeq \in Nat
      /\ cache \in [0..(SWindow - 1) -> Packet]
  BY DEF TypeInv, TypeOK, SenderTypeOK
<1>a. /\ mainPc = "caching" /\ mainPc' = "transmit" /\ rcbSeq = Sn + 1
      /\ UNCHANGED <<restlen, rcbSeq, frame, Sn, threadVars, toReceiver>>
  BY DEF FrameCached, OptSenderInv, OptHandshakeInv
<1>b. frame = FrameOf(rcbSeq - 1) /\ rcbSeq - 1 \in Nat
  BY <1>a, <1>t DEF OptSenderInv, OptCacheInv
<1>d. \A i \in 0..(SWindow - 1) :
        cache'[i] = IF i = Slot(rcbSeq - 1) THEN FrameOf(rcbSeq - 1) ELSE cache[i]
  BY <1>b, <1>t DEF FrameCached
<1>w. rcbSeq - 1 < Sf + SWindow
  BY <1>t DEF OptSenderInv, OptNumbersInv, Trusted
<1>1. OptHandshakeInv'
  BY <1>a DEF OptSenderInv, OptHandshakeInv, BeforeConnection, Connected, Open,
     receiverVars, threadVars
<1>2. OptNumbersInv'
  <2>1. \A i \in 0..(SWindow - 1) :
          cache'[i].type # "END" /\ (cache'[i].type = "DATA" => cache'[i].seq < rcbSeq)
    <3>1. FrameOf(rcbSeq - 1).type = "DATA" /\ FrameOf(rcbSeq - 1).seq < rcbSeq
      BY <1>t DEF FrameOf, Data2Frame
    <3> QED
      BY <1>d, <3>1 DEF OptSenderInv, OptNumbersInv, Trusted
  <2>2. Open
    BY <1>a DEF Open, Connected
  <2> QED
    BY <1>a, <2>1, <2>2 DEF OptSenderInv, OptNumbersInv, Trusted, threadVars
<1>3. OptCacheInv'
  <2>1. Cached = rcbSeq - 1 /\ Cached' = rcbSeq /\ Oldest' = Oldest /\ Oldest \in Nat
    BY <1>a, <1>t DEF Cached, Oldest, threadVars
  <2>2. ASSUME NEW k \in Oldest..(rcbSeq - 1)
        PROVE  cache'[Slot(k)] = FrameOf(k) \/ Held(k)' \/ Passed(k)'
    <3>1. CASE k = rcbSeq - 1
      BY <1>b, <1>d, <3>1, SlotRange
    <3>2. CASE k # rcbSeq - 1
      <4>1. k \in Oldest..((rcbSeq - 1) - 1)
        BY <1>t, <2>1, <3>2
      <4>2. cache[Slot(k)] = FrameOf(k) \/ Held(k) \/ Passed(k)
        BY <2>1, <4>1 DEF OptSenderInv, OptCacheInv
      <4>3. rcbSeq - 1 <= rcbSeq
        BY <1>t
      <4>4. cache'[Slot(k)] = cache[Slot(k)]
        BY <1>b, <1>d, <1>w, <4>1, <4>3, OptOtherSlots
      <4>5. (Held(k) => Held(k)') /\ (Passed(k) => Passed(k)')
        BY <1>a, <4>4 DEF Held, Passed, receiverVars, threadVars
      <4> QED
        BY <4>2, <4>4, <4>5
    <3> QED
      BY <3>1, <3>2
  <2> QED
    BY <1>a, <1>b, <2>1, <2>2 DEF OptCacheInv
<1> QED
  BY <1>1, <1>2, <1>3 DEF OptSenderInv

LEMMA OptSenderInvTransmit ==
  ASSUME TypeInv, OptSenderInv, Transmit, UNCHANGED <<receiverVars, toSender, corrupted>>
  PROVE  OptSenderInv'
<1>t. rcbSeq \in Nat /\ Sn \in Nat
  BY DEF TypeInv, TypeOK, SenderTypeOK
<1>a. /\ mainPc = "transmit" /\ mainPc' = "send" /\ Sn' = Sn + 1 /\ rcbSeq = Sn + 1
      /\ ackPc' = IF Sn = 0 THEN "select" ELSE ackPc
      /\ toReceiver' = toReceiver \cup {FirstSending(frame)}
      /\ UNCHANGED <<restlen, rcbSeq, frame, ackSeq, Sf, right, cache>>
  BY DEF Transmit, SendToReceiver, OptSenderInv, OptHandshakeInv
<1>b. FirstSending(frame).type = "DATA" /\ FirstSending(frame).seq = rcbSeq - 1
  <2>1. frame = FrameOf(rcbSeq - 1)
    BY <1>a DEF OptSenderInv, OptCacheInv
  <2> QED
    BY <2>1 DEF FirstSending, FrameOf, Data2Frame
<1>1. OptHandshakeInv'
  BY <1>a, <1>b, <1>t DEF OptSenderInv, OptHandshakeInv, BeforeConnection, Connected, Open,
     receiverVars
<1>2. OptNumbersInv'
  <2>1. Open
    BY <1>a DEF Open, Connected
  <2>2. \A p \in toReceiver' : p.type = "DATA" /\ p.ok => p.seq < rcbSeq
    BY <1>a, <1>b, <1>t DEF OptSenderInv, OptNumbersInv, Trusted
  <2> QED
    BY <1>a, <2>1, <2>2 DEF OptSenderInv, OptNumbersInv, Trusted
<1>3. OptCacheInv'
  <2>1. ackPc = "slide" => ackPc' = "slide"
    BY <1>a DEF OptSenderInv, OptHandshakeInv
  <2>2. Oldest' = Oldest /\ Cached' = Cached
    BY <1>a, <2>1 DEF Oldest, Cached
  <2>3. \A k : (Held(k) => Held(k)') /\ (Passed(k) => Passed(k)')
    BY <1>a, <2>1 DEF Held, Passed, receiverVars
  <2> QED
    BY <1>a, <2>2, <2>3 DEF OptSenderInv, OptCacheInv
<1> QED
  BY <1>1, <1>2, <1>3 DEF OptSenderInv

LEMMA OptSenderInvMain ==
  TypeInv /\ ReceiverInv /\ OptSenderInv /\ OptMain => OptSenderInv'
<1> SUFFICES ASSUME TypeInv, ReceiverInv, OptSenderInv, OptMain PROVE OptSenderInv'
  OBVIOUS
<1>u. UNCHANGED <<receiverVars, toSender, corrupted>>
  BY DEF OptMain
<1>r. rPc' = rPc /\ endFlag' = endFlag
  BY <1>u DEF receiverVars
<1> DEFINE Still == UNCHANGED <<restlen, rcbSeq, frame, Sn, threadVars, cache>>
\* A connection that is not made, or that is over: mythread does not run.
<1>c. ASSUME Still, mainPc \notin {"caching", "transmit"},
             mainPc' \in {"abort", "noConnection", "crashed", "awaitEndAck",
                          "endAcked", "endUnacked"},
             ackPc \in {"notCreated", "returned"},
             BeforeConnection' => BeforeConnection,
             \A p \in toReceiver' : p \notin toReceiver => p.type # "DATA"
      PROVE  OptSenderInv'
  <2>1. ~Open' /\ ~Connected'
    BY <1>c DEF Open, Connected
  <2>2. mainPc' \notin {"caching", "transmit"}
    BY <1>c
  <2>3. OptHandshakeInv'
    BY <1>c, <1>u, <1>r, <2>1, <2>2 DEF OptSenderInv, OptHandshakeInv, threadVars
  <2> QED
    BY <1>c, <1>u, <2>1, <2>2, <2>3, OptQuietMain
<1>b. BeforeConnection => ackPc = "notCreated"
  BY DEF OptSenderInv, OptHandshakeInv
<1>e. ~Open => ackPc \in {"notCreated", "returned"}
  BY DEF OptSenderInv, OptHandshakeInv
<1>1. CASE SendStart
  <2>1. /\ mainPc = "connect" /\ mainPc' = "awaitAck" /\ Still
        /\ toReceiver' = toReceiver \cup {Control("START", 0)}
    BY <1>1 DEF SendStart, SendToReceiver
  <2>2. \A p \in toReceiver' : p \notin toReceiver => p.type = "START"
    BY <2>1 DEF Control
  <2>3. Open /\ Open' /\ ~Connected'
    BY <2>1 DEF Open, Connected
  <2>4. OptHandshakeInv'
    BY <1>u, <1>r, <2>1, <2>2, <2>3
    DEF OptSenderInv, OptHandshakeInv, BeforeConnection, threadVars
  <2>5. \A p \in toReceiver' : p \notin toReceiver => p.type # "DATA"
    BY <2>2
  <2> QED
    BY <1>u, <2>1, <2>3, <2>4, <2>5, OptQuietMain
<1>2. CASE ConnectTimeout
  BY <1>2, <1>b, <1>c DEF ConnectTimeout, GiveUp, BeforeConnection, SendToReceiver, Control
<1>3. CASE AbortEnd
  BY <1>3, <1>b, <1>c DEF AbortEnd, BeforeConnection
<1>4. CASE CacheFrame
  BY <1>4, <1>u, OptSenderInvCacheFrame
<1>5. CASE FrameCached
  BY <1>5, <1>u, OptSenderInvFrameCached
<1>6. CASE Transmit
  BY <1>6, <1>u, OptSenderInvTransmit
<1>7. CASE Finish
  BY <1>7, <1>c DEF Finish, SendEnd, BeforeConnection, SendToReceiver, Control
<1>8. CASE FinishEmpty
  BY <1>8, <1>c DEF FinishEmpty, SendEnd, BeforeConnection, SendToReceiver, Control
<1>9. CASE EndTimeout
  BY <1>9, <1>c, <1>e DEF EndTimeout, BeforeConnection, Open, Connected
<1>10. ASSUME NEW p \in toSender, ConnectReceive(p)
       PROVE  OptSenderInv'
  <2>1. CASE mainPc' # "send"
    BY <1>10, <2>1, <1>b, <1>c
    DEF ConnectReceive, GiveUp, BeforeConnection, SendToReceiver, Control
  <2>2. CASE mainPc' = "send"
    <3>1. Still /\ mainPc = "awaitAck" /\ UNCHANGED toReceiver
      BY <1>10, <2>2 DEF ConnectReceive, GiveUp
    <3>2. Open /\ Open' /\ rPc = "recv"
      BY <2>2, <3>1 DEF Open, Connected, OptSenderInv, OptHandshakeInv
    <3>3. OptHandshakeInv'
      BY <1>u, <1>r, <2>2, <3>1, <3>2
      DEF OptSenderInv, OptHandshakeInv, BeforeConnection, threadVars
    <3> QED
      BY <1>u, <2>2, <3>1, <3>2, <3>3, OptQuietMain
  <2> QED
    BY <2>1, <2>2
<1>11. ASSUME NEW p \in toSender, EndReceive(p)
       PROVE  OptSenderInv'
  BY <1>11, <1>c, <1>e DEF EndReceive, BeforeConnection, Open, Connected
<1> QED
  BY <1>1, <1>2, <1>3, <1>4, <1>5, <1>6, <1>7, <1>8, <1>9, <1>10, <1>11
  DEF OptMain, OptMainStep, OptConnect, OptSendMsg, OptAwaitEnd

-----------------------------------------------------------------------------
(* mythread.                                                               *)

\* While mythread runs the connection is there, and the receiver receives.
LEMMA OptRunning ==
  ASSUME TypeInv, OptSenderInv, ackPc \in {"select", "slide", "resend"}
  PROVE  Connected /\ Open /\ rPc = "recv"
<1>1. rcbSeq # 0 /\ ~BeforeConnection /\ Open
  BY DEF TypeInv, TypeOK, SenderTypeOK, OptSenderInv, OptHandshakeInv
<1>2. Connected
  BY <1>1 DEF Open, BeforeConnection
<1> QED
  BY <1>1, <1>2 DEF OptSenderInv, OptHandshakeInv

\* An ACK frees the slot of the one frame it names, and the receiver holds it;
\* or it is the ACK of START, and the slot of frame 0 is freed.
LEMMA OptSenderInvAckNew ==
  ASSUME TypeInv, OptReceiverInv, OptSenderInv, NEW p \in toSender, p.ok, OptAckNew(p),
         UNCHANGED <<receiverVars, toSender, corrupted>>
  PROVE  OptSenderInv'
<1>t. /\ rcbSeq \in Nat /\ Sf \in Nat /\ p.seq \in Nat
      /\ cache \in [0..(SWindow - 1) -> Packet]
  BY DEF TypeInv, TypeOK, SenderTypeOK, NetTypeOK, Packet
<1>a. /\ ackPc = "select" /\ ackPc' = "slide" /\ ackSeq' = Sf
      /\ p.type = "ACK" /\ p.seq >= Sf
      /\ cache' = [cache EXCEPT ![Slot(p.seq)] = EmptySlot]
      /\ UNCHANGED <<mainVars, Sf, right, toReceiver>>
  BY DEF OptAckNew, OptAdvances, OptFree
<1>o. Connected /\ Open /\ rPc = "recv"
  BY <1>a, OptRunning
<1>s. Slot(p.seq) \in 0..(SWindow - 1)
  BY <1>t, SlotRange
<1>d. \A i \in 0..(SWindow - 1) :
        cache'[i] = IF i = Slot(p.seq) THEN EmptySlot ELSE cache[i]
  BY <1>a, <1>t
<1>e. EmptySlot.type = "START" /\ EmptySlot.data.len = 0
  BY DEF EmptySlot, Control, NoPayload
<1>n. p.ok /\ (p.seq = 0 \/ p.seq < rcbSeq) /\ rcbSeq <= Sf + SWindow
  BY <1>a, <1>o DEF OptSenderInv, OptNumbersInv, Trusted
<1>1. OptHandshakeInv'
  BY <1>a DEF OptSenderInv, OptHandshakeInv, BeforeConnection, Connected, Open,
     mainVars, receiverVars
<1>2. OptNumbersInv'
  <2>1. \A i \in 0..(SWindow - 1) :
          cache'[i].type # "END" /\ (cache'[i].type = "DATA" => cache'[i].seq < rcbSeq)
    BY <1>d, <1>e DEF OptSenderInv, OptNumbersInv, Trusted
  <2> QED
    BY <1>a, <1>o, <2>1 DEF OptSenderInv, OptNumbersInv, Trusted, mainVars
<1>3. OptCacheInv'
  <2>1. Oldest = Sf /\ Oldest' = Sf /\ Cached' = Cached
    BY <1>a DEF Oldest, Cached, mainVars
  <2>2. ASSUME NEW k \in Sf..(Cached - 1)
        PROVE  cache'[Slot(k)] = FrameOf(k) \/ Held(k)' \/ Passed(k)'
    <3>1. k \in Nat /\ Sf <= k /\ k < Sf + SWindow
      BY <1>n, <1>t DEF Cached
    <3>2. cache[Slot(k)] = FrameOf(k) \/ Held(k)
      BY <1>a, <2>1 DEF OptSenderInv, OptCacheInv, Passed
    <3>3. Held(k) => Held(k)'
      BY DEF Held, receiverVars
    <3>4. CASE Slot(k) # Slot(p.seq)
      BY <1>d, <3>1, <3>2, <3>3, <3>4, SlotRange
    <3>5. CASE Slot(k) = Slot(p.seq)
      <4>1. p.seq < Sf + SWindow
        BY <1>a, <1>n, <1>t
      <4>2. k % SWindow = p.seq % SWindow
        BY <3>5 DEF Slot
      <4>3. k = p.seq
        BY <1>a, <1>t, <3>1, <4>1, <4>2, SlotsInjective, SWindowAssumption, Zenon
      <4>4. CASE p.seq > 0
        BY <1>a, <1>n, <1>o, <3>3, <4>3, <4>4 DEF OptReceiverInv, AckedIsHeld
      <4>5. CASE p.seq = 0
        <5>1. k = 0 /\ Sf = 0 /\ cache'[Slot(0)].data.len = 0
          BY <1>a, <1>d, <1>e, <1>s, <1>t, <4>3, <4>5
        <5> QED
          BY <1>a, <5>1 DEF Passed
      <4> QED
        BY <1>t, <4>4, <4>5
    <3> QED
      BY <3>4, <3>5
  <2> QED
    BY <1>a, <2>1, <2>2 DEF OptSenderInv, OptCacheInv, mainVars
<1> QED
  BY <1>1, <1>2, <1>3 DEF OptSenderInv

LEMMA OptSenderInvThread ==
  TypeInv /\ OptReceiverInv /\ OptSenderInv /\ OptThread /\ ~OptDeceived => OptSenderInv'
<1> SUFFICES ASSUME TypeInv, OptReceiverInv, OptSenderInv, OptThread, ~OptDeceived
             PROVE  OptSenderInv'
  OBVIOUS
<1>u. UNCHANGED <<receiverVars, toSender, corrupted>>
  BY DEF OptThread
<1>t. /\ rcbSeq \in Nat /\ Sf \in Nat /\ ackSeq \in Nat /\ right \in Nat
      /\ cache \in [0..(SWindow - 1) -> Packet]
      /\ (ackPc = "slide" => ackSeq >= Sf)
  BY DEF TypeInv, TypeOK, SenderTypeOK
<1>h. \A k : Held(k) => Held(k)'
  BY <1>u DEF Held, receiverVars
\* mythread goes to or comes from the retransmission.
<1>r. ASSUME ackPc \in {"select", "resend"}, ackPc' \in {"select", "resend"},
             UNCHANGED <<mainVars, ackSeq, Sf, right, cache>>,
             \A p \in toReceiver' : p \notin toReceiver =>
               p.type # "END" /\ (p.type = "DATA" => p.seq < rcbSeq)
      PROVE  OptSenderInv'
  <2> USE DEF mainVars
  <2>1. OptHandshakeInv'
    BY <1>u, <1>r DEF OptSenderInv, OptHandshakeInv, BeforeConnection, Connected, Open,
       receiverVars
  <2>2. OptNumbersInv'
    BY <1>u, <1>r DEF OptSenderInv, OptNumbersInv, Trusted, Connected, Open
  <2>3. Oldest' = Oldest /\ Cached' = Cached
    BY <1>r DEF Oldest, Cached
  <2>4. \A k : ~Passed(k)
    BY <1>r DEF Passed
  <2>5. OptCacheInv'
    BY <1>h, <1>r, <2>3, <2>4 DEF OptSenderInv, OptCacheInv
  <2> QED
    BY <2>1, <2>2, <2>5 DEF OptSenderInv
<1>1. CASE OptTimeout
  BY <1>1, <1>r DEF OptTimeout, Timeout
<1>2. CASE OptScan
  <2>a. /\ ackPc = "slide" /\ ackSeq' = ackSeq + 1
        /\ UNCHANGED <<mainVars, ackPc, Sf, right, cache, toReceiver>>
    BY <1>2 DEF OptScan
  <2> USE DEF mainVars
  <2>1. OptHandshakeInv'
    BY <1>u, <2>a DEF OptSenderInv, OptHandshakeInv, BeforeConnection, Connected, Open,
       receiverVars
  <2>2. OptNumbersInv'
    BY <1>u, <2>a DEF OptSenderInv, OptNumbersInv, Trusted, Connected, Open
  <2>3. Oldest = ackSeq /\ Oldest' = ackSeq + 1 /\ Cached' = Cached /\ Cached \in Int
    BY <1>t, <2>a DEF Oldest, Cached
  <2>4. ASSUME NEW k \in Oldest'..(Cached - 1)
        PROVE  k \in Oldest..(Cached - 1) /\ ~Passed(k)
    BY <1>t, <2>3 DEF Passed
  <2>5. OptCacheInv'
    BY <1>h, <2>a, <2>3, <2>4 DEF OptSenderInv, OptCacheInv
  <2> QED
    BY <2>1, <2>2, <2>5 DEF OptSenderInv
<1>3. CASE OptSlide
  <2>a. /\ ackPc = "slide" /\ Sf' = ackSeq /\ right' = right + (ackSeq - Sf)
        /\ ackPc' \in {"returned", "select"} /\ ~ScanOn
        /\ UNCHANGED <<mainVars, ackSeq, cache, toReceiver>>
    BY <1>3 DEF OptSlide, Slide
  <2> USE DEF mainVars
  <2>1. OptHandshakeInv'
    BY <1>u, <2>a DEF OptSenderInv, OptHandshakeInv, BeforeConnection, Connected, Open,
       receiverVars
  <2>2. OptNumbersInv'
    <3>1. right' = Sf' + SWindow - 1 /\ rcbSeq <= Sf' + SWindow
      BY <1>t, <2>a DEF OptSenderInv, OptNumbersInv, Trusted
    <3> QED
      BY <1>u, <2>a, <3>1 DEF OptSenderInv, OptNumbersInv, Trusted, Connected, Open
  <2>3. Oldest' = Oldest /\ Cached' = Cached
    BY <2>a DEF Oldest, Cached
  <2>4. ASSUME NEW k, Passed(k)
        PROVE  FALSE
    BY <1>t, <2>4, <2>a DEF Passed, ScanOn, OptCacheGet, Packet, Payload
  <2>5. OptCacheInv'
    BY <1>h, <2>a, <2>3, <2>4 DEF OptSenderInv, OptCacheInv
  <2> QED
    BY <2>1, <2>2, <2>5 DEF OptSenderInv
<1>4. CASE OptResend
  <2> DEFINE q == cache[Slot(Sf)]
  <2>1. /\ ackPc = "resend" /\ ackPc' = "select"
        /\ toReceiver' = toReceiver \cup {q}
        /\ UNCHANGED <<mainVars, ackSeq, Sf, right, cache>>
    BY <1>4 DEF OptResend, SendToReceiver
  <2>2. q.type # "END" /\ (q.type = "DATA" => q.seq < rcbSeq)
    BY <1>t, SlotRange DEF OptSenderInv, OptNumbersInv, Trusted
  <2> QED
    BY <1>r, <2>1, <2>2
<1>5. ASSUME NEW p \in toSender, OptAckNew(p)
      PROVE  OptSenderInv'
  BY <1>5, <1>u, OptSenderInvAckNew DEF OptDeceived
<1>6. ASSUME NEW p \in toSender, OptAckOther(p)
      PROVE  OptSenderInv'
  BY <1>6, <1>r DEF OptAckOther
<1> QED
  BY <1>1, <1>2, <1>3, <1>4, <1>5, <1>6 DEF OptThread, OptThreadStep

-----------------------------------------------------------------------------
(* The receiver and the channel.                                           *)

\* The receiver never gives up a frame it holds.
LEMMA HeldGrows ==
  TypeInv /\ OptReceiverInv /\ OptReceiverTurn => \A k \in Nat : Held(k) => Held(k)'
<1> SUFFICES ASSUME TypeInv, OptReceiverInv, OptReceiverTurn
             PROVE  \A k \in Nat : Held(k) => Held(k)'
  OBVIOUS
<1>i. ReceiverInv
  BY DEF OptReceiverInv
<1>q. UNCHANGED <<rSf, rCache>> => \A k \in Nat : Held(k) => Held(k)'
  BY DEF Held
<1>1. CASE OptWriteFile
  BY <1>1, <1>q DEF OptWriteFile, WriteFile
<1>2. ASSUME NEW p \in toReceiver, OptReceive(p)
      PROVE  \A k \in Nat : Held(k) => Held(k)'
  <2>1. CASE OptListen(p) \/ Drop(p) \/ ReceiveEnd(p) \/ OptReceiveOld(p)
             \/ OptReceiveBeyond(p)
    BY <2>1, <1>q DEF OptListen, Drop, ReceiveEnd, OptReceiveOld, OptReceiveBeyond,
       receiverVars
  <2>2. CASE OptReceiveEarly(p)
    BY <2>2, <1>i, HeldAfterKeeping DEF OptReceiveEarly
  <2>3. CASE OptReceiveNext(p)
    <3>1. PICK n \in 0..RWindow : rCache' = CacheDe(CacheAdd(p), n) /\ rSf' = rSf + n
      BY <2>3 DEF OptReceiveNext, OptCacheDe
    <3>2. IsData(p) /\ InWindow(p.seq) /\ p.seq = rSf
      BY <2>3 DEF OptReceiveNext
    <3>3. CASE n = 0
      <4>1. rSf' = rSf
        BY <3>1, <3>3 DEF TypeInv, TypeOK, ReceiverTypeOK
      <4>2. rCache' = CacheAdd(p)
        BY <3>1, <3>3, NothingCopied
      <4> QED
        BY <1>i, <3>2, <4>1, <4>2, HeldAfterKeeping
    <3>4. CASE n > 0
      <4>1. n \in 1..RWindow
        BY <3>4
      <4> QED
        BY <1>i, <3>1, <3>2, <4>1, HeldAfterCopying
    <3> QED
      BY <3>3, <3>4
  <2> QED
    BY <1>2, <2>1, <2>2, <2>3 DEF OptReceive
<1> QED
  BY <1>1, <1>2 DEF OptReceiverTurn, OptReceiverStep

\* Whatever the receiver answers has a good checksum, and nothing is answered
\* before the connection is there.
LEMMA OptAnswersGood ==
  ASSUME OptReceiverTurn
  PROVE  /\ rPc' # "listen"
         /\ rPc' = "refused" => rPc = "listen" /\ toSender' = toSender
         /\ \A q \in toSender' : q \notin toSender => q.ok
<1> USE DEF SendToSender, Ack, Control
<1>1. CASE OptWriteFile
  BY <1>1 DEF OptWriteFile, WriteFile
<1>2. ASSUME NEW p \in toReceiver, OptReceive(p)
      PROVE  /\ rPc' # "listen"
             /\ rPc' = "refused" => rPc = "listen" /\ toSender' = toSender
             /\ \A q \in toSender' : q \notin toSender => q.ok
  <2>1. CASE OptListen(p)
    BY <2>1 DEF OptListen
  <2>2. CASE Drop(p) \/ OptReceiveOld(p) \/ OptReceiveBeyond(p)
    BY <2>2 DEF Drop, OptReceiveOld, OptReceiveBeyond, IsData, receiverVars
  <2>3. CASE ReceiveEnd(p)
    BY <2>3 DEF ReceiveEnd
  <2>4. ASSUME NEW sf, IsData(p), OptAccepted(p, sf)
        PROVE  /\ rPc' \in {"recv", "finish"}
               /\ \A q \in toSender' : q \notin toSender => q.ok
    BY <2>4 DEF IsData, OptAccepted
  <2>5. CASE OptReceiveEarly(p) \/ OptReceiveNext(p)
    BY <2>4, <2>5 DEF OptReceiveEarly, OptReceiveNext
  <2> QED
    BY <1>2, <2>1, <2>2, <2>3, <2>5 DEF OptReceive
<1> QED
  BY <1>1, <1>2 DEF OptReceiverTurn, OptReceiverStep

\* While the connection is open the receiver has not seen END: it goes on, and
\* answers to a frame with its number and to START with 0.
LEMMA OptOpenAnswers ==
  ASSUME OptSenderInv, OptReceiverTurn, Open
  PROVE  /\ endFlag' = endFlag
         /\ rPc' \in {"refused", "recv"}
         /\ rPc = "recv" => rPc' = "recv"
         /\ \A q \in toSender' :
              \/ q \in toSender \/ q.seq = 0
              \/ \E p \in toReceiver : p.type = "DATA" /\ p.ok /\ q.seq = p.seq
<1> USE DEF SendToSender, Ack, Control
<1> DEFINE Goes == /\ endFlag' = endFlag
                   /\ rPc' \in {"refused", "recv"}
                   /\ rPc = "recv" => rPc' = "recv"
                   /\ \A q \in toSender' :
                        \/ q \in toSender \/ q.seq = 0
                        \/ \E p \in toReceiver : p.type = "DATA" /\ p.ok /\ q.seq = p.seq
<1>o. /\ ~endFlag /\ rPc \in {"listen", "refused", "recv"}
      /\ \A p \in toReceiver : p.ok => p.type # "END"
  BY DEF OptSenderInv, OptHandshakeInv
<1>1. ~OptWriteFile
  BY <1>o DEF OptWriteFile, WriteFile
<1>2. ASSUME NEW p \in toReceiver, OptReceive(p)
      PROVE  Goes
  <2>1. CASE OptListen(p)
    BY <2>1 DEF OptListen
  <2>2. CASE Drop(p) \/ OptReceiveOld(p) \/ OptReceiveBeyond(p)
    BY <2>2 DEF Drop, OptReceiveOld, OptReceiveBeyond, IsData, receiverVars
  <2>3. ~ReceiveEnd(p)
    BY <1>o DEF ReceiveEnd
  <2>4. ASSUME NEW sf, IsData(p), OptAccepted(p, sf), endFlag' = endFlag
        PROVE  Goes
    BY <1>o, <2>4 DEF IsData, OptAccepted
  <2>5. CASE OptReceiveEarly(p)
    BY <2>4, <2>5 DEF OptReceiveEarly
  <2>6. CASE OptReceiveNext(p)
    BY <2>4, <2>6 DEF OptReceiveNext
  <2> QED
    BY <1>2, <2>1, <2>2, <2>3, <2>5, <2>6 DEF OptReceive
<1> QED
  BY <1>1, <1>2 DEF OptReceiverTurn, OptReceiverStep

LEMMA OptSenderInvReceiver ==
  TypeInv /\ OptReceiverInv /\ OptSenderInv /\ OptReceiverTurn => OptSenderInv'
<1> SUFFICES ASSUME TypeInv, OptReceiverInv, OptSenderInv, OptReceiverTurn
             PROVE  OptSenderInv'
  OBVIOUS
<1>u. UNCHANGED <<mainPc, restlen, rcbSeq, frame, Sn, ackPc, ackSeq, Sf, right, cache,
                  toReceiver, corrupted>>
  BY DEF OptReceiverTurn, senderVars, mainVars, threadVars
<1>o. Open' = Open /\ Connected' = Connected
  BY <1>u DEF Open, Connected
<1>t. Sf \in Nat /\ ackSeq \in Nat
  BY DEF TypeInv, TypeOK, SenderTypeOK
<1>1. OptHandshakeInv'
  <2>1. rPc' \in {"listen", "refused"} => toSender' = {}
    BY OptAnswersGood DEF OptSenderInv, OptHandshakeInv
  <2>2. Open => ~endFlag' /\ rPc' \in {"refused", "recv"} /\ (rPc = "recv" => rPc' = "recv")
    BY OptOpenAnswers DEF OptSenderInv, OptHandshakeInv
  <2>3. Connected => Open
    BY DEF Open
  <2> QED
    BY <1>u, <1>o, <2>1, <2>2, <2>3 DEF OptSenderInv, OptHandshakeInv, BeforeConnection
<1>2. OptNumbersInv'
  <2>1. \A q \in toSender' : Trusted(q) => q.ok
    BY OptAnswersGood DEF OptSenderInv, OptNumbersInv, Trusted
  <2>2. ASSUME Open, NEW q \in toSender', q.type = "ACK", q.ok
        PROVE  q.seq = 0 \/ q.seq < rcbSeq
    <3>1. \/ q \in toSender \/ q.seq = 0
          \/ \E p \in toReceiver : p.type = "DATA" /\ p.ok /\ q.seq = p.seq
      BY <2>2, OptOpenAnswers
    <3> QED
      BY <2>2, <3>1 DEF OptSenderInv, OptNumbersInv, Trusted
  <2> QED
    BY <1>u, <1>o, <2>1, <2>2 DEF OptSenderInv, OptNumbersInv, Trusted
<1>3. OptCacheInv'
  <2>1. Oldest' = Oldest /\ Cached' = Cached /\ Oldest \in Nat
    BY <1>t, <1>u DEF Oldest, Cached
  <2>2. ASSUME NEW k \in Oldest..(Cached - 1)
        PROVE  cache[Slot(k)] = FrameOf(k) \/ Held(k)' \/ Passed(k)'
    <3>1. k \in Nat /\ (Passed(k) => Passed(k)')
      BY <1>u, <2>1 DEF Passed
    <3>2. Held(k) => Held(k)'
      BY <3>1, HeldGrows
    <3> QED
      BY <3>1, <3>2 DEF OptSenderInv, OptCacheInv
  <2> QED
    BY <1>u, <2>1, <2>2 DEF OptSenderInv, OptCacheInv
<1> QED
  BY <1>1, <1>2, <1>3 DEF OptSenderInv

\* A step of the channel, or none: a damaged packet is trusted no more.
LEMMA OptSenderInvFewer ==
  ASSUME OptSenderInv, UNCHANGED <<senderVars, receiverVars>>,
         \A p \in toReceiver' : p.ok => p \in toReceiver,
         \A p \in toSender' : p.ok => p \in toSender,
         toSender = {} => toSender' = {},
         corrupted' = 0 => corrupted = 0 /\ toSender' \subseteq toSender
  PROVE  OptSenderInv'
<1> USE DEF senderVars, mainVars, threadVars, receiverVars
<1>1. OptHandshakeInv'
  BY DEF OptSenderInv, OptHandshakeInv, BeforeConnection, Connected, Open
<1>2. OptNumbersInv'
  BY DEF OptSenderInv, OptNumbersInv, Trusted, Connected, Open
<1>3. Oldest' = Oldest /\ Cached' = Cached
      /\ \A k : (Held(k) => Held(k)') /\ (Passed(k) => Passed(k)')
  BY DEF Oldest, Cached, Held, Passed
<1>4. OptCacheInv'
  BY <1>3 DEF OptSenderInv, OptCacheInv
<1> QED
  BY <1>1, <1>2, <1>4 DEF OptSenderInv

LEMMA OptSenderInvChannel == TypeInv /\ OptSenderInv /\ Channel => OptSenderInv'
<1> SUFFICES ASSUME TypeInv, OptSenderInv, Channel PROVE OptSenderInv'
  OBVIOUS
<1>1. UNCHANGED <<senderVars, receiverVars>>
  BY DEF Channel
<1>2. CASE Lose
  <2>1. /\ toReceiver' \subseteq toReceiver /\ toSender' \subseteq toSender
        /\ corrupted' = corrupted
    BY <1>2 DEF Lose
  <2> QED
    BY <1>1, <2>1, OptSenderInvFewer
<1>3. CASE Corrupt
  <2>1. corrupted' # 0
    BY <1>3 DEF Corrupt, TypeInv, TypeOK, NetTypeOK
  <2>2. \A p \in Packet : \A t, n : Damaged(p, t, n).ok = FALSE
    BY DEF Damaged, Packet
  <2>3. /\ \A p \in toReceiver' : p.ok => p \in toReceiver
        /\ \A p \in toSender' : p.ok => p \in toSender
        /\ toSender = {} => toSender' = {}
    BY <1>3, <2>2 DEF Corrupt, Damaging, TypeInv, TypeOK, NetTypeOK
  <2> QED
    BY <1>1, <2>1, <2>3, OptSenderInvFewer
<1> QED
  BY <1>2, <1>3 DEF Channel

LEMMA OptSenderInvStutter == OptSenderInv /\ UNCHANGED vars => OptSenderInv'
BY OptSenderInvFewer DEF vars, netVars

\* OptSenderInv holds whatever the channel does, as long as mythread believes no
\* damaged ACK.
THEOREM OptSenderInvariant == OptSpec /\ OptUndeceived => []OptSenderInv
<1>1. OptReceiverInv => ReceiverInv
  BY DEF OptReceiverInv
<1>2. TypeInv /\ OptReceiverInv /\ OptSenderInv /\ [OptNext]_vars /\ [~OptDeceived]_vars
        => OptSenderInv'
  BY <1>1, OptSenderInvMain, OptSenderInvThread, OptSenderInvReceiver,
     OptSenderInvChannel, OptSenderInvStutter DEF OptNext
<1> QED
  BY <1>2, OptSenderInvInit, OptTypeInvariant, OptReceiverInvariant, PTL
  DEF OptSpec, OptUndeceived

\* A channel that damages nothing does not deceive mythread.
THEOREM OptUndamagedUndeceived ==
  ASSUME MaxCorrupt = 0
  PROVE  OptSpec => OptUndeceived
<1>1. OptReceiverInv => ReceiverInv
  BY DEF OptReceiverInv
<1>2. TypeInv /\ OptSenderInv => ~OptDeceived
  <2>1. TypeInv => corrupted = 0
    BY DEF TypeInv, TypeOK, NetTypeOK
  <2> QED
    BY <2>1 DEF OptDeceived, OptSenderInv, OptNumbersInv, Trusted
<1>3. TypeInv /\ OptReceiverInv /\ OptSenderInv /\ [OptNext]_vars => OptSenderInv'
  BY <1>1, <1>2, OptSenderInvMain, OptSenderInvThread, OptSenderInvReceiver,
     OptSenderInvChannel, OptSenderInvStutter DEF OptNext
<1>4. TypeInv /\ OptSenderInv => [~OptDeceived]_vars
  BY <1>2
<1> QED
  BY <1>3, <1>4, OptSenderInvInit, OptTypeInvariant, OptReceiverInvariant, PTL
  DEF OptSpec, OptUndeceived

\* No frame is lost between the two windows of the selective-repeat programs: a
\* frame that was sent and is not behind the left border is in its slot of the
\* sender's cache or held by the receiver.  What they do lose, they lose by moving
\* the border over it.
THEOREM OptNothingLostBetween == OptSpec /\ OptUndeceived => []UnackedIsCached
<1>1. TypeInv /\ OptSenderInv => UnackedIsCached
  <2> SUFFICES ASSUME TypeInv, OptSenderInv, ackPc # "slide", NEW k \in Sf..(Sn - 1)
               PROVE  cache[Slot(k)] = FrameOf(k) \/ Held(k)
    BY DEF UnackedIsCached
  <2>t. Sf \in Nat /\ Sn \in Nat /\ rcbSeq \in Nat
    BY DEF TypeInv, TypeOK, SenderTypeOK
  <2>1. Sn <= Cached /\ Cached \in Int /\ Oldest = Sf
    BY <2>t DEF OptSenderInv, OptHandshakeInv, Cached, Oldest
  <2>2. k \in Oldest..(Cached - 1) /\ ~Passed(k)
    BY <2>t, <2>1 DEF Passed
  <2> QED
    BY <2>2 DEF OptSenderInv, OptCacheInv
<1> QED
  BY <1>1, OptSenderInvariant, OptTypeInvariant, PTL

-----------------------------------------------------------------------------
(* What the scan has passed is delivered, when it skips no frame.          *)

LEMMA OptConfirmedInit == Init => OptConfirmedInv
<1> SUFFICES ASSUME Init PROVE OptConfirmedInv
  OBVIOUS
<1>1. Oldest = 0
  BY DEF Init, SenderInit, WindowInit, Oldest
<1>2. RSlot(0) \in 0..(RWindow - 1)
  BY SlotRange
<1>3. rCache[RSlot(rSf)].type = "START" /\ ackPc = "notCreated"
  BY <1>2 DEF Init, SenderInit, WindowInit, ReceiverInit, EmptyRSlot, Control
<1> QED
  BY <1>1, <1>3 DEF OptConfirmedInv

\* A step that leaves the receiver alone and frees nothing.
LEMMA OptConfirmedKept ==
  ASSUME OptConfirmedInv, UNCHANGED <<receiverVars, Sf>>, Oldest' = Oldest,
         ackPc' = "returned" => ackPc = "returned"
  PROVE  OptConfirmedInv'
BY DEF OptConfirmedInv, Held, receiverVars

\* What the scan has passed is delivered: the receiver would have the next frame
\* it wants in its cache else.
LEMMA OptPassedDelivered ==
  ASSUME TypeInv, OptConfirmedInv, ~endFlag,
         NEW n \in Nat, n <= Oldest, n <= NumFrames
  PROVE  n <= rSf
<1>t. /\ rSf \in Nat /\ Sf \in Nat /\ ackSeq \in Nat /\ Oldest \in Nat
      /\ NumFrames \in Nat
  BY LastFrame DEF TypeInv, TypeOK, SenderTypeOK, ReceiverTypeOK, Oldest
<1> SUFFICES ASSUME rSf < n PROVE FALSE
  BY <1>t
<1>1. rSf \in 0..(Oldest - 1) /\ rSf < NumFrames
  BY <1>t
<1>2. Held(rSf)
  BY <1>1 DEF OptConfirmedInv
<1>3. ~(rSf < rSf)
  BY <1>t
<1> QED
  BY <1>2, <1>3 DEF OptConfirmedInv, Held

\* The frame whose slot the scan passes is held.
LEMMA OptConfirmedScan ==
  ASSUME NoEmptyChunk, TypeInv, OptSenderInv, OptConfirmedInv, OptScan, ~OptSkips,
         UNCHANGED receiverVars
  PROVE  OptConfirmedInv'
<1>t. /\ Sf \in Nat /\ ackSeq \in Nat /\ NumFrames \in Nat /\ Cached \in Int
  BY LastFrame DEF TypeInv, TypeOK, SenderTypeOK, Cached
<1>a. /\ ackPc = "slide" /\ ackPc' = "slide" /\ ackSeq' = ackSeq + 1 /\ Sf' = Sf
      /\ ~(cache[Slot(ackSeq)].data.len > 0)
  BY DEF OptScan, ScanOn, OptCacheGet
<1>1. Oldest = ackSeq /\ Oldest' = ackSeq + 1
  BY <1>a DEF Oldest
<1>2. ackSeq < NumFrames => Held(ackSeq)
  <2> SUFFICES ASSUME ackSeq < NumFrames PROVE Held(ackSeq)
    OBVIOUS
  <2>1. ackSeq < Cached /\ (ackSeq = 0 => Held(0))
    BY <1>t DEF OptSkips
  <2>2. ackSeq \in Oldest..(Cached - 1)
    BY <1>t, <1>1, <2>1
  <2>3. cache[Slot(ackSeq)] = FrameOf(ackSeq) \/ Held(ackSeq) \/ Passed(ackSeq)
    BY <2>2 DEF OptSenderInv, OptCacheInv
  <2>4. FrameOf(ackSeq).data.len > 0
    BY <1>t DEF NoEmptyChunk
  <2> QED
    BY <1>a, <2>1, <2>3, <2>4 DEF Passed
<1>3. ASSUME NEW k \in 0..(Oldest' - 1), k < NumFrames
      PROVE  Held(k)'
  <2>1. k \in 0..(Oldest - 1) \/ k = ackSeq
    BY <1>t, <1>1
  <2>2. Held(k)
    BY <1>2, <1>3, <2>1 DEF OptConfirmedInv
  <2> QED
    BY <2>2 DEF Held, receiverVars
<1> QED
  BY <1>a, <1>3 DEF OptConfirmedInv, receiverVars

\* mythread returns: the last frames are delivered.
LEMMA OptConfirmedSlide ==
  ASSUME TypeInv, OptSenderInv, OptConfirmedInv, OptSlide, UNCHANGED receiverVars
  PROVE  OptConfirmedInv'
<1>t. ackSeq \in Nat
  BY DEF TypeInv, TypeOK, SenderTypeOK
<1>a. /\ ackPc = "slide" /\ Sf' = ackSeq
      /\ ackPc' = IF ackSeq >= EndSeqnum THEN "returned" ELSE "select"
  BY DEF OptSlide, Slide
<1>1. Oldest = ackSeq /\ Oldest' = Oldest
  BY <1>a DEF Oldest
<1>2. ~endFlag
  BY <1>a, OptRunning DEF OptSenderInv, OptHandshakeInv
<1>3. ackSeq >= EndSeqnum => rSf >= NumFrames
  <2>1. NumFrames \in Nat /\ NumFrames <= EndSeqnum /\ EndSeqnum \in Int
    BY NumFramesBounds DEF EndSeqnum
  <2>2. ackSeq >= EndSeqnum => NumFrames <= Oldest
    BY <1>t, <1>1, <2>1
  <2> QED
    BY <1>2, <2>1, <2>2, OptPassedDelivered
<1> QED
  BY <1>a, <1>1, <1>3 DEF OptConfirmedInv, Held, receiverVars

LEMMA OptConfirmedThread ==
  ASSUME NoEmptyChunk
  PROVE  TypeInv /\ OptSenderInv /\ OptConfirmedInv /\ OptThread /\ ~OptSkips
           => OptConfirmedInv'
<1> SUFFICES ASSUME TypeInv, OptSenderInv, OptConfirmedInv, OptThread, ~OptSkips
             PROVE  OptConfirmedInv'
  OBVIOUS
<1>u. UNCHANGED receiverVars
  BY DEF OptThread
<1>1. CASE OptScan
  BY <1>1, <1>u, OptConfirmedScan
<1>2. CASE OptSlide
  BY <1>2, <1>u, OptConfirmedSlide
<1>3. CASE OptTimeout \/ OptResend
  BY <1>3, <1>u, OptConfirmedKept DEF OptTimeout, Timeout, OptResend, Oldest
<1>4. ASSUME NEW p \in toSender, OptAckNew(p) \/ OptAckOther(p)
      PROVE  OptConfirmedInv'
  BY <1>4, <1>u, OptConfirmedKept DEF OptAckNew, OptAckOther, Oldest
<1> QED
  BY <1>1, <1>2, <1>3, <1>4 DEF OptThread, OptThreadStep

\* The main thread starts mythread, and neither ends it nor frees a slot.
LEMMA OptMainStarts ==
  ASSUME OptSenderInv, OptMain
  PROVE  /\ UNCHANGED <<receiverVars, Sf, ackSeq>>
         /\ ackPc' = ackPc \/ (ackPc = "notCreated" /\ ackPc' = "select")
<1>1. /\ UNCHANGED <<Sf, ackSeq>>
      /\ ackPc' = ackPc \/ (Sn = 0 /\ ackPc' = "select")
  BY DEF OptMain, OptMainStep, OptConnect, OptSendMsg, OptAwaitEnd, SendStart,
         ConnectTimeout, ConnectReceive, AbortEnd, CacheFrame, FrameCached, Transmit,
         Finish, FinishEmpty, EndTimeout, EndReceive, threadVars
<1>2. Sn = 0 => ackPc = "notCreated"
  BY DEF OptSenderInv, OptHandshakeInv
<1> QED
  BY <1>1, <1>2 DEF OptMain

LEMMA OptConfirmedMain == OptSenderInv /\ OptConfirmedInv /\ OptMain => OptConfirmedInv'
<1> SUFFICES ASSUME OptSenderInv, OptConfirmedInv, OptMain PROVE OptConfirmedInv'
  OBVIOUS
<1>1. Oldest' = Oldest
  BY OptMainStarts DEF Oldest
<1> QED
  BY <1>1, OptMainStarts, OptConfirmedKept

\* A frame in a slot is the one numbered n.
Keeps(slot, n) == slot.type = "DATA" /\ slot.seq = n

\* After the frames from rSf on are copied, the next one is not in its slot: the copy
\* loop would have taken it, unless END has named its number.
LEMMA OptNextNotKept ==
  ASSUME NoEmptyChunk, TypeInv, OptReceiverInv, NumbersInv,
         NEW p \in toReceiver, OptReceiveNext(p), ~endFlag,
         FramesInv', NumbersInv'
  PROVE  ~Keeps(rCache'[RSlot(rSf')], rSf')
<1>t. /\ rSf \in Nat /\ rCache \in [0..(RWindow - 1) -> Packet] /\ RWindow \in Nat
      /\ NumFrames \in Nat
  BY LastFrame DEF TypeInv, TypeOK, ReceiverTypeOK
<1>p. IsData(p) /\ p.seq = rSf
  BY DEF OptReceiveNext
<1>e. endSeq = 0
  BY <1>t DEF OptReceiverInv, ReceiverInv, EndInv, TypeInv, TypeOK, ReceiverTypeOK
\* No frame of the message is empty.
<1>f. ASSUME NEW q, q.type = "DATA", TrueFrame(q), Numbered(q), q.seq \in Nat
      PROVE  q.data.len > 0
  <2>1. q.seq \in 0..(NumFrames - 1)
    BY <1>f, <1>t DEF Numbered
  <2> QED
    BY <1>f, <2>1 DEF NoEmptyChunk, TrueFrame
<1>1. PICK n \in 0..RWindow :
         /\ OptCopyStops(CacheAdd(p), n)
         /\ rCache' = CacheDe(CacheAdd(p), n)
         /\ rSf' = rSf + n
  BY DEF OptReceiveNext, OptCacheDe
<1>s. RSlot(rSf) \in 0..(RWindow - 1) /\ RSlot(rSf + n) \in 0..(RWindow - 1)
  <2>1. rSf + n \in Nat
    BY <1>t
  <2> QED
    BY <1>t, <2>1, SlotRange
<1>2. n # 0
  <2> SUFFICES ASSUME n = 0 PROVE FALSE
    OBVIOUS
  <2>1. CacheAdd(p)[RSlot(rSf + n)] = p
    BY <1>p, <1>s, <1>t DEF CacheAdd
  <2>2. p.data.len > 0
    <3>1. TrueFrame(p) /\ Numbered(p) /\ p.seq \in Nat /\ p.type = "DATA"
      BY <1>p, <1>t DEF OptReceiverInv, ReceiverInv, FramesInv, NumbersInv, IsData
    <3> QED
      BY <1>f, <3>1
  <2>3. RWindow # 0
    BY RWindowAssumption
  <2> QED
    BY <1>1, <2>1, <2>2, <2>3 DEF OptCopyStops
<1> SUFFICES ASSUME Keeps(rCache'[RSlot(rSf + n)], rSf + n) PROVE FALSE
  BY <1>1
<1> DEFINE q == rCache'[RSlot(rSf + n)]
<1>3. q.data.len > 0
  <2>1. TrueFrame(q) /\ Numbered(q)
    BY <1>s DEF FramesInv, NumbersInv
  <2>2. q.type = "DATA" /\ q.seq \in Nat
    BY <1>t DEF Keeps
  <2> QED
    BY <1>f, <2>1, <2>2
<1>4. q = CacheAdd(p)[RSlot(rSf + n)]
      /\ RSlot(rSf + n) \notin {RSlot(rSf + j) : j \in 0..(n - 1)}
  <2>1. q.type = "DATA"
    BY DEF Keeps
  <2>2. DOMAIN CacheAdd(p) = 0..(RWindow - 1)
    BY <1>t DEF CacheAdd
  <2> QED
    BY <1>1, <1>s, <2>1, <2>2 DEF CacheDe, EmptyRSlot, Control
<1>5. n = RWindow
  <2>1. rSf + n # endSeq
    BY <1>e, <1>t, <1>2
  <2> QED
    BY <1>1, <1>3, <1>4, <2>1, <1>t DEF OptCopyStops
<1>6. RSlot(rSf + n) = RSlot(rSf)
  <2>1. (rSf + RWindow) % RWindow = rSf % RWindow
    BY <1>t, ModShift, RWindowAssumption, Zenon
  <2> QED
    BY <1>5, <2>1 DEF RSlot
<1>7. rSf = rSf + 0 /\ 0 \in 0..(n - 1)
  BY <1>t, <1>2
<1> QED
  BY <1>4, <1>6, <1>7

LEMMA OptConfirmedReceiver ==
  ASSUME NoEmptyChunk
  PROVE  TypeInv /\ OptReceiverInv /\ NumbersInv /\ OptConfirmedInv
           /\ OptReceiverTurn /\ OptReceiverInv' => OptConfirmedInv'
<1> SUFFICES ASSUME TypeInv, OptReceiverInv, NumbersInv, OptConfirmedInv,
                    OptReceiverTurn, OptReceiverInv'
             PROVE  OptConfirmedInv'
  OBVIOUS
<1>u. UNCHANGED <<Sf, ackSeq, ackPc, toReceiver>>
  BY DEF OptReceiverTurn, senderVars, threadVars
<1>t. /\ rSf \in Nat /\ rSf' \in Int /\ Sf \in Nat /\ ackSeq \in Nat /\ NumFrames \in Nat
      /\ rCache \in [0..(RWindow - 1) -> Packet]
  BY LastFrame, OptTypeReceiver DEF TypeInv, TypeOK, SenderTypeOK, ReceiverTypeOK
<1>n. NumbersInv' /\ rSf' >= rSf
  BY OptNumbersReceiver
<1>1. ASSUME NEW k \in 0..(Oldest' - 1), k < NumFrames
      PROVE  Held(k)'
  <2>1. Oldest' = Oldest /\ k \in Nat
    BY <1>u DEF Oldest
  <2>2. Held(k)
    BY <1>1, <2>1 DEF OptConfirmedInv
  <2> QED
    BY <2>1, <2>2, HeldGrows
<1>k. ~endFlag => ~Keeps(rCache[RSlot(rSf)], rSf)
  BY DEF OptConfirmedInv, Keeps
<1>2. ~endFlag' => ~Keeps(rCache'[RSlot(rSf')], rSf')
  <2> SUFFICES ASSUME ~endFlag' PROVE ~Keeps(rCache'[RSlot(rSf')], rSf')
    OBVIOUS
  <2>q. UNCHANGED <<rSf, rCache, endFlag>> => ~Keeps(rCache'[RSlot(rSf')], rSf')
    BY <1>k
  <2>1. CASE OptWriteFile
    BY <2>1, <2>q DEF OptWriteFile, WriteFile
  <2>2. ASSUME NEW p \in toReceiver, OptReceive(p)
        PROVE  ~Keeps(rCache'[RSlot(rSf')], rSf')
    <3>1. CASE OptListen(p) \/ Drop(p) \/ OptReceiveOld(p) \/ OptReceiveBeyond(p)
      BY <3>1, <2>q DEF OptListen, Drop, OptReceiveOld, OptReceiveBeyond, receiverVars
    <3>2. CASE ReceiveEnd(p)
      BY <3>2 DEF ReceiveEnd
    <3>3. CASE OptReceiveEarly(p)
      <4>1. p.seq # rSf /\ rCache' = CacheAdd(p) /\ rSf' = rSf /\ endFlag' = endFlag
        BY <3>3 DEF OptReceiveEarly
      <4>2. rCache'[RSlot(rSf)] = p \/ rCache'[RSlot(rSf)] = rCache[RSlot(rSf)]
        BY <1>t, <4>1, SlotRange DEF CacheAdd
      <4> QED
        BY <1>k, <4>1, <4>2 DEF Keeps
    <3>4. CASE OptReceiveNext(p)
      <4>1. ~endFlag
        BY <3>4 DEF OptReceiveNext
      <4>2. FramesInv'
        BY DEF OptReceiverInv, ReceiverInv
      <4> QED
        BY <1>n, <3>4, <4>1, <4>2, OptNextNotKept
    <3> QED
      BY <2>2, <3>1, <3>2, <3>3, <3>4 DEF OptReceive
  <2> QED
    BY <2>1, <2>2 DEF OptReceiverTurn, OptReceiverStep
<1>3. ackPc' = "returned" => Sf' >= EndSeqnum /\ rSf' >= NumFrames
  BY <1>n, <1>t, <1>u DEF OptConfirmedInv
<1> QED
  BY <1>1, <1>2, <1>3 DEF OptConfirmedInv, Keeps

\* OptConfirmedInv holds as long as no damaged ACK and no ACK of START for frame 0
\* is believed, and the main thread fills its slots ahead of the scan.
THEOREM OptConfirmedInvariant ==
  ASSUME NoEmptyChunk
  PROVE  OptSpec /\ OptUndeceived /\ OptUnskipping => []OptConfirmedInv
<1>1. TypeInv /\ OptConfirmedInv /\ (Channel \/ UNCHANGED vars) => OptConfirmedInv'
  BY OptConfirmedKept DEF Channel, vars, senderVars, threadVars, Oldest
<1>2. TypeInv /\ OptReceiverInv /\ OptReceiverInv' /\ OptSenderInv /\ NumbersInv
        /\ OptConfirmedInv /\ [OptNext]_vars /\ [~OptSkips]_vars => OptConfirmedInv'
  BY <1>1, OptConfirmedMain, OptConfirmedThread, OptConfirmedReceiver DEF OptNext
<1> QED
  BY <1>2, OptConfirmedInit, OptTypeInvariant, OptReceiverInvariant, OptSenderInvariant,
     OptNumbersInvariant, PTL DEF OptSpec, OptUnskipping

\* When mythread ends, the receiver has the whole message, if the scan has passed no
\* frame that nobody acknowledged, no damaged ACK was believed and no chunk is empty.
\* The run opt_skipped shows that the first of these is needed.
THEOREM OptFinishesDelivered ==
  ASSUME NoEmptyChunk
  PROVE  OptSpec /\ OptUndeceived /\ OptUnskipping => []OptFinishedMeansDelivered
<1>1. TypeInv /\ OptConfirmedInv => OptFinishedMeansDelivered
  <2> SUFFICES ASSUME TypeInv, OptConfirmedInv, ackPc = "returned"
               PROVE  rSf * DataSize >= MsgLen
    BY DEF OptFinishedMeansDelivered
  <2> DEFINE N == NumFrames
  <2>1. rSf \in Nat /\ rSf >= N
    BY DEF TypeInv, TypeOK, ReceiverTypeOK, OptConfirmedInv
  <2>2. N \in Nat /\ N * DataSize \in Nat /\ N * DataSize >= MsgLen
    BY LastFrame
  <2> HIDE DEF N
  <2>3. N * DataSize <= rSf * DataSize /\ rSf * DataSize \in Nat
    BY <2>1, <2>2, TimesMonotonic
  <2> QED
    BY <2>2, <2>3
<1> QED
  BY <1>1, OptConfirmedInvariant, OptTypeInvariant, PTL

-----------------------------------------------------------------------------
(* The reliable transfer.                                                  *)

LEMMA OptRefinesInit == Init => OptTransfer!Init
<1> SUFFICES ASSUME Init PROVE OptTransfer!Init
  OBVIOUS
<1>1. Sf = 0 /\ rBuf = <<>> /\ ackPc = "notCreated"
  BY DEF Init, SenderInit, WindowInit, ReceiverInit
<1>2. Smaller(0, NumFrames) = 0
  BY LastFrame DEF Smaller
<1> QED
  BY <1>1, <1>2 DEF OptTransfer!Init

\* Sliding the window confirms what is delivered.
LEMMA OptRefinesSlide ==
  ASSUME TypeInv, OptReceiverInv, OptSenderInv, OptConfirmedInv, OptSlide,
         UNCHANGED receiverVars
  PROVE  OptTransfer!Confirm
<1> DEFINE N == NumFrames
           Message == [k \in 1..NumFrames |-> FrameOf(k - 1).data]
<1>t. /\ rSf \in Nat /\ Sf \in Nat /\ ackSeq \in Nat /\ N \in Nat
      /\ (ackPc = "slide" => ackSeq >= Sf)
  BY LastFrame DEF TypeInv, TypeOK, SenderTypeOK, ReceiverTypeOK
<1>a. /\ ackPc = "slide" /\ Sf' = ackSeq
      /\ ackPc' = IF ackSeq >= EndSeqnum THEN "returned" ELSE "select"
  BY DEF OptSlide, Slide
<1>b. N <= EndSeqnum /\ EndSeqnum \in Int
  BY NumFramesBounds DEF EndSeqnum
<1>l. Len(rBuf) = rSf /\ Len(Message) = N
  BY <1>t DEF OptReceiverInv, ReceiverInv, DeliveredPrefix
<1>1. Smaller(ackSeq, N) <= rSf
  <2>1. ~endFlag
    BY <1>a, OptRunning DEF OptSenderInv, OptHandshakeInv
  <2>2. Smaller(ackSeq, N) \in Nat /\ Smaller(ackSeq, N) <= N
        /\ Smaller(ackSeq, N) <= Oldest
    BY <1>a, <1>t DEF Smaller, Oldest
  <2> QED
    BY <2>1, <2>2, OptPassedDelivered
<1> HIDE DEF N
<1>2. Smaller(ackSeq, N) \in Smaller(Sf, N)..Len(rBuf)
  BY <1>a, <1>l, <1>t, <1>1 DEF Smaller
<1>3. ackPc' = "returned" => Smaller(ackSeq, N) = N
  BY <1>a, <1>b, <1>t DEF Smaller
<1>4. (ackPc' = "returned") \in {FALSE, Smaller(ackSeq, N) = Len(Message)}
  BY <1>l, <1>3
<1> QED
  BY <1>a, <1>2, <1>4 DEF OptTransfer!Confirm, N, receiverVars

LEMMA OptRefinesThread ==
  ASSUME TypeInv, OptReceiverInv, OptSenderInv, OptConfirmedInv, OptThread
  PROVE  [OptTransfer!Next]_OptTransfer!vars
<1>u. UNCHANGED receiverVars
  BY DEF OptThread
<1>1. CASE OptSlide
  BY <1>1, <1>u, OptRefinesSlide DEF OptTransfer!Next
<1>2. CASE ~OptSlide
  <2>1. Sf' = Sf /\ ackPc # "returned" /\ ackPc' # "returned"
    BY <1>2 DEF OptThread, OptThreadStep, OptTimeout, Timeout, OptScan, OptResend,
                OptAckNew, OptAckOther
  <2> QED
    BY <1>u, <2>1 DEF OptTransfer!vars, receiverVars
<1> QED
  BY <1>1, <1>2

\* Copying frames to buf delivers them.
LEMMA OptRefinesReceiver ==
  ASSUME TypeInv, OptReceiverInv, NumbersInv, TypeInv', OptReceiverInv', NumbersInv',
         OptReceiverTurn
  PROVE  [OptTransfer!Next]_OptTransfer!vars
<1> DEFINE Message == [k \in 1..NumFrames |-> FrameOf(k - 1).data]
<1>t. /\ rSf \in Nat /\ rSf' \in Nat /\ NumFrames \in Nat
      /\ rSf' >= rSf /\ rSf' <= NumFrames
  BY LastFrame, OptNumbersReceiver DEF TypeInv, TypeOK, ReceiverTypeOK, NumbersInv, NumFrames
<1>u. Sf' = Sf /\ ackPc' = ackPc
  BY DEF OptReceiverTurn, senderVars, threadVars
<1>1. /\ rBuf = [k \in 1..rSf |-> FrameOf(k - 1).data]
      /\ rBuf' = [k \in 1..rSf' |-> FrameOf(k - 1).data]
  BY DEF OptReceiverInv, ReceiverInv, DeliveredPrefix
<1>2. CASE rSf' = rSf
  BY <1>1, <1>2, <1>u DEF OptTransfer!vars
<1>3. CASE rSf' > rSf
  <2>1. Len(rBuf) = rSf /\ Len(Message) = NumFrames
    BY <1>t, <1>1
  <2>2. rBuf' = SubSeq(Message, 1, rSf')
    BY <1>t, <1>1
  <2>3. rSf' \in (Len(rBuf) + 1)..Len(Message)
    BY <1>t, <1>3, <2>1
  <2>4. OptTransfer!Deliver
    BY <1>u, <2>2, <2>3 DEF OptTransfer!Deliver
  <2> QED
    BY <2>4 DEF OptTransfer!Next
<1> QED
  BY <1>t, <1>2, <1>3

\* Under the same conditions the two programs of selective repeat are a reliable
\* transfer: the faults named are all that stands between them and the promise.
THEOREM OptImplementsTransfer ==
  ASSUME NoEmptyChunk
  PROVE  OptSpec /\ OptUndeceived /\ OptUnskipping => OptTransferSpec
<1>1. ASSUME TypeInv, OptReceiverInv, OptSenderInv, NumbersInv, OptConfirmedInv,
             TypeInv', OptReceiverInv', NumbersInv', [OptNext]_vars
      PROVE  [OptTransfer!Next]_OptTransfer!vars
  <2>1. CASE OptMain
    BY <1>1, <2>1, OptMainStarts DEF OptTransfer!vars, receiverVars
  <2>2. CASE OptThread
    BY <1>1, <2>2, OptRefinesThread
  <2>3. CASE OptReceiverTurn
    BY <1>1, <2>3, OptRefinesReceiver
  <2>4. CASE Channel \/ UNCHANGED vars
    BY <2>4 DEF Channel, vars, senderVars, threadVars, receiverVars, OptTransfer!vars
  <2> QED
    BY <1>1, <2>1, <2>2, <2>3, <2>4 DEF OptNext
<1> QED
  BY <1>1, OptRefinesInit, OptTypeInvariant, OptReceiverInvariant, OptSenderInvariant,
     OptNumbersInvariant, OptConfirmedInvariant, PTL
  DEF OptSpec, OptTransferSpec, OptTransfer!Spec

-----------------------------------------------------------------------------
(* The two threads of the sender never wait for each other.                *)

\* The slot of Sf is filled unless the main thread is still to fill it, whatever
\* numbers the channel makes of the ACKs: a slide ends at a slot that is filled, or
\* behind everything that has been built.
OptFilledInv ==
  /\ mainPc = "caching" => frame.data.len > 0
  /\ ackPc # "slide" /\ Sf < rcbSeq => OptCacheGet(Sf)

LEMMA OptFilledInit == Init => OptFilledInv
BY DEF Init, SenderInit, RcbInit, WindowInit, OptFilledInv

\* What the main thread puts into a slot has bytes, so it empties none.
LEMMA OptFilledMain ==
  ASSUME NoEmptyChunk
  PROVE  TypeInv /\ CutInv /\ PaceInv /\ OptFilledInv /\ Main => OptFilledInv'
<1> SUFFICES ASSUME TypeInv, CutInv, PaceInv, OptFilledInv, Main PROVE OptFilledInv'
  OBVIOUS
<1>t. /\ rcbSeq \in Nat /\ Sf \in Nat /\ restlen \in 0..MsgLen
      /\ cache \in [0..(SWindow - 1) -> Packet]
  BY DEF TypeInv, TypeOK, SenderTypeOK
\* A frame with bytes is put into one slot.
<1>f. ASSUME NEW x, x.data.len > 0, NEW j \in Nat,
             cache' = [cache EXCEPT ![Slot(j)] = x]
      PROVE  /\ cache'[Slot(j)].data.len > 0
             /\ \A k \in Nat : cache[Slot(k)].data.len > 0 => cache'[Slot(k)].data.len > 0
  <2>1. \A k \in Nat : Slot(k) \in 0..(SWindow - 1)
    BY SlotRange
  <2> QED
    BY <1>t, <1>f, <2>1
<1>1. CASE CacheFrame
  <2>1. /\ frame' = Data2Frame(restlen, rcbSeq) /\ restlen > 0 /\ rcbSeq' = rcbSeq + 1
        /\ cache' = [cache EXCEPT ![Slot(rcbSeq)] = [frame' EXCEPT !.ok = FALSE]]
        /\ UNCHANGED <<ackPc, Sf>>
    BY <1>1 DEF CacheFrame, threadVars
  <2>2. frame' = FrameOf(rcbSeq)
    BY <2>1, BuiltFrame
  <2>3. rcbSeq \in 0..(NumFrames - 1)
    BY <1>t, <2>1, FrameNumbered, LastFrame
  <2>4. FrameOf(rcbSeq).data.len > 0
    BY <2>3 DEF NoEmptyChunk
  <2>5. frame'.data.len > 0 /\ [frame' EXCEPT !.ok = FALSE].data.len > 0
    BY <2>2, <2>4 DEF FrameOf, Data2Frame
  <2>6. /\ cache'[Slot(rcbSeq)].data.len > 0
        /\ \A k \in Nat : cache[Slot(k)].data.len > 0 => cache'[Slot(k)].data.len > 0
    BY <1>t, <1>f, <2>1, <2>5
  <2>7. ackPc # "slide" /\ Sf < rcbSeq + 1 => cache'[Slot(Sf)].data.len > 0
    <3>1. CASE Sf = rcbSeq
      BY <2>6, <3>1
    <3>2. CASE Sf # rcbSeq
      BY <1>t, <2>6, <3>2 DEF OptFilledInv, OptCacheGet
    <3> QED
      BY <3>1, <3>2
  <2> QED
    BY <2>1, <2>5, <2>7 DEF OptFilledInv, OptCacheGet, Slot
<1>2. CASE FrameCached
  <2>1. /\ mainPc = "caching" /\ mainPc' = "transmit"
        /\ cache' = [cache EXCEPT ![Slot(rcbSeq - 1)] = frame]
        /\ UNCHANGED <<rcbSeq, frame, ackPc, Sf>>
    BY <1>2 DEF FrameCached, threadVars
  <2>2. frame.data.len > 0
    BY <2>1 DEF OptFilledInv
  <2>3. Sf < rcbSeq => rcbSeq - 1 \in Nat
    BY <1>t
  <2>4. ackPc # "slide" /\ Sf < rcbSeq => cache'[Slot(Sf)].data.len > 0
    BY <1>t, <1>f, <2>1, <2>2, <2>3 DEF OptFilledInv, OptCacheGet
  <2> QED
    BY <2>1, <2>4 DEF OptFilledInv, OptCacheGet, Slot
<1>3. CASE Transmit
  <2>1. /\ mainPc' = "send" /\ UNCHANGED <<rcbSeq, cache, ackSeq, Sf>>
        /\ ackPc' = IF Sn = 0 THEN "select" ELSE ackPc
    BY <1>3 DEF Transmit
  <2> QED
    BY <2>1 DEF PaceInv, OptFilledInv, OptCacheGet
<1>4. CASE \/ SendStart \/ ConnectTimeout \/ AbortEnd \/ Finish \/ FinishEmpty \/ EndTimeout
           \/ \E p \in toSender : ConnectReceive(p) \/ EndReceive(p)
  <2>1. mainPc' # "caching" /\ UNCHANGED <<rcbSeq, cache, threadVars>>
    BY <1>4 DEF SendStart, ConnectTimeout, AbortEnd, Finish, FinishEmpty, EndTimeout,
       ConnectReceive, EndReceive, GiveUp, SendEnd
  <2> QED
    BY <2>1 DEF OptFilledInv, OptCacheGet, threadVars
<1> QED
  BY <1>1, <1>2, <1>3, <1>4 DEF Main, MainStep

LEMMA OptFilledThread ==
  TypeInv /\ PaceInv /\ OptFilledInv /\ OptThread => PaceInv' /\ OptFilledInv'
<1> SUFFICES ASSUME TypeInv, PaceInv, OptFilledInv, OptThread
             PROVE  PaceInv' /\ OptFilledInv'
  OBVIOUS
<1>t. /\ rcbSeq \in Nat /\ Sf \in Nat /\ ackSeq \in Nat
      /\ (ackPc = "slide" => ackSeq >= Sf)
  BY DEF TypeInv, TypeOK, SenderTypeOK
<1>1. CASE OptSlide
  <2>1. /\ ackPc = "slide" /\ ~ScanOn /\ Sf' = ackSeq
        /\ UNCHANGED <<mainPc, rcbSeq, frame, cache>>
    BY <1>1 DEF OptSlide, Slide, mainVars
  <2>2. ackSeq < rcbSeq => OptCacheGet(ackSeq)
    BY <1>t, <2>1 DEF ScanOn, PaceInv
  <2>3. OptFilledInv'
    BY <2>1, <2>2 DEF OptFilledInv, OptCacheGet
  <2> QED
    BY <1>1, <2>3, PaceSlide DEF OptSlide
<1>2. CASE OptScan \/ \E p \in toSender : OptAckNew(p)
  <2>1. /\ ackPc \in {"select", "slide"} /\ ackPc' = "slide"
        /\ UNCHANGED <<mainVars, Sf, right>>
    BY <1>2 DEF OptScan, OptAckNew
  <2>2. PaceInv'
    BY <2>1, PaceKept DEF mainVars
  <2>3. OptFilledInv'
    BY <2>1 DEF OptFilledInv, mainVars
  <2> QED
    BY <2>2, <2>3
<1>3. CASE OptTimeout \/ OptResend \/ \E p \in toSender : OptAckOther(p)
  <2>1. /\ ackPc \in {"select", "resend"} /\ ackPc' \in {"select", "resend"}
        /\ UNCHANGED <<mainVars, ackSeq, Sf, right, cache>>
    BY <1>3 DEF OptTimeout, Timeout, OptResend, OptAckOther
  <2>2. PaceInv'
    BY <2>1, PaceKept DEF mainVars
  <2>3. OptFilledInv'
    BY <2>1 DEF OptFilledInv, OptCacheGet, mainVars
  <2> QED
    BY <2>2, <2>3
<1> QED
  BY <1>1, <1>2, <1>3 DEF OptThread, OptThreadStep

LEMMA OptPaceInvariant ==
  ASSUME NoEmptyChunk
  PROVE  OptSpec => [](PaceInv /\ OptFilledInv)
<1>1. TypeInv /\ OptReceiverInv /\ PaceInv /\ OptFilledInv /\ [OptNext]_vars
        => PaceInv' /\ OptFilledInv'
  <2> SUFFICES ASSUME TypeInv, OptReceiverInv, PaceInv, OptFilledInv, [OptNext]_vars
               PROVE  PaceInv' /\ OptFilledInv'
    OBVIOUS
  <2>1. CASE OptMain
    BY <2>1, OptMainIsMain, PaceMain, OptFilledMain DEF OptReceiverInv, ReceiverInv
  <2>2. CASE OptThread
    BY <2>2, OptFilledThread
  <2>3. CASE UNCHANGED senderVars
    <3>1. UNCHANGED <<mainPc, restlen, rcbSeq, Sn, frame, ackPc, Sf, right, cache>>
      BY <2>3 DEF senderVars, mainVars, threadVars
    <3> QED
      BY <3>1, PaceKept DEF OptFilledInv, OptCacheGet
  <2> QED
    BY <2>1, <2>2, <2>3 DEF OptNext, OptReceiverTurn, Channel, vars
<1> QED
  BY <1>1, PaceInit, OptFilledInit, OptTypeInvariant, OptReceiverInvariant, PTL
  DEF OptSpec

\* Whatever the channel loses, repeats, reorders or damages, and whatever frames the
\* scan passes unacknowledged, the two threads of the selective-repeat sender never
\* wait for each other, when DATASIZE does not divide the length of the message and
\* no chunk is empty for strlen: the faults of the slide lose frames, but no thread.
THEOREM OptThreadsNeverBothWait ==
  ASSUME MsgLen % DataSize # 0, NoEmptyChunk
  PROVE  OptSpec => []OptNeverBothWait
<1>1. TypeInv /\ PaceInv /\ OptFilledInv => OptNeverBothWait
  <2> SUFFICES ASSUME TypeInv, PaceInv, OptFilledInv, MainWaits,
                      ackPc = "resend", ~OptCacheGet(Sf)
               PROVE  FALSE
    BY DEF OptNeverBothWait
  <2>1. Sf < rcbSeq
    BY MainBehind
  <2> QED
    BY <2>1 DEF OptFilledInv
<1> QED
  BY <1>1, OptPaceInvariant, OptTypeInvariant, PTL

-----------------------------------------------------------------------------
(* END.                                                                    *)

\* A step of the sender that sends an END has delivered what it stands for.
LEMMA OptEndMain ==
  ASSUME TypeInv, OptReceiverInv, OptSenderInv, PaceInv, OptConfirmedInv, EndNeverEarly,
         OptMain
  PROVE  EndNeverEarly'
<1>t. /\ rcbSeq \in Nat /\ rSf \in Nat /\ NumFrames \in Nat /\ rSf' = rSf
      /\ \A n \in Nat : Control("END", n).seq = n
  BY LastFrame DEF TypeInv, TypeOK, SenderTypeOK, ReceiverTypeOK, Control, OptMain, receiverVars
<1>s. ASSUME NEW q, toReceiver' = toReceiver \cup {q} \/ toReceiver' = toReceiver,
             q.type # "END" \/ q.seq <= rSf
      PROVE  EndNeverEarly'
  BY <1>s, <1>t DEF EndNeverEarly
<1>1. CASE SendStart
  BY <1>1, <1>s DEF SendStart, SendToReceiver, Control
<1>2. CASE ConnectTimeout \/ \E p \in toSender : ConnectReceive(p)
  BY <1>2, <1>s, <1>t DEF ConnectTimeout, ConnectReceive, GiveUp, SendToReceiver
<1>3. CASE \/ AbortEnd \/ CacheFrame \/ FrameCached \/ EndTimeout
           \/ \E p \in toSender : EndReceive(p)
  BY <1>3, <1>t DEF AbortEnd, CacheFrame, FrameCached, EndTimeout, EndReceive, EndNeverEarly
<1>4. CASE Transmit
  <2>1. frame = FrameOf(rcbSeq - 1)
    BY <1>4 DEF Transmit, OptSenderInv, OptCacheInv
  <2>2. FirstSending(frame).type # "END"
    BY <2>1 DEF FirstSending, FrameOf, Data2Frame
  <2> QED
    BY <1>4, <1>s, <2>2 DEF Transmit, SendToReceiver
<1>5. CASE Finish
  <2>1. rcbSeq <= rSf
    BY <1>5, <1>t DEF Finish, OptConfirmedInv, PaceInv
  <2> QED
    BY <1>5, <1>s, <1>t, <2>1 DEF Finish, SendEnd, SendToReceiver
<1>6. CASE FinishEmpty
  <2>1. rcbSeq = 0
    BY <1>6 DEF FinishEmpty, PaceInv
  <2> QED
    BY <1>6, <1>s, <1>t, <2>1 DEF FinishEmpty, SendEnd, SendToReceiver
<1> QED
  BY <1>1, <1>2, <1>3, <1>4, <1>5, <1>6
  DEF OptMain, OptMainStep, OptConnect, OptSendMsg, OptAwaitEnd

LEMMA OptEndStep ==
  ASSUME TypeInv, OptReceiverInv, NumbersInv, OptSenderInv, PaceInv, OptConfirmedInv,
         EndNeverEarly, [OptNext]_vars
  PROVE  EndNeverEarly'
<1>t. toReceiver \subseteq Packet /\ rSf \in Nat /\ rSf' \in Int /\ rSf <= rSf'
  <2>1. TypeInv'
    BY OptTypeStep
  <2> QED
    BY <2>1, OptReceiverForward DEF TypeInv, TypeOK, NetTypeOK, ReceiverTypeOK
\* No END is sent.
<1>s. ASSUME \A p \in toReceiver' : p \in toReceiver \/ p.type # "END" \/ ~p.ok
      PROVE  EndNeverEarly'
  <2>1. \A p \in toReceiver : p.seq \in Nat
    BY <1>t DEF Packet
  <2> QED
    BY <1>s, <1>t, <2>1 DEF EndNeverEarly
<1>1. CASE OptMain
  BY <1>1, OptEndMain
<1>2. CASE OptThread
  <2>1. \A i \in 0..(SWindow - 1) : cache[i].type # "END"
    BY DEF OptSenderInv, OptNumbersInv
  <2>2. cache[Slot(Sf)].type # "END"
    BY <2>1, SlotRange DEF TypeInv, TypeOK, SenderTypeOK
  <2> QED
    BY <1>2, <1>s, <2>2 DEF OptThread, OptThreadStep, OptTimeout, Timeout, OptScan, OptSlide,
       Slide, OptResend, OptAckNew, OptAckOther, SendToReceiver
<1>3. CASE Channel
  <2>1. \A p, type, seq : p \in Packet => ~Damaged(p, type, seq).ok
    BY DEF Damaged, Packet
  <2> QED
    BY <1>3, <1>s, <1>t, <2>1 DEF Channel, Lose, Corrupt, Damaging
<1>4. CASE OptReceiverTurn \/ UNCHANGED vars
  BY <1>4, <1>s DEF OptReceiverTurn, vars, netVars
<1> QED
  BY <1>1, <1>2, <1>3, <1>4 DEF OptNext

\* Under the conditions of OptFinishesDelivered the selective-repeat sender sends END
\* only when all the frames it stands for have been delivered, so that the receiver
\* never has to remember it while it waits for more frames.
THEOREM OptEndAfterDelivery ==
  ASSUME NoEmptyChunk
  PROVE  OptSpec /\ OptUndeceived /\ OptUnskipping => []EndNeverEarly
<1>1. Init => EndNeverEarly
  BY DEF Init, NetInit, EndNeverEarly
<1>2. /\ TypeInv /\ OptReceiverInv /\ NumbersInv /\ OptSenderInv /\ PaceInv
      /\ OptConfirmedInv /\ EndNeverEarly /\ [OptNext]_vars
      => EndNeverEarly'
  BY OptEndStep
<1> QED
  BY <1>1, <1>2, OptTypeInvariant, OptReceiverInvariant, OptNumbersInvariant,
     OptSenderInvariant, OptPaceInvariant, OptConfirmedInvariant, PTL DEF OptSpec
=============================================================================
