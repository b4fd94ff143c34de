----------------------------- MODULE RtpFileProofs -----------------------------
(***************************************************************************)
(* The file is never shorter than the message, for every message without   *)
(* NUL bytes, frame size and pair of windows, whatever the channel does.   *)
(***************************************************************************)
EXTENDS RtpPrefixProofs, FiniteSetTheorems

USE NetworkAssumption, MessageAssumption, SWindowAssumption, RWindowAssumption

-----------------------------------------------------------------------------
(* The frames and their bytes.                                             *)

\* A frame number below the number of frames starts before the message ends; all
\* but the last one end before it, too.
LEMMA FullFrames ==
  ASSUME NEW k \in 0..(NumFrames - 1)
  PROVE  /\ k * DataSize \in Nat /\ k * DataSize < MsgLen
         /\ k # NumFrames - 1 => k * DataSize + DataSize <= MsgLen
         /\ k = NumFrames - 1 => k * DataSize + DataSize = NumFrames * DataSize
<1>t. NumFrames \in Nat /\ NumFrames > 0
  BY LastFrame
<1> DEFINE N == NumFrames
<1> HIDE DEF N
<1>n. N = NumFrames /\ N \in Nat /\ N > 0 /\ k \in Nat /\ k <= N - 1
  BY <1>t DEF N
<1>1. \A j \in Nat : j * DataSize \in Nat /\ (j + 1) * DataSize = j * DataSize + DataSize
  OBVIOUS
<1>2. (N - 1) * DataSize = N * DataSize - DataSize
  BY <1>n
<1>3. (N - 1) * DataSize < MsgLen
  BY <1>n, <1>2, LastFrame
<1>4. k * DataSize <= (N - 1) * DataSize
  BY <1>n, TimesMonotonic
<1>5. k # N - 1 => (k + 1) * DataSize <= (N - 1) * DataSize
  BY <1>n, TimesMonotonic
<1>6. k * DataSize \in Nat /\ (k + 1) * DataSize = k * DataSize + DataSize
  BY <1>n, <1>1
<1>7. k = N - 1 => k * DataSize + DataSize = N * DataSize
  BY <1>n, <1>2, <1>6
<1>8. (N - 1) * DataSize \in Nat
  BY <1>n, <1>1
<1> HIDE <1>2
<1> QED
  BY <1>n, <1>3, <1>4, <1>5, <1>6, <1>7, <1>8

\* The length of a frame, when strlen sees the whole message.
LEMMA FrameLength ==
  ASSUME NoNul, NEW k \in 0..(NumFrames - 1)
  PROVE  FrameOf(k).data.len = IF k = NumFrames - 1
                                 THEN DataSize - (NumFrames * DataSize - MsgLen)
                                 ELSE DataSize
<1> DEFINE off == k * DataSize
<1>1. off \in Nat /\ off < MsgLen
  BY FullFrames
<1>2. k # NumFrames - 1 => off + DataSize <= MsgLen
  BY FullFrames
<1>3. k = NumFrames - 1 => off + DataSize = NumFrames * DataSize
  BY FullFrames
<1>4. NumFrames * DataSize \in Nat /\ NumFrames * DataSize >= MsgLen
  BY LastFrame
<1>5. FrameOf(k).data.len =
        Smaller(TextLen[MsgLen - (MsgLen - off)], Smaller(MsgLen - off, DataSize))
  BY DEF FrameOf, Data2Frame
<1> HIDE DEF off
<1>6. MsgLen - (MsgLen - off) = off
  BY <1>1
<1>7. TextLen[off] \in Nat /\ TextLen[off] >= MsgLen - off
  BY <1>1 DEF NoNul
<1>8. FrameOf(k).data.len = Smaller(MsgLen - off, DataSize)
  BY <1>1, <1>5, <1>6, <1>7 DEF Smaller
<1>9. CASE k = NumFrames - 1
  <2> DEFINE all == NumFrames * DataSize
  <2>1. all \in Nat /\ all >= MsgLen /\ off + DataSize = all
    BY <1>3, <1>4, <1>9
  <2> HIDE DEF all
  <2>2. Smaller(MsgLen - off, DataSize) = DataSize - (all - MsgLen)
    BY <1>1, <2>1 DEF Smaller
  <2> QED
    BY <1>8, <1>9, <2>2 DEF all
<1>10. CASE k # NumFrames - 1
  BY <1>1, <1>2, <1>8, <1>10 DEF Smaller
<1> QED
  BY <1>9, <1>10

LEMMA BytesType ==
  ASSUME NEW M \in SUBSET (0..(NumFrames - 1))
  PROVE  IsFiniteSet(M) /\ Cardinality(M) \in Nat /\ BytesIn(M) \in Int
<1>1. NumFrames \in Nat /\ NumFrames * DataSize \in Nat
  BY LastFrame
<1>2. IsFiniteSet(0..(NumFrames - 1))
  BY <1>1, FS_Interval
<1>3. IsFiniteSet(M) /\ Cardinality(M) \in Nat
  BY <1>2, FS_Subset, FS_CardinalityType
<1>4. DataSize * Cardinality(M) \in Int
  BY <1>3
<1>5. BytesIn(M) \in Int
  BY <1>1, <1>4 DEF BytesIn
<1> QED
  BY <1>3, <1>5

\* Taking a frame out of a set takes out its bytes.
LEMMA BytesWithout ==
  ASSUME NoNul, NEW M \in SUBSET (0..(NumFrames - 1)), NEW k \in M
  PROVE  BytesIn(M \ {k}) = BytesIn(M) - FrameOf(k).data.len
<1> DEFINE c == Cardinality(M)
           short == NumFrames * DataSize - MsgLen
<1>1. c \in Nat /\ IsFiniteSet(M) /\ short \in Int
  BY BytesType, LastFrame
<1>2. Cardinality(M \ {k}) = c - 1
  BY <1>1, FS_RemoveElement
<1>3. DataSize * (c - 1) = DataSize * c - DataSize /\ DataSize * c \in Int
  BY <1>1
<1>4. FrameOf(k).data.len = IF k = NumFrames - 1 THEN DataSize - short ELSE DataSize
  BY FrameLength
<1>5. BytesIn(M) = DataSize * c - IF NumFrames - 1 \in M THEN short ELSE 0
  BY DEF BytesIn
<1>6. BytesIn(M \ {k}) =
        DataSize * (c - 1) - IF NumFrames - 1 \in M \ {k} THEN short ELSE 0
  BY <1>2 DEF BytesIn
<1> HIDE DEF c, short
<1>7. CASE k = NumFrames - 1
  BY <1>1, <1>3, <1>4, <1>5, <1>6, <1>7
<1>8. CASE k # NumFrames - 1
  BY <1>1, <1>3, <1>4, <1>5, <1>6, <1>8
<1> QED
  BY <1>7, <1>8

-----------------------------------------------------------------------------
(* The invariant.                                                          *)

\* At first nothing is held, and nothing is counted.
LEMMA NothingCounted == Init => countnum + BytesIn(Missing) = MsgLen
<1> SUFFICES ASSUME Init PROVE countnum + BytesIn(Missing) = MsgLen
  OBVIOUS
<1> USE DEF Init, ReceiverInit
<1>1. Missing = 0..(NumFrames - 1)
  <2>1. \A k \in Nat : ~Held(k)
    <3> TAKE k \in Nat
    <3>1. RSlot(k) \in 0..(RWindow - 1)
      BY SlotRange
    <3>2. rCache[RSlot(k)].type = "START" /\ ~(k < rSf)
      BY <3>1 DEF EmptyRSlot, Control
    <3> QED
      BY <3>2 DEF Held
  <2>2. \A k \in 0..(NumFrames - 1) : k \in Nat
    BY LastFrame
  <2> QED
    BY <2>1, <2>2 DEF Missing
<1>2. NumFrames \in Nat /\ NumFrames * DataSize \in Nat /\ NumFrames * DataSize >= MsgLen
  BY LastFrame
<1>3. Cardinality(Missing) = NumFrames
  BY <1>1, <1>2, FS_Interval
<1>4. DataSize * NumFrames = NumFrames * DataSize
  BY <1>2
<1>5. CASE NumFrames = 0
  <2>1. NumFrames * DataSize = 0 /\ MsgLen = 0
    BY <1>2, <1>5
  <2>2. NumFrames - 1 \notin Missing
    BY <1>1, <1>5
  <2> QED
    BY <1>3, <1>4, <2>1, <2>2 DEF BytesIn
<1>6. CASE NumFrames > 0
  <2>1. NumFrames - 1 \in Missing
    BY <1>1, <1>2, <1>6
  <2> QED
    BY <1>2, <1>3, <1>4, <2>1 DEF BytesIn
<1> QED
  BY <1>2, <1>5, <1>6

LEMMA FileInvInit == Init => FileInv
<1> SUFFICES ASSUME Init PROVE FileInv
  OBVIOUS
<1>1. CountInv
  BY NothingCounted DEF CountInv
<1>2. EndNumberInv
  BY DEF EndNumberInv, EmptySlot, Control, Init, NetInit, SenderInit, RcbInit, WindowInit,
         ReceiverInit
<1> QED
  BY <1>1, <1>2 DEF FileInv

\* A step that leaves the receiver alone.
LEMMA CountKept ==
  ASSUME CountInv, UNCHANGED <<rSf, rCache, countnum>>
  PROVE  CountInv'
BY DEF CountInv, Missing, BytesIn, Held

LEMMA FileInvMain == TypeInv /\ ReceiverInv /\ FileInv /\ Main => FileInv'
<1> SUFFICES ASSUME TypeInv, ReceiverInv, FileInv, Main PROVE FileInv'
  OBVIOUS
<1>u. UNCHANGED receiverVars
  BY DEF Main
<1>k. CountInv'
  BY <1>u, CountKept DEF receiverVars, FileInv
<1>t. restlen \in 0..MsgLen /\ rcbSeq \in Nat
  BY DEF TypeInv, TypeOK, SenderTypeOK
<1>q. ASSUME UNCHANGED <<restlen, rcbSeq, frame>>, GivenUp => GivenUp',
             \A p \in toReceiver' : p \notin toReceiver /\ p.type = "END" =>
               (p.seq = 0 /\ GivenUp') \/ (p.seq = rcbSeq /\ restlen = 0)
      PROVE  FileInv'
  BY <1>u, <1>k, <1>q DEF FileInv, EndNumberInv, IsEnd, receiverVars
<1> USE DEF SendToReceiver, Control, GivenUp
<1>1. CASE SendStart \/ ConnectTimeout \/ AbortEnd \/ FrameCached \/ EndTimeout
  BY <1>1, <1>q DEF SendStart, ConnectTimeout, GiveUp, AbortEnd, FrameCached, EndTimeout
<1>2. CASE CacheFrame
  <2>1. /\ restlen > 0 /\ restlen' = RestAfter(restlen) /\ rcbSeq' = rcbSeq + 1
        /\ frame' = Data2Frame(restlen, rcbSeq) /\ toReceiver' = toReceiver
        /\ ~GivenUp
    BY <1>2 DEF CacheFrame
  <2>2. restlen' = 0 => rcbSeq' * DataSize >= MsgLen
    <3>1. rcbSeq * DataSize \in Nat /\ (rcbSeq + 1) * DataSize = rcbSeq * DataSize + DataSize
      BY <1>t
    <3>2. MsgLen - restlen = rcbSeq * DataSize
      BY <2>1 DEF ReceiverInv, CutInv
    <3>3. restlen' = 0 => restlen <= DataSize
      BY <2>1, <1>t DEF RestAfter
    <3> QED
      BY <1>t, <2>1, <3>1, <3>2, <3>3
  <2>3. frame'.type = "DATA"
    BY <2>1 DEF Data2Frame
  <2> QED
    BY <1>u, <1>k, <2>1, <2>2, <2>3 DEF FileInv, EndNumberInv, IsEnd, receiverVars
<1>3. CASE Transmit
  <2>1. FirstSending(frame).type = frame.type
    BY DEF FirstSending, TypeInv, TypeOK, SenderTypeOK, Packet
  <2>2. toReceiver' = toReceiver \cup {FirstSending(frame)}
        /\ UNCHANGED <<restlen, rcbSeq, frame>> /\ ~GivenUp
    BY <1>3 DEF Transmit
  <2> QED
    BY <1>q, <2>1, <2>2 DEF FileInv, EndNumberInv
<1>4. CASE Finish \/ FinishEmpty
  BY <1>4, <1>q DEF Finish, FinishEmpty, SendEnd
<1>5. ASSUME NEW p \in toSender, ConnectReceive(p) \/ EndReceive(p)
      PROVE  FileInv'
  BY <1>5, <1>q DEF ConnectReceive, GiveUp, EndReceive
<1> QED
  BY <1>1, <1>2, <1>3, <1>4, <1>5 DEF Main, MainStep

LEMMA FileInvThread == FileInv /\ Thread => FileInv'
<1> SUFFICES ASSUME FileInv, Thread PROVE FileInv'
  OBVIOUS
<1>u. UNCHANGED receiverVars
  BY DEF Thread
<1>k. CountInv'
  BY <1>u, CountKept DEF receiverVars, FileInv
<1>1. UNCHANGED mainVars /\ \A p \in toReceiver' : p \in toReceiver \/ p.type = "DATA"
  BY DEF Thread, ThreadStep, Timeout, Slide, Resend, CacheGet, SendToReceiver, AckNew, AckOther
<1> QED
  BY <1>u, <1>k, <1>1 DEF FileInv, EndNumberInv, IsEnd, GivenUp, mainVars, receiverVars

LEMMA FileInvChannel == TypeInv /\ FileInv /\ Channel => FileInv'
<1> SUFFICES ASSUME TypeInv, FileInv, Channel PROVE FileInv'
  OBVIOUS
<1>u. UNCHANGED <<senderVars, receiverVars>>
  BY DEF Channel
<1>k. CountInv'
  BY <1>u, CountKept DEF receiverVars, FileInv
<1>1. \A p \in toReceiver' : p \in toReceiver \/ ~p.ok
  <2>1. CASE Lose
    BY <2>1 DEF Lose
  <2>2. CASE Corrupt
    <3>1. \A p \in toReceiver, type \in PacketTypes, seq \in CorruptSeqs :
            Damaged(p, type, seq).ok = FALSE
      BY DEF Damaged, Packet, TypeInv, TypeOK, NetTypeOK
    <3> QED
      BY <2>2, <3>1 DEF Corrupt, Damaging
  <2> QED
    BY <2>1, <2>2 DEF Channel
<1> QED
  BY <1>u, <1>k, <1>1 DEF FileInv, EndNumberInv, IsEnd, GivenUp, senderVars, mainVars, receiverVars

LEMMA FileInvStutter == FileInv /\ UNCHANGED vars => FileInv'
<1> SUFFICES ASSUME FileInv, UNCHANGED vars PROVE FileInv'
  OBVIOUS
<1>1. CountInv'
  BY CountKept DEF vars, receiverVars, FileInv
<1> QED
  BY <1>1 DEF vars, netVars, senderVars, mainVars, receiverVars, FileInv, EndNumberInv,
     IsEnd, GivenUp

-----------------------------------------------------------------------------
(* The receiver's steps.                                                   *)

\* A frame that is accepted, and no other, is held from then on.
LEMMA MissingAfterKeeping ==
  ASSUME TypeInv, ReceiverInv, NEW p \in toReceiver, IsData(p), InWindow(p.seq),
         rCache' = CacheAdd(p), rSf' = rSf
  PROVE  Missing' = Missing \ {p.seq}
<1>t. NumFrames \in Nat /\ rCache \in [0..(RWindow - 1) -> Packet]
  BY LastFrame DEF TypeInv, TypeOK, ReceiverTypeOK
<1>1. Held(p.seq)' /\ \A k \in Nat : Held(k) => Held(k)'
  BY HeldAfterKeeping
<1>2. ASSUME NEW k \in Nat, Held(k)', k # p.seq
      PROVE  Held(k)
  <2>1. CASE k < rSf
    BY <2>1 DEF Held
  <2>2. CASE rCache'[RSlot(k)].type = "DATA" /\ rCache'[RSlot(k)].seq = k
    <3>1. rCache'[RSlot(k)] = p \/ rCache'[RSlot(k)] = rCache[RSlot(k)]
      BY <1>t, SlotRange DEF CacheAdd
    <3> QED
      BY <1>2, <2>2, <3>1 DEF Held
  <2> QED
    BY <1>2, <2>1, <2>2 DEF Held
<1> QED
  BY <1>t, <1>1, <1>2 DEF Missing

LEMMA MissingAfterCopying ==
  ASSUME TypeInv, ReceiverInv, NEW p \in toReceiver, IsData(p), p.seq = rSf,
         NEW n \in 1..RWindow,
         \A m \in 1..(n - 1) : ~CopyStops(CacheAdd(p), m),
         rCache' = CacheDe(CacheAdd(p), n), rSf' = rSf + n
  PROVE  Missing' = Missing \ {p.seq}
<1>t. NumFrames \in Nat /\ rSf \in Nat /\ rCache \in [0..(RWindow - 1) -> Packet]
  BY LastFrame DEF TypeInv, TypeOK, ReceiverTypeOK
<1>1. \A k \in Nat : Held(k) => Held(k)'
  BY HeldAfterCopying
<1>2. Held(p.seq)'
  BY <1>t DEF Held
<1>3. ASSUME NEW k \in Nat, Held(k)', k # rSf
      PROVE  Held(k)
  <2>1. CASE k < rSf
    BY <2>1 DEF Held
  <2>2. CASE k > rSf /\ k < rSf + n
    <3>1. k - rSf \in 0..(n - 1) /\ k - rSf > 0 /\ rSf + (k - rSf) = k
      BY <1>t, <2>2
    <3>2. /\ rCache[RSlot(rSf + (k - rSf))].type = "DATA"
          /\ rCache[RSlot(rSf + (k - rSf))].seq = rSf + (k - rSf)
      BY <3>1, CopiedRun
    <3> QED
      BY <3>1, <3>2 DEF Held
  <2>3. CASE k >= rSf + n
    <3>1. rCache'[RSlot(k)].type = "DATA" /\ rCache'[RSlot(k)].seq = k
      BY <1>3, <1>t, <2>3 DEF Held
    <3>2. RSlot(k) \in 0..(RWindow - 1) /\ CacheDe(CacheAdd(p), n)[RSlot(k)].type = "DATA"
      BY <3>1, SlotRange
    <3>3. CacheDe(CacheAdd(p), n)[RSlot(k)] = rCache[RSlot(k)]
      BY <3>2, KeptRun, Zenon
    <3> QED
      BY <3>1, <3>3 DEF Held
  <2> QED
    BY <1>3, <1>t, <2>1, <2>2, <2>3
<1> QED
  BY <1>t, <1>1, <1>2, <1>3 DEF Missing

\* The bytes of an accepted frame are counted.
LEMMA CountAccepted ==
  ASSUME TypeInv, ReceiverInv, CountInv,
         NEW p \in toReceiver, IsData(p), countnum' = Counted(p.data.len),
         Missing' = Missing \ {p.seq}
  PROVE  CountInv'
<1>t. /\ countnum \in Nat /\ p.data.len \in Nat
      /\ Missing \in SUBSET (0..(NumFrames - 1))
  BY DEF TypeInv, TypeOK, ReceiverTypeOK, NetTypeOK, Packet, Payload, Missing
<1>1. countnum' = Smaller(countnum + p.data.len, CountCap)
  BY DEF Counted
<1>2. BytesIn(Missing) \in Int /\ BytesIn(Missing') \in Int
  BY <1>t, BytesType
<1>3. ASSUME NoNul
      PROVE  BytesIn(Missing \ {p.seq}) >= BytesIn(Missing) - p.data.len
  <2>0. BytesIn(Missing) \in Int
    BY <1>t, BytesType
  <2>1. CASE p.seq \in Missing
    <3>1. p.data.len = FrameOf(p.seq).data.len
      BY DEF IsData, ReceiverInv, FramesInv, TrueFrame
    <3>2. BytesIn(Missing \ {p.seq}) = BytesIn(Missing) - FrameOf(p.seq).data.len
      BY <1>t, <1>3, <2>1, BytesWithout
    <3> QED
      BY <1>t, <2>0, <3>1, <3>2
  <2>2. CASE p.seq \notin Missing
    <3>1. Missing \ {p.seq} = Missing
      BY <2>2
    <3>2. BytesIn(Missing \ {p.seq}) = BytesIn(Missing)
      BY <3>1
    <3> QED
      BY <1>t, <2>0, <3>2
  <2> QED
    BY <2>1, <2>2
<1>4. NoNul => countnum' >= CountCap \/ countnum' + BytesIn(Missing') >= MsgLen
  BY <1>t, <1>1, <1>2, <1>3 DEF CountInv, Smaller
<1>5. BytesIn(Missing') = BytesIn(Missing)'
  BY DEF BytesIn
<1> QED
  BY <1>4, <1>5 DEF CountInv

LEMMA FileInvReceiver == TypeInv /\ ReceiverInv /\ FileInv /\ Receiver => FileInv'
<1> SUFFICES ASSUME TypeInv, ReceiverInv, FileInv, Receiver PROVE FileInv'
  OBVIOUS
<1>u. UNCHANGED <<restlen, rcbSeq, frame, toReceiver>>
  BY DEF Receiver, senderVars, mainVars
<1>t. rSf \in Nat /\ endSeq \in Nat /\ toReceiver \subseteq Packet
  BY DEF TypeInv, TypeOK, ReceiverTypeOK, NetTypeOK
<1>g. GivenUp' = GivenUp
  BY DEF Receiver, senderVars, mainVars, GivenUp
<1>q. ASSUME UNCHANGED <<rSf, rCache, countnum, endSeq, endFlag>>,
             rPc' \in {"finish", "written"} => rPc = "finish"
      PROVE  FileInv'
  <2>1. CountInv'
    BY <1>q, CountKept DEF FileInv
  <2> QED
    BY <1>u, <1>g, <1>q, <2>1 DEF FileInv, EndNumberInv, IsEnd
\* A frame is accepted: the receiver leaves when the frames END named are there.
<1>a. ASSUME NEW p \in toReceiver, IsData(p), Accepted(p, rSf'), CountInv',
             UNCHANGED <<endSeq, endFlag>>
      PROVE  FileInv'
  <2>1. rPc' \in {"finish", "written"} => endFlag /\ rSf' >= endSeq
    BY <1>a DEF Accepted, IsData
  <2> QED
    BY <1>u, <1>g, <1>a, <2>1 DEF FileInv, EndNumberInv, IsEnd
<1>1. CASE WriteFile
  BY <1>1, <1>q DEF WriteFile
<1>2. ASSUME NEW p \in toReceiver, Receive(p)
      PROVE  FileInv'
  <2>1. CASE Listen(p) \/ Drop(p) \/ ReceiveOutside(p)
    BY <2>1, <1>q DEF Listen, Drop, ReceiveOutside, IsData, receiverVars
  <2>2. CASE ReceiveEnd(p)
    <3>1. CountInv'
      BY <2>2, CountKept DEF ReceiveEnd, FileInv
    <3>2. endFlag' /\ endSeq' = p.seq /\ p.type = "END" /\ p.ok /\ rSf' = rSf
          /\ (rPc' \in {"finish", "written"} => rSf >= p.seq)
      BY <2>2 DEF ReceiveEnd
    <3> QED
      BY <1>u, <1>g, <3>1, <3>2 DEF FileInv, EndNumberInv, IsEnd
  <2>3. CASE ReceiveEarly(p)
    <3>1. IsData(p) /\ InWindow(p.seq) /\ rCache' = CacheAdd(p) /\ rSf' = rSf
          /\ Accepted(p, rSf) /\ UNCHANGED <<endSeq, endFlag>>
      BY <2>3 DEF ReceiveEarly
    <3>2. Missing' = Missing \ {p.seq}
      BY <3>1, MissingAfterKeeping
    <3>3. CountInv'
      BY <3>1, <3>2, CountAccepted DEF FileInv, Accepted
    <3> QED
      BY <1>a, <3>1, <3>3
  <2>4. CASE ReceiveNext(p)
    <3>1. PICK n \in 1..RWindow :
             /\ \A m \in 1..(n - 1) : ~CopyStops(CacheAdd(p), m)
             /\ rCache' = CacheDe(CacheAdd(p), n)
             /\ rSf' = rSf + n
             /\ Accepted(p, rSf + n)
      BY <2>4 DEF ReceiveNext
    <3>2. IsData(p) /\ p.seq = rSf /\ UNCHANGED <<endSeq, endFlag>>
      BY <2>4 DEF ReceiveNext
    <3>3. Missing' = Missing \ {p.seq}
      BY <3>1, <3>2, MissingAfterCopying
    <3>4. CountInv'
      BY <3>1, <3>2, <3>3, CountAccepted DEF FileInv, Accepted
    <3> QED
      BY <1>a, <3>1, <3>2, <3>4
  <2> QED
    BY <1>2, <2>1, <2>2, <2>3, <2>4 DEF Receive
<1> QED
  BY <1>1, <1>2 DEF Receiver, ReceiverStep

\* When the frames END named are delivered none is missing.
LEMMA NothingMissing ==
  ASSUME TypeInv, EndNumberInv, rPc = "written", endSeq > 0
  PROVE  Missing = {}
<1>t. rSf \in Nat /\ endSeq \in Nat /\ NumFrames \in Nat
  BY LastFrame DEF TypeInv, TypeOK, ReceiverTypeOK
<1> SUFFICES ASSUME NEW k \in 0..(NumFrames - 1) PROVE k < rSf
  BY DEF Missing, Held
<1>1. k \in Nat /\ k * DataSize \in Nat /\ k * DataSize < MsgLen
  BY <1>t, FullFrames
<1>2. endSeq * DataSize >= MsgLen /\ endSeq <= rSf /\ endSeq * DataSize \in Nat
  BY <1>t DEF EndNumberInv, IsEnd
<1>3. CASE endSeq <= k
  <2>1. endSeq * DataSize <= k * DataSize
    BY <1>t, <1>1, <1>3, TimesMonotonic
  <2> DEFINE a == endSeq * DataSize
             b == k * DataSize
  <2>2. a \in Nat /\ b \in Nat /\ a <= b /\ b < MsgLen /\ a >= MsgLen
    BY <1>1, <1>2, <2>1
  <2> HIDE DEF a, b
  <2> QED
    BY <2>2
<1> QED
  BY <1>t, <1>1, <1>2, <1>3

\* Then every byte of the message has been counted.
LEMMA FileLongEnough == NoNul /\ TypeInv /\ FileInv => FileNotShort
<1> SUFFICES ASSUME NoNul, TypeInv, FileInv, rPc = "written", endSeq > 0
             PROVE  countnum >= Smaller(CountCap, MsgLen)
  BY DEF FileNotShort
<1>1. Missing = {}
  BY NothingMissing DEF FileInv
<1>2. Cardinality(Missing) = 0 /\ NumFrames - 1 \notin Missing
  BY <1>1, FS_EmptySet
<1>3. BytesIn(Missing) = 0
  BY <1>2 DEF BytesIn
<1>4. countnum \in Nat
  BY DEF TypeInv, TypeOK, ReceiverTypeOK
<1> QED
  BY <1>3, <1>4 DEF FileInv, CountInv, Smaller

LEMMA FileInvariant == Spec => []FileInv
<1>1. TypeInv /\ ReceiverInv /\ FileInv /\ [Next]_vars => FileInv'
  BY FileInvMain, FileInvThread, FileInvReceiver, FileInvChannel, FileInvStutter DEF Next
<1> QED
  BY <1>1, FileInvInit, TypeInvariant, ReceiverInvariant, PTL DEF Spec

\* The file written after a whole session has at least as many bytes as the
\* message, for every message without NUL bytes, frame size and windows, and
\* however frames are lost, repeated, reordered or damaged: countnum may count a
\* frame twice (a run shows that it does), and never forgets one.
THEOREM FileNeverShort ==
  ASSUME NoNul
  PROVE  Spec => []FileNotShort
BY FileInvariant, FileLongEnough, TypeInvariant, PTL

\* The receiver writes a file with less than the whole message only when the sender
\* has given the connection up, for every message, frame size and windows, and
\* whatever the channel does: no other END names fewer frames than there are.
THEOREM WholeUnlessAbandoned == Spec => []WholeOrAbandoned
<1>1. TypeInv /\ FileInv => WholeOrAbandoned
  <2> SUFFICES ASSUME TypeInv, FileInv, rPc \in {"finish", "written"}, ~GivenUp
               PROVE  rSf * DataSize >= MsgLen
    BY DEF WholeOrAbandoned, GivenUp
  <2>1. rSf \in Nat /\ endSeq \in Nat
    BY DEF TypeInv, TypeOK, ReceiverTypeOK
  <2>2. endSeq <= rSf /\ endSeq * DataSize >= MsgLen
    BY DEF FileInv, EndNumberInv, IsEnd
  <2>3. endSeq * DataSize <= rSf * DataSize
    BY <2>1, <2>2, TimesMonotonic
  <2>4. endSeq * DataSize \in Nat /\ rSf * DataSize \in Nat
    BY <2>1
  <2> DEFINE a == endSeq * DataSize
             b == rSf * DataSize
  <2>5. a \in Nat /\ b \in Nat /\ a <= b /\ a >= MsgLen
    BY <2>2, <2>3, <2>4
  <2>6. b >= MsgLen
    <3> HIDE DEF a, b
    <3> QED
      BY <2>5
  <2> QED
    BY <2>6
<1> QED
  BY <1>1, FileInvariant, TypeInvariant, PTL

-----------------------------------------------------------------------------
(* Counting twice is all that can make the file longer.                    *)

LEMMA BytesNotNegative ==
  ASSUME NEW M \in SUBSET (0..(NumFrames - 1))
  PROVE  BytesIn(M) >= 0
<1> DEFINE c == Cardinality(M)
           short == NumFrames * DataSize - MsgLen
<1>1. c \in Nat /\ IsFiniteSet(M) /\ short \in Int
  BY BytesType, LastFrame
<1>2. DataSize * c \in Nat /\ (c > 0 => DataSize * c >= DataSize)
  BY <1>1, TimesMonotonic
<1>3. NumFrames - 1 \in M => c > 0 /\ short <= DataSize
  <2>1. M # {} => c > 0
    BY <1>1, FS_EmptySet
  <2>2. NumFrames - 1 \in M => NumFrames > 0
    BY LastFrame
  <2>3. NumFrames > 0 => short <= DataSize
    BY LastFrame
  <2> QED
    BY <2>1, <2>2, <2>3
<1>4. BytesIn(M) = DataSize * c - IF NumFrames - 1 \in M THEN short ELSE 0
  BY DEF BytesIn
<1> HIDE DEF c, short
<1> QED
  BY <1>1, <1>2, <1>3, <1>4

\* A frame counted while it is missing leaves the sum of the bytes counted and
\* the bytes missing as it was.
LEMMA CountExact ==
  ASSUME TypeInv, ReceiverInv, NumbersInv, ExactCountInv, NoNul, CountCap >= MsgLen,
         NEW p \in toReceiver, IsData(p), ~Held(p.seq),
         countnum' = Counted(p.data.len), Missing' = Missing \ {p.seq}
  PROVE  ExactCountInv'
<1>t. /\ countnum \in Nat /\ p.data.len \in Nat /\ p.seq \in Nat /\ CountCap \in Nat
      /\ Missing \in SUBSET (0..(NumFrames - 1)) /\ NumFrames \in Nat
  BY LastFrame, RWindowAssumption
  DEF TypeInv, TypeOK, ReceiverTypeOK, NetTypeOK, Packet, Payload, Missing
<1>1. p.seq \in Missing
  BY <1>t DEF IsData, NumbersInv, Numbered, Missing
<1>2. BytesIn(Missing \ {p.seq}) = BytesIn(Missing) - p.data.len
  <2>1. p.data.len = FrameOf(p.seq).data.len
    BY DEF IsData, ReceiverInv, FramesInv, TrueFrame
  <2> QED
    BY <1>t, <1>1, <2>1, BytesWithout
<1>3. BytesIn(Missing) \in Int /\ BytesIn(Missing \ {p.seq}) >= 0
  BY <1>t, BytesType, BytesNotNegative
<1>4. countnum + p.data.len <= CountCap
  BY <1>t, <1>2, <1>3 DEF ExactCountInv
<1>5. countnum' = countnum + p.data.len
  BY <1>t, <1>4 DEF Counted, Smaller
<1>6. countnum' + BytesIn(Missing') = MsgLen
  BY <1>t, <1>2, <1>3, <1>5 DEF ExactCountInv
<1>7. BytesIn(Missing') = BytesIn(Missing)'
  BY DEF BytesIn
<1> QED
  BY <1>6, <1>7 DEF ExactCountInv

LEMMA ExactCountKept ==
  ASSUME ExactCountInv, UNCHANGED <<rSf, rCache, countnum>>
  PROVE  ExactCountInv'
BY DEF ExactCountInv, Missing, BytesIn, Held

LEMMA ExactCountStep ==
  ASSUME NoNul, CountCap >= MsgLen, TypeInv, ReceiverInv, NumbersInv, ExactCountInv,
         [Next]_vars, ~Recounts
  PROVE  ExactCountInv'
<1>1. CASE UNCHANGED receiverVars
  BY <1>1, ExactCountKept DEF receiverVars
<1>2. CASE Receiver
  <2>1. CASE WriteFile
    BY <2>1, ExactCountKept DEF WriteFile
  <2>2. ASSUME NEW p \in toReceiver, Receive(p)
        PROVE  ExactCountInv'
    <3>1. CASE Listen(p) \/ Drop(p) \/ ReceiveEnd(p) \/ ReceiveOutside(p)
      BY <3>1, ExactCountKept DEF Listen, Drop, ReceiveEnd, ReceiveOutside, receiverVars
    <3>2. CASE ReceiveEarly(p)
      <4>1. IsData(p) /\ InWindow(p.seq) /\ rCache' = CacheAdd(p) /\ rSf' = rSf
            /\ countnum' = Counted(p.data.len) /\ ~Held(p.seq)
        BY <3>2 DEF ReceiveEarly, Accepted, Recounts
      <4>2. Missing' = Missing \ {p.seq}
        BY <4>1, MissingAfterKeeping
      <4> QED
        BY <4>1, <4>2, CountExact
    <3>3. CASE ReceiveNext(p)
      <4>1. IsData(p) /\ p.seq = rSf /\ countnum' = Counted(p.data.len) /\ ~Held(p.seq)
        BY <3>3 DEF ReceiveNext, Accepted, Recounts
      <4>2. PICK n \in 1..RWindow :
               /\ \A m \in 1..(n - 1) : ~CopyStops(CacheAdd(p), m)
               /\ rCache' = CacheDe(CacheAdd(p), n)
               /\ rSf' = rSf + n
        BY <3>3 DEF ReceiveNext
      <4>3. Missing' = Missing \ {p.seq}
        BY <4>1, <4>2, MissingAfterCopying
      <4> QED
        BY <4>1, <4>3, CountExact
    <3> QED
      BY <2>2, <3>1, <3>2, <3>3 DEF Receive
  <2> QED
    BY <1>2, <2>1, <2>2 DEF Receiver, ReceiverStep
<1> QED
  BY <1>1, <1>2 DEF Next, Main, Thread, Channel, vars

\* Then the bytes counted are those of the message when none is missing.
LEMMA FileExactLength == TypeInv /\ EndNumberInv /\ ExactCountInv => FileHasMessageLength
<1> SUFFICES ASSUME TypeInv, EndNumberInv, ExactCountInv, rPc = "written", endSeq > 0
             PROVE  countnum = MsgLen
  BY DEF FileHasMessageLength
<1>1. Missing = {}
  BY NothingMissing
<1>2. Cardinality(Missing) = 0 /\ NumFrames - 1 \notin Missing
  BY <1>1, FS_EmptySet
<1>3. BytesIn(Missing) = 0
  BY <1>2 DEF BytesIn
<1>4. countnum \in Nat
  BY DEF TypeInv, TypeOK, ReceiverTypeOK
<1> QED
  BY <1>3, <1>4 DEF ExactCountInv

\* The file is exactly as long as the message, when strlen sees all of it, unless
\* a frame is counted twice: a run shows that this happens and makes the file too
\* long, the theorem that nothing else does, for every message, frame size, pair
\* of windows and channel.  (CountCap is the model's own bound on countnum.)
THEOREM FileExact ==
  ASSUME NoNul, CountCap >= MsgLen
  PROVE  Spec /\ CountedOnce => []FileHasMessageLength
<1>1. TypeInv /\ ReceiverInv /\ NumbersInv /\ ExactCountInv /\ [Next]_vars
        /\ [~Recounts]_vars => ExactCountInv'
  <2>1. ExactCountInv /\ UNCHANGED vars => ExactCountInv'
    BY ExactCountKept DEF vars, receiverVars
  <2> QED
    BY <2>1, ExactCountStep
<1>2. Init => ExactCountInv
  BY NothingCounted DEF ExactCountInv
<1>3. TypeInv /\ FileInv /\ ExactCountInv => FileHasMessageLength
  BY FileExactLength DEF FileInv
<1> QED
  BY <1>1, <1>2, <1>3, FileInvariant, TypeInvariant, ReceiverInvariant, NumbersInvariant,
     PTL DEF Spec, CountedOnce
=============================================================================
