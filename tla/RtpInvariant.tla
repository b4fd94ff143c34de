----------------------------- MODULE RtpInvariant -----------------------------
(***************************************************************************)
(* The inductive invariants behind the safety properties of Rtp.           *)
(***************************************************************************)
EXTENDS Rtp, FiniteSets

\* A frame carries the chunk its number says.
TrueFrame(p) == p.type = "DATA" => p.data = FrameOf(p.seq).data

(***************************************************************************)
(* What holds whatever the channel damages.                                *)
(***************************************************************************)

\* The message is cut at the multiples of DATASIZE.
CutInv == restlen > 0 => MsgLen - restlen = rcbSeq * DataSize

\* Wherever a frame is, built, cached, on its way or kept by the receiver, it
\* is a true frame, unless its checksum tells otherwise.
FramesInv ==
  /\ TrueFrame(frame)
  /\ \A i \in 0..(SWindow - 1) : TrueFrame(cache[i])
  /\ \A p \in toReceiver : p.ok => TrueFrame(p)
  /\ \A i \in 0..(RWindow - 1) : TrueFrame(rCache[i])

\* A frame the receiver keeps lies in its window, in the slot of its number.
KeptInv ==
  rPc \in {"listen", "recv"} =>
    /\ rLeft = rSf
    /\ \A i \in 0..(RWindow - 1) :
         rCache[i].type = "DATA" =>
           /\ rCache[i].seq >= rSf
           /\ rCache[i].seq < rSf + RWindow
           /\ RSlot(rCache[i].seq) = i

\* A frame number END has named is remembered together with the END.
EndInv == endSeq > 0 => endFlag

\* ReceiverInv is inductive with TypeOK, and contains what was to be shown:
\* the receiver hands over a prefix of the message.
ReceiverInv ==
  /\ CutInv
  /\ FramesInv
  /\ KeptInv
  /\ EndInv
  /\ DeliveredPrefix

\* A frame has the number of one of the message's chunks.
Numbered(p) == p.type = "DATA" => p.seq < NumFrames

\* No frame is numbered that the message does not have, and no more frames are
\* handed over than there are.  Inductive with TypeOK and ReceiverInv.
NumbersInv ==
  /\ Numbered(frame)
  /\ \A i \in 0..(SWindow - 1) : Numbered(cache[i])
  /\ \A p \in toReceiver : p.ok => Numbered(p)
  /\ \A i \in 0..(RWindow - 1) : Numbered(rCache[i])
  /\ rSf <= NumFrames

\* The receiver has frame k: copied to buf, or kept in its slot for later.
Held(k) == k < rSf \/ (rCache[RSlot(k)].type = "DATA" /\ rCache[RSlot(k)].seq = k)

(***************************************************************************)
(* What the receiver counts: a frame may count twice, and counts at least  *)
(* once.                                                                   *)
(***************************************************************************)

\* strlen sees the whole message.
NoNul == \A i \in 0..MsgLen : TextLen[i] >= MsgLen - i

Missing == {k \in 0..(NumFrames - 1) : ~Held(k)}

\* The bytes of a set of frames: all are full but the last.
BytesIn(frames) ==
  DataSize * Cardinality(frames)
    - IF NumFrames - 1 \in frames THEN NumFrames * DataSize - MsgLen ELSE 0

CountInv ==
  NoNul => countnum >= CountCap \/ countnum + BytesIn(Missing) >= MsgLen

GivenUp == mainPc \in {"abort", "noConnection"}

\* A number END may name: that of all the frames, or 0 from a connection given up.
IsEnd(n) == n * DataSize >= MsgLen \/ (n = 0 /\ GivenUp)

EndNumberInv ==
  /\ restlen = 0 => rcbSeq * DataSize >= MsgLen
  /\ frame.type # "END"
  /\ \A p \in toReceiver : p.type = "END" /\ p.ok => IsEnd(p.seq)
  /\ endFlag => IsEnd(endSeq)
  /\ rPc \in {"finish", "written"} => endFlag /\ rSf >= endSeq

\* FileInv is inductive with TypeOK and ReceiverInv.
FileInv == CountInv /\ EndNumberInv

\* A frame is accepted, and counted, while the receiver has it already: its ACK
\* was late, and its number is not below the window yet.
Recounts == \E p \in toReceiver : (ReceiveEarly(p) \/ ReceiveNext(p)) /\ Held(p.seq)

\* A behaviour in which that never happens.
CountedOnce == [][~Recounts]_vars

\* Inductive with TypeOK, ReceiverInv and NumbersInv when NoNul and CountedOnce.
ExactCountInv == countnum + BytesIn(Missing) = MsgLen

(***************************************************************************)
(* What holds as long as no damaged packet deceives the programs.          *)
(***************************************************************************)

\* mythread slides the window by a damaged ACK, whose checksum it does not look
\* at, or rtp_listen takes a damaged packet for a START and acknowledges the
\* number it shows.
Deceived ==
  \/ \E p \in toSender : ~p.ok /\ AckNew(p)
  \/ \E p \in toReceiver : ~p.ok /\ p.seq > 0 /\ Listen(p) /\ ~Refuses(p)

\* A behaviour in which that never happens, whatever else is damaged.
Undeceived == [][~Deceived]_vars

\* What a packet says is what a program wrote.
Trusted(p) == p.ok \/ corrupted = 0

BeforeConnection == mainPc \in {"connect", "awaitAck", "abort", "noConnection"}

\* Nothing is acknowledged and no frame sent before there is a connection.
HandshakeInv ==
  /\ rPc = "listen" => BeforeConnection /\ toSender = {}
  /\ BeforeConnection => /\ rcbSeq = 0
                         /\ ackPc = "notCreated"
                         /\ \A p \in toReceiver :
                              Trusted(p) => p.type \in {"START", "END"} /\ p.seq = 0
  /\ ackPc = "notCreated" <=> Sn = 0
  /\ rcbSeq = IF mainPc \in {"caching", "transmit"} THEN Sn + 1 ELSE Sn

\* The number of frames that are completely in the cache.
Cached == IF mainPc = "caching" THEN rcbSeq - 1 ELSE rcbSeq

\* The two windows: what the sender takes for acknowledged has been delivered,
\* and what has been delivered was sent.
WindowInv ==
  /\ right = Sf + SWindow - 1
  /\ Sf <= rSf /\ rSf <= Cached /\ rcbSeq <= Sf + SWindow
  /\ ackPc = "slide" => Sf < ackSeq /\ ackSeq <= rSf
  /\ \A p \in toSender : Trusted(p) => p.ok /\ p.type = "ACK" /\ p.seq <= rSf
  /\ \A p \in toReceiver :
       p.type = "DATA" => (Trusted(p) => p.seq < rcbSeq) /\ (p.ok => p.seq < Cached)
  /\ \A i \in 0..(RWindow - 1) : rCache[i].type = "DATA" => rCache[i].seq < Cached

\* The oldest frame not yet freed.
Oldest == IF ackPc = "slide" THEN ackSeq ELSE Sf

\* The sender's cache holds the frames from the oldest to the newest, each in
\* the slot of its number, and nothing else.  The newest may be half written.
CacheInv ==
  /\ \A k \in Oldest..(rcbSeq - 1) :
       cache[Slot(k)] = IF mainPc = "caching" /\ k = rcbSeq - 1
                          THEN [FrameOf(k) EXCEPT !.ok = FALSE]
                          ELSE FrameOf(k)
  /\ \A i \in 0..(SWindow - 1) :
       cache[i].type = "DATA" =>
         /\ cache[i].seq >= Oldest /\ cache[i].seq < rcbSeq
         /\ Slot(cache[i].seq) = i
  /\ mainPc \in {"caching", "transmit"} => frame = FrameOf(rcbSeq - 1)

\* mythread returns when the frames are all acknowledged, and END follows it.
EndingInv ==
  /\ rcbSeq > 0 => (rcbSeq - 1) * DataSize < MsgLen
  /\ ackPc = "returned" => Sf >= EndSeqnum
  /\ EndNeverEarly

\* SenderInv is inductive with TypeOK and ReceiverInv in undeceived behaviours.
SenderInv ==
  /\ HandshakeInv
  /\ WindowInv
  /\ CacheInv
  /\ EndingInv
=============================================================================
