------------------------------- MODULE RtpBytes -------------------------------
(***************************************************************************)
(* The bytes of the packets of Rtp, and what check_cksum answers for them. *)
(* The other modules know of a packet only whether its checksum fits (ok); *)
(* the properties here show that they are right about it.                  *)
(***************************************************************************)
EXTENDS RtpInvariant

CONSTANTS
  Text            \* the message: Text[i] is its byte at offset i

C == INSTANCE Checksum

ASSUME TextAssumption == Text \in [0..(MsgLen - 1) -> 1..255]

TypeByte == [START |-> 0, END |-> 1, DATA |-> 2, ACK |-> 3]

\* Numbers travel with their low byte first; n < 2^16 here.
LittleEndian(n, width) ==
  [i \in 1..width |-> IF i <= 2 THEN C!BitsOf((n \div 256^(i - 1)), 8) ELSE {}]

\* rtp_header_t, its checksum field 0.
HeaderBytes(type, length, seq) ==
  LittleEndian(TypeByte[type], 1) \o LittleEndian(length, 2) \o LittleEndian(seq, 4)
    \o LittleEndian(0, 4)

\* The n bytes of the message from offset off.  A frame goes on with what the
\* static buffer held before: a chunk of an earlier frame, at the same place.
TextBytes(off, n) == [i \in 1..n |-> C!BitsOf(Text[off + i - 1], 8)]

StaleBytes(p) ==
  LET n == DataSize - p.data.len IN
  IF p.seq = 0 THEN [i \in 1..n |-> {}]
  ELSE TextBytes(p.data.off - DataSize + p.data.len, n)

\* Mutant: the checksum is taken over the chunk without its header.
Bug_PacketBytes(p) == TextBytes(p.data.off, p.data.len)

PacketBytes(p) ==
  HeaderBytes(p.type, p.data.len, p.seq) \o TextBytes(p.data.off, p.data.len)

\* The packets the programs put together, and their checksum fields.
BuiltPackets ==
  {Control(type, seq) : type \in PacketTypes \ {"DATA"}, seq \in 0..(EndSeqnum + 1)}
    \cup {FrameOf(k) : k \in 0..(NumFrames - 1)}

Cksum == [p \in BuiltPackets |-> C!compute_checksum(PacketBytes(p))]

\* check_cksum: the checksum field against the bytes received.
check_cksum(field, bytes) == field = C!compute_checksum(bytes)

-----------------------------------------------------------------------------

\* The packets that differ from p in the type or number their header shows.
Misread(p) ==
  {[p EXCEPT !.type = type, !.seq = seq] :
     type \in PacketTypes, seq \in CorruptSeqs} \ {p}

\* Those of them check_cksum would accept with the checksum of p.
Unnoticed ==
  [p \in BuiltPackets |-> {q \in Misread(p) : check_cksum(Cksum[p], PacketBytes(q))}]

\* The first transmissions of frames that check_cksum accepts: FRAMESIZE bytes
\* arrive, and the checksum was taken over the header and the chunk.
FittingFrames ==
  {k \in 0..(NumFrames - 1) :
     check_cksum(Cksum[FrameOf(k)], PacketBytes(FrameOf(k)) \o StaleBytes(FrameOf(k)))}

\* check_cksum refuses every packet on its way when its type or number is changed
\* (rtp.c:266), so that a damaged packet is never taken for another one; and it
\* accepts the first transmissions of just those frames that FirstSending says
\* (sender.c:115: the bytes behind a short last chunk are not in its checksum).
OkIsCheckCksum ==
  /\ \A p \in toReceiver \cup toSender : p.ok => Unnoticed[p] = {}
  /\ \A k \in 0..(Sn - 1) : FirstSending(FrameOf(k)).ok <=> k \in FittingFrames
=============================================================================
