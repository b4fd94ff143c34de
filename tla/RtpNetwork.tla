------------------------------ MODULE RtpNetwork ------------------------------
(***************************************************************************)
(* The UDP channel between the RTP sender and the RTP receiver, as the     *)
(* calls of sendto, select and recvfrom in rtp.c and sender.c see it.      *)
(*                                                                         *)
(* Each direction is a set of packets sent on it.  A packet may be taken   *)
(* from it in any order, any number of times, or never, so the set stands  *)
(* for duplication, delay and reordering, and, as far as safety goes, for  *)
(* loss.  Lose takes a packet away for good, and so does damage in transit *)
(* when no intact copy of the packet is on its way besides: the runs that  *)
(* ask whether something eventually happens assume that the rest arrives.  *)
(***************************************************************************)
EXTENDS Integers

CONSTANTS
  MaxLoss,        \* bound: how many times the channel may lose a packet for good
  MaxCorrupt,     \* bound: how many packets the channel may damage
  CorruptSeqs     \* the sequence numbers a damaged header may show

ASSUME NetworkAssumption ==
  /\ MaxLoss \in Nat
  /\ MaxCorrupt \in Nat
  /\ CorruptSeqs \subseteq Nat

VARIABLES
  toReceiver,     \* packets sent from the sender to the receiver
  toSender,       \* packets sent from the receiver to the sender
  lost,           \* number of losses so far
  corrupted       \* number of packets damaged so far

netVars == <<toReceiver, toSender, lost, corrupted>>

-----------------------------------------------------------------------------
(* rtp_header_t and the bytes behind it.  The payload is the range of the  *)
(* message it was copied from; ok tells whether the CRC of the bytes that  *)
(* travel agrees with the checksum field, i.e. what check_cksum answers.   *)

PacketTypes == {"START", "END", "DATA", "ACK"}

Payload == [off : Nat, len : Nat]

Packet == [type : PacketTypes, seq : Nat, data : Payload, ok : BOOLEAN]

NoPayload == [off |-> 0, len |-> 0]

\* START, END and ACK packets: a header with length 0 and a good checksum.
Control(type, seq) == [type |-> type, seq |-> seq, data |-> NoPayload, ok |-> TRUE]

-----------------------------------------------------------------------------

NetInit ==
  /\ toReceiver = {}
  /\ toSender = {}
  /\ lost = 0
  /\ corrupted = 0

SendToReceiver(packets) == toReceiver' = toReceiver \cup packets

SendToSender(packets) == toSender' = toSender \cup packets

\* The channel loses a packet, with the copies of it that are on their way.
Lose ==
  /\ lost < MaxLoss
  /\ lost' = lost + 1
  /\ \/ /\ \E p \in toReceiver : toReceiver' = toReceiver \ {p}
        /\ UNCHANGED toSender
     \/ /\ \E p \in toSender : toSender' = toSender \ {p}
        /\ UNCHANGED toReceiver
  /\ UNCHANGED corrupted

\* A packet whose header shows another type and number, or the same ones with
\* bytes changed elsewhere: the checksum no longer fits.
Damaged(p, type, seq) == [p EXCEPT !.type = type, !.seq = seq, !.ok = FALSE]

\* The channel damages packet p of a direction: the damaged one arrives instead
\* of it, or of a copy of it.
Damaging(packets, p, type, seq) ==
  {rest \cup {Damaged(p, type, seq)} : rest \in {packets \ {p}, packets}}

Corrupt ==
  /\ corrupted < MaxCorrupt
  /\ corrupted' = corrupted + 1
  /\ \E type \in PacketTypes, seq \in CorruptSeqs :
       \/ /\ \E p \in toReceiver : toReceiver' \in Damaging(toReceiver, p, type, seq)
          /\ UNCHANGED toSender
       \/ /\ \E p \in toSender : toSender' \in Damaging(toSender, p, type, seq)
          /\ UNCHANGED toReceiver
  /\ UNCHANGED lost

NetTypeOK ==
  /\ toReceiver \subseteq Packet
  /\ toSender \subseteq Packet
  /\ lost \in 0..MaxLoss
  /\ corrupted \in 0..MaxCorrupt
=============================================================================
