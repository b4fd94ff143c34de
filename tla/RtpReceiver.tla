----------------------------- MODULE RtpReceiver ------------------------------
(***************************************************************************)
(* The receiver program: receiver.c with rtp_listen and rtp_recvfrom of    *)
(* rtp.c.  It is a single thread, so one iteration of the receive loop is  *)
(* one action.  r_window->Sn is written but never steers anything and is   *)
(* left out; r_window->right is always left + window size - 1.             *)
(***************************************************************************)
EXTENDS RtpMessage, Sequences

CONSTANTS
  RWindow,        \* window_size on the receiver's command line
  CountCap        \* bound: countnum is not followed beyond this value

ASSUME RWindowAssumption ==
  /\ RWindow \in Nat \ {0}
  /\ CountCap \in Nat

VARIABLES
  rPc,        \* where the receiver is
  rSf,        \* r_window->Sf: the next frame wanted
  rLeft,      \* r_window->left
  rCache,     \* frames that came too early
  rBuf,       \* the payloads copied to buf, in order
  endFlag,    \* end_flag: END has been seen
  endSeq,     \* end_seqnum of rtp_recvfrom
  countnum    \* bytes counted; the length of the file written

receiverVars == <<rPc, rSf, rLeft, rCache, rBuf, endFlag, endSeq, countnum>>

ReceiverPcs == {"listen", "refused", "recv", "finish", "written", "crashed"}

EmptyRSlot == Control("START", 0)

RSlot(s) == s % RWindow

rRight == rLeft + RWindow - 1

ReceiverInit ==
  /\ rPc = "listen"
  /\ rSf = 0
  /\ rLeft = 0
  /\ rCache = [i \in 0..(RWindow - 1) |-> EmptyRSlot]
  /\ rBuf = <<>>
  /\ endFlag = FALSE
  /\ endSeq = 0
  /\ countnum = 0

\* Mutant: the ACK carries the number after the one wanted.
Bug_Ack(seq) == Control("ACK", seq + 1)

Ack(seq) == Control("ACK", seq)

-----------------------------------------------------------------------------
(* rtp_listen: only a START has its checksum looked at, and every packet   *)
(* that is not a damaged START opens the connection.                       *)

Refuses(p) == p.type = "START" /\ ~p.ok

Listen(p) ==
  /\ rPc = "listen"
  /\ \/ /\ Refuses(p)
        /\ rPc' = "refused"
        /\ UNCHANGED toSender
     \/ /\ ~Refuses(p)
        /\ rPc' = "recv"
        /\ SendToSender({Ack(p.seq)})
  /\ UNCHANGED <<rSf, rLeft, rCache, rBuf, endFlag, endSeq, countnum>>

-----------------------------------------------------------------------------
(* rtp_recvfrom: one iteration of its loop.                                *)

\* A damaged packet, and a packet that is neither DATA nor END, is dropped.
Drop(p) ==
  /\ rPc = "recv"
  /\ ~p.ok \/ p.type \notin {"DATA", "END"}
  /\ UNCHANGED <<receiverVars, toSender>>

\* Mutant: the END of a complete message is not answered.
Bug_ReceiveEnd(p) ==
  /\ rPc = "recv" /\ p.ok /\ p.type = "END"
  /\ endFlag' = TRUE
  /\ endSeq' = p.seq
  /\ \/ /\ rSf > p.seq
        /\ SendToSender({Ack(p.seq)})
        /\ rPc' = "finish"
     \/ /\ rSf <= p.seq
        /\ UNCHANGED <<rPc, toSender>>
  /\ UNCHANGED <<rSf, rLeft, rCache, rBuf, countnum>>

\* END: leave if all frames are there, else remember its number.
ReceiveEnd(p) ==
  /\ rPc = "recv" /\ p.ok /\ p.type = "END"
  /\ endFlag' = TRUE
  /\ endSeq' = p.seq
  /\ \/ /\ rSf >= p.seq
        /\ SendToSender({Ack(p.seq)})
        /\ rPc' = "finish"
     \/ /\ rSf < p.seq
        /\ UNCHANGED <<rPc, toSender>>
  /\ UNCHANGED <<rSf, rLeft, rCache, rBuf, countnum>>

\* Mutant: the checksum of DATA is not verified.
Bug_IsData(p) == rPc = "recv" /\ p.type = "DATA"

IsData(p) == rPc = "recv" /\ p.ok /\ p.type = "DATA"

\* Mutant: the right border is not tested.
Bug_InWindow(seq) == rLeft <= seq

InWindow(seq) == rLeft <= seq /\ seq <= rRight

\* A frame outside the window: tell the sender which one is wanted.
ReceiveOutside(p) ==
  /\ IsData(p) /\ ~InWindow(p.seq)
  /\ SendToSender({Ack(rSf)})
  /\ UNCHANGED receiverVars

Counted(bytes) == Smaller(countnum + bytes, CountCap)

\* What follows both kinds of accepted frame: the byte count, the ACK for the
\* frame now wanted, and the test whether END can be answered.
Accepted(p, sf) ==
  LET complete == endFlag /\ sf >= endSeq IN
  /\ countnum' = Counted(p.data.len)
  /\ SendToSender({Ack(sf)} \cup IF complete THEN {Ack(endSeq)} ELSE {})
  /\ rPc' = IF complete THEN "finish" ELSE rPc

\* cache_add, in the slot of the frame's number.
CacheAdd(p) == [rCache EXCEPT ![RSlot(p.seq)] = p]

\* Mutant: a frame that comes early is not counted.
Bug_ReceiveEarly(p) ==
  /\ IsData(p) /\ InWindow(p.seq) /\ p.seq # rSf
  /\ rCache' = CacheAdd(p)
  /\ SendToSender({Ack(rSf)})
  /\ UNCHANGED <<rPc, countnum, rSf, rLeft, rBuf, endFlag, endSeq>>

\* A frame ahead of the one wanted is cached.
ReceiveEarly(p) ==
  /\ IsData(p) /\ InWindow(p.seq) /\ p.seq # rSf
  /\ rCache' = CacheAdd(p)
  /\ Accepted(p, rSf)
  /\ UNCHANGED <<rSf, rLeft, rBuf, endFlag, endSeq>>

\* The copy loop stops after n frames: at the frame END named, or when the
\* next slot is empty (every slot is, once all have been copied).
CopyStops(slots, n) ==
  \/ rSf + n = endSeq
  \/ n = RWindow
  \/ slots[RSlot(rSf + n)].type # "DATA"

\* Mutant: only the frame that arrived is deleted from the cache.
Bug_CacheDe(slots, n) == [slots EXCEPT ![RSlot(rSf)] = EmptyRSlot]

\* cache_de of each frame copied.
CacheDe(slots, n) ==
  [i \in DOMAIN slots |->
     IF i \in {RSlot(rSf + j) : j \in 0..(n - 1)} THEN EmptyRSlot ELSE slots[i]]

\* The frame wanted: it and the cached frames after it go to buf.
ReceiveNext(p) ==
  /\ IsData(p) /\ InWindow(p.seq) /\ p.seq = rSf
  /\ \E n \in 1..RWindow :
       /\ CopyStops(CacheAdd(p), n)
       /\ \A m \in 1..(n - 1) : ~CopyStops(CacheAdd(p), m)
       /\ rBuf' = rBuf \o [i \in 1..n |-> CacheAdd(p)[RSlot(rSf + i - 1)].data]
       /\ rCache' = CacheDe(CacheAdd(p), n)
       /\ rSf' = rSf + n
       /\ rLeft' = IF rSf + n = endSeq THEN rLeft + n - 1 ELSE rLeft + n
       /\ Accepted(p, rSf + n)
  /\ UNCHANGED <<endFlag, endSeq>>

\* r_cache is freed before the pointers it holds are: what free then gets is
\* undefined, and either the process dies or receiver() writes countnum bytes.
WriteFile ==
  /\ rPc = "finish"
  /\ rPc' \in {"written", "crashed"}
  /\ UNCHANGED <<rSf, rLeft, rCache, rBuf, endFlag, endSeq, countnum, toSender>>

-----------------------------------------------------------------------------

Receive(p) ==
  \/ Listen(p) \/ Drop(p) \/ ReceiveEnd(p)
  \/ ReceiveOutside(p) \/ ReceiveEarly(p) \/ ReceiveNext(p)

ReceiverStep == WriteFile \/ \E p \in toReceiver : Receive(p)

ReceiverTypeOK ==
  /\ rPc \in ReceiverPcs
  /\ rSf \in Nat
  /\ rLeft \in Nat
  /\ rCache \in [0..(RWindow - 1) -> Packet]
  /\ rBuf \in Seq(Payload)
  /\ endFlag \in BOOLEAN
  /\ endSeq \in Nat
  /\ countnum \in Nat
=============================================================================
