------------------------------ MODULE OptReceiver -----------------------------
(***************************************************************************)
(* The receiver of the selective-repeat programs: opt_receiver.c with      *)
(* rtp_listen and rtp_recvfrom of opt_rtp.c.  Its loop is that of rtp.c,   *)
(* except that every ACK names the frame it answers, a frame beyond the    *)
(* window is dropped without an answer, and a slot of the cache is empty   *)
(* when the length in it is 0.                                             *)
(***************************************************************************)
EXTENDS RtpReceiver

\* rtp_listen: START is answered with ACK 0, whatever its number.
OptListen(p) ==
  /\ rPc = "listen"
  /\ \/ /\ Refuses(p)
        /\ rPc' = "refused"
        /\ UNCHANGED toSender
     \/ /\ ~Refuses(p)
        /\ rPc' = "recv"
        /\ SendToSender({Ack(0)})
  /\ UNCHANGED <<rSf, rLeft, rCache, rBuf, endFlag, endSeq, countnum>>

-----------------------------------------------------------------------------
(* rtp_recvfrom: the branches that drop a packet and that take END are     *)
(* those of rtp.c.                                                         *)

\* Mutant: a frame that was delivered before is not acknowledged again.
Bug_OptReceiveOld(p) ==
  /\ IsData(p) /\ p.seq < rLeft
  /\ UNCHANGED <<receiverVars, toSender>>

\* A frame before the window: its ACK was lost or is late, it is sent again.
OptReceiveOld(p) ==
  /\ IsData(p) /\ p.seq < rLeft
  /\ SendToSender({Ack(p.seq)})
  /\ UNCHANGED receiverVars

\* Mutant: a frame beyond the window is acknowledged.
Bug_OptReceiveBeyond(p) ==
  /\ IsData(p) /\ p.seq > rRight
  /\ SendToSender({Ack(p.seq)})
  /\ UNCHANGED receiverVars

\* A frame beyond the window is dropped.
OptReceiveBeyond(p) ==
  /\ IsData(p) /\ p.seq > rRight
  /\ UNCHANGED <<receiverVars, toSender>>

\* What follows both kinds of accepted frame, with the ACK of this frame.
OptAccepted(p, sf) ==
  LET complete == endFlag /\ sf >= endSeq IN
  /\ countnum' = Counted(p.data.len)
  /\ SendToSender({Ack(p.seq)} \cup IF complete THEN {Ack(endSeq)} ELSE {})
  /\ rPc' = IF complete THEN "finish" ELSE rPc

\* Mutant: a frame that comes early is not counted.
Bug_OptReceiveEarly(p) ==
  /\ IsData(p) /\ InWindow(p.seq) /\ p.seq # rSf
  /\ rCache' = CacheAdd(p)
  /\ SendToSender({Ack(p.seq)})
  /\ UNCHANGED <<rPc, countnum, rSf, rLeft, rBuf, endFlag, endSeq>>

\* A frame ahead of the one wanted is cached.
OptReceiveEarly(p) ==
  /\ IsData(p) /\ InWindow(p.seq) /\ p.seq # rSf
  /\ rCache' = CacheAdd(p)
  /\ OptAccepted(p, rSf)
  /\ UNCHANGED <<rSf, rLeft, rBuf, endFlag, endSeq>>

\* The copy loop stops after n frames: at the frame END named, once at least
\* one is copied, or when cache_get finds no length in the next slot.
OptCopyStops(slots, n) ==
  \/ n > 0 /\ rSf + n = endSeq
  \/ n = RWindow
  \/ slots[RSlot(rSf + n)].data.len = 0

\* Mutant: the slots of the frames copied are not cleared.
Bug_OptCacheDe(slots, n) == slots

\* cache_de of each frame copied.
OptCacheDe(slots, n) == CacheDe(slots, n)

\* The frame wanted: it and the cached frames after it go to buf.  A frame of
\* length 0 is cached and acknowledged, and the loop does not see it.
OptReceiveNext(p) ==
  /\ IsData(p) /\ InWindow(p.seq) /\ p.seq = rSf
  /\ \E n \in 0..RWindow :
       /\ OptCopyStops(CacheAdd(p), n)
       /\ \A m \in 0..(n - 1) : ~OptCopyStops(CacheAdd(p), m)
       /\ rBuf' = rBuf \o [i \in 1..n |-> CacheAdd(p)[RSlot(rSf + i - 1)].data]
       /\ rCache' = OptCacheDe(CacheAdd(p), n)
       /\ rSf' = rSf + n
       /\ rLeft' = IF n > 0 /\ rSf + n = endSeq THEN rLeft + n - 1 ELSE rLeft + n
       /\ OptAccepted(p, rSf + n)
  /\ UNCHANGED <<endFlag, endSeq>>

\* receiver(): the file is written, or the process dies of freeing r_cache first.
OptWriteFile == WriteFile

-----------------------------------------------------------------------------

OptReceive(p) ==
  \/ OptListen(p) \/ Drop(p) \/ ReceiveEnd(p) \/ OptReceiveOld(p)
  \/ OptReceiveBeyond(p) \/ OptReceiveEarly(p) \/ OptReceiveNext(p)

OptReceiverStep == OptWriteFile \/ \E p \in toReceiver : OptReceive(p)
=============================================================================
