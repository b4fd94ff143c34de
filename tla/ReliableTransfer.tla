--------------------------- MODULE ReliableTransfer ---------------------------
(***************************************************************************)
(* What the RTP programs promise: the chunks of a message are delivered in *)
(* order, each once; the sending side learns how many are delivered, never *)
(* more than are; and it ends only when it knows that all are.             *)
(***************************************************************************)
EXTENDS Naturals, Sequences

CONSTANT Message      \* the chunks to be transferred, a sequence

VARIABLES
  delivered,          \* the chunks handed over so far
  confirmed,          \* how many of them the sender knows of
  finished            \* the sender has ended

vars == <<delivered, confirmed, finished>>

Init ==
  /\ delivered = <<>>
  /\ confirmed = 0
  /\ finished = FALSE

Deliver ==
  /\ \E n \in (Len(delivered) + 1)..Len(Message) :
       delivered' = SubSeq(Message, 1, n)
  /\ UNCHANGED <<confirmed, finished>>

Confirm ==
  /\ ~finished
  /\ confirmed' \in confirmed..Len(delivered)
  /\ finished' \in {FALSE, confirmed' = Len(Message)}
  /\ UNCHANGED delivered

Next == Deliver \/ Confirm

Spec == Init /\ [][Next]_vars
=============================================================================
