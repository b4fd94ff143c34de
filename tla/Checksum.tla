------------------------------- MODULE Checksum -------------------------------
(***************************************************************************)
(* util.c: the CRC-32 of the RTP programs.                                 *)
(*                                                                         *)
(* A uint32_t is the set of the positions of its one bits, so that         *)
(* exclusive or is the symmetric difference and nothing can overflow.      *)
(***************************************************************************)
EXTENDS Integers, Sequences

LOCAL INSTANCE SequencesExt

BitsOf(n, width) == {b \in 0..(width - 1) : (n \div 2^b) % 2 = 1}

Xor(v, w) == (v \ w) \cup (w \ v)

ShiftRight(w, n) == {b - n : b \in {c \in w : c >= n}}

\* 0xEDB88320: the polynomial, lowest power in the highest bit.
Polynomial ==
  {31, 30, 29, 27, 26, 24, 23, 21, 20, 19, 15, 9, 8, 5}

\* 0xFF000000.
TopByte == 24..31

\* Where the lowest bit is 0 the polynomial is added, where it is 1 it is not:
\* the complement of the usual step, which the last line makes good.
crc32_for_byte(r) ==
  LET after[j \in 0..8] ==
        IF j = 0 THEN r
        ELSE LET old == after[j - 1] IN
             Xor(IF 0 \in old THEN {} ELSE Polynomial, ShiftRight(old, 1))
  IN Xor(after[8], TopByte)

\* The static table of crc32, by byte.
table == [byte \in SUBSET (0..7) |-> crc32_for_byte(byte)]

\* Mutant: the table is entered with the old remainder alone.
Bug_crc32(data, crc) ==
  FoldLeft(LAMBDA c, byte : Xor(table[c \cap (0..7)], ShiftRight(c, 8)), crc, data)

crc32(data, crc) ==
  FoldLeft(LAMBDA c, byte : Xor(table[Xor(c \cap (0..7), byte)], ShiftRight(c, 8)),
           crc, data)

compute_checksum(data) == crc32(data, {})

-----------------------------------------------------------------------------
(* Reference: the CRC-32 of Ethernet and zip, by division bit by bit.  The *)
(* remainder starts with ones only and is complemented at the end.         *)

Crc32(data) ==
  LET bits == [i \in 1..(8 * Len(data)) |-> (i - 1) % 8 \in data[((i - 1) \div 8) + 1]]
      divide(rem, bit) ==
        Xor(ShiftRight(rem, 1), IF (0 \in rem) # bit THEN Polynomial ELSE {})
  IN Xor(FoldLeft(divide, 0..31, bits), 0..31)
=============================================================================
