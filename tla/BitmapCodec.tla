----------------------------- MODULE BitmapCodec -----------------------------
(***************************************************************************)
(* core/resume_handler.cpp, bitmap_to_hex_string and hex_string_to_bitmap: *)
(* the chunk bitmap of a state file.  A bitmap of n bits is the set of the *)
(* positions that are set; its text is the sequence of its bytes, most     *)
(* significant bit first (two hex digits a byte, which parse back to the   *)
(* same byte).                                                             *)
(***************************************************************************)
EXTENDS Naturals, Sequences

\* 1 << (7 - bit_count), for bit_count = 0..7
Weight == <<128, 64, 32, 16, 8, 4, 2, 1>>
Bit(bits, i, w) == IF i \in bits THEN w ELSE 0

\* The k-th byte, k from 0.
ByteAt(bits, k) ==
  Bit(bits, 8*k, 128) + Bit(bits, 8*k + 1, 64) + Bit(bits, 8*k + 2, 32) + Bit(bits, 8*k + 3, 16)
  + Bit(bits, 8*k + 4, 8) + Bit(bits, 8*k + 5, 4) + Bit(bits, 8*k + 6, 2) + Bit(bits, 8*k + 7, 1)

\* A last byte that is not full is written too; mutated form: it is dropped.
DropLastBits(bits, n) == [k \in 1..(n \div 8) |-> ByteAt(bits, k - 1)]
BitmapToHex(bits, n) == [k \in 1..((n + 7) \div 8) |-> ByteAt(bits, k - 1)]

\* Positions past the text stay clear.
HexToBitmap(hex, n) ==
  {i \in 0..(n - 1) : i \div 8 < Len(hex) /\ (hex[(i \div 8) + 1] \div Weight[(i % 8) + 1]) % 2 = 1}

\* A bitmap is read back as it was written.
RoundTrip(bits, n) == HexToBitmap(BitmapToHex(bits, n), n) = bits
=============================================================================
