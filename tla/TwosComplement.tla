--------------------------- MODULE TwosComplement ---------------------------
(* Numbers as bits. *)
EXTENDS Integers

\* Bits lo, ..., lo + count - 1 of a number, in two's complement.
Bits(n, lo, count) == (n \div 2 ^ lo) % 2 ^ count

\* The number in 0 .. 2 ^ width - 1 with its highest bit as the sign.
Signed(n, width) == IF n >= 2 ^ (width - 1) THEN n - 2 ^ width ELSE n
=============================================================================
