---------------------------- MODULE MCArithmetic ----------------------------
(* Integers of eight bits, with words of four. *)
EXTENDS Arithmetic

\* The limits of bytes and of their halves, and the numbers next to them.
SomeOperands == {0, 1, 2, 3, 4, 7, 8, 9, 15, 16, 17, 31, 112, 120, 127, 128, 129, 136, 143, 240, 248, 254, 255}

\* Zero, below the normal numbers, normal, the largest, and what is no number.
SomeMagnitudes == {0, 1, 3, 16, 48, 768, Infinity} \cup NaNs
=============================================================================
