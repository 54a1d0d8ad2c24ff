--------------------------- MODULE LoadImmediate ----------------------------
(***************************************************************************)
(* The pseudo instruction li: the instructions the parser makes of it, and *)
(* what they leave in the register.  Numbers have Width bits, of which     *)
(* lui sets Half less the lowest Chunk, and addi adds Chunk signed ones    *)
(* (64, 32 and 12 in the program).                                         *)
(***************************************************************************)
EXTENDS Alu, SequencesExt

CONSTANT Chunk
ASSUME ChunkAssumption == Chunk \in 2 .. Half - 1

Addend == -(2 ^ (Chunk - 1)) .. 2 ^ (Chunk - 1) - 1

Emit(op, n) == <<[op |-> op, imm |-> n]>>
EmitAddi(n) == IF n = 0 THEN <<>> ELSE Emit("addi", n)

FitsIn32Bits(v) == SignedW(v) = SignedH(v)

EmitLi32(v) ==
  LET signed == SignedW(v)
      upper  == (signed + 2 ^ (Chunk - 1)) \div 2 ^ Chunk
  IN IF signed \in Addend THEN Emit("load", signed)   \* addi to x0
     ELSE Emit("lui", upper) \o EmitAddi(signed - upper * 2 ^ Chunk)

\* mutant: the sign of the lower bits is not carried into the upper ones.
LowChunkUnsigned(v)   == v % 2 ^ Chunk

LowChunk(v)           == Signed(v % 2 ^ Chunk, Chunk)
CountTrailingZeros(v) == CHOOSE z \in 0 .. Width - 1 : v % 2 ^ z = 0 /\ v % 2 ^ (z + 1) # 0

RECURSIVE EmitLi(_)
EmitLi(v) ==
  IF FitsIn32Bits(v) THEN EmitLi32(v)
  ELSE LET rest == Unsigned(v - LowChunk(v))
           zeros == CountTrailingZeros(rest)
       IN EmitLi(rest \div 2 ^ zeros) \o Emit("slli", zeros) \o EmitAddi(LowChunk(v))

\* What the instructions, encoded, leave in the register one after the other.
AsEncoded(n) == Unsigned(Signed(n % 2 ^ Chunk, Chunk))

Carry(reg, i) ==
  CASE i.op = "load" -> AsEncoded(i.imm)
    [] i.op = "lui"  -> Extended((i.imm % 2 ^ (Half - Chunk)) * 2 ^ Chunk)
    [] i.op = "addi" -> CHOOSE n \in execute("add", reg, AsEncoded(i.imm)) : TRUE
    [] i.op = "slli" -> CHOOSE n \in execute("sll", reg, i.imm) : TRUE

Loads(v) == FoldLeft(Carry, 0, EmitLi(v))
=============================================================================
