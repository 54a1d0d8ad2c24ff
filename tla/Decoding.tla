------------------------------ MODULE Decoding ------------------------------
(***************************************************************************)
(* What the control units of the two processors, the single-cycle rvss and *)
(* the pipelined rv5s, make of a word: its immediate, its signals and the  *)
(* operation they ask of the ALU.                                          *)
(*                                                                         *)
(* An operand is <<"x", n>>, <<"f", n>> or the immediate <<"i", n>>; None  *)
(* is no operand.                                                          *)
(***************************************************************************)
EXTENDS Encoding

None == <<"none", 0>>

x(n) == <<"x", n>>
f(n) == <<"f", n>>
imm(n) == <<"i", n>>

-----------------------------------------------------------------------------
(* Immediates. *)

UpperBits(w) == 2 ^ 13 * w.funct7 + 2 ^ 8 * w.rs2 + 2 ^ 3 * w.rs1 + w.funct3

\* The processors shift the parts of a jump or branch together before they double them.
ImmGenerator(w) ==
  CASE w.opcode \in {"OP-IMM", "LOAD", "JALR", "LOAD-FP"} -> Signed(32 * w.funct7 + w.rs2, 12)
    [] w.opcode \in {"STORE", "STORE-FP"}                 -> Signed(w.rd + 32 * w.funct7, 12)
    [] w.opcode = "BRANCH" ->
         Signed(2 * (Bits(w.rd, 1, 4) + 2 ^ 4 * Bits(w.funct7, 0, 6) + 2 ^ 10 * Bits(w.rd, 0, 1)
                       + 2 ^ 11 * Bits(w.funct7, 6, 1)), 13)
    [] w.opcode \in {"LUI", "AUIPC"}                      -> UpperBits(w)
    [] w.opcode = "JAL" ->
         LET u == UpperBits(w)
         IN Signed(2 * (Bits(u, 9, 10) + 2 ^ 10 * Bits(u, 8, 1) + 2 ^ 11 * Bits(u, 0, 8)
                          + 2 ^ 19 * Bits(u, 19, 1)), 21)
    [] OTHER                                              -> 0

-----------------------------------------------------------------------------
(* Which words are single, and which are double precision. *)

isFInstruction(w) == \/ w.opcode \in {"LOAD-FP", "STORE-FP"} /\ w.funct3 = 2
                     \/ w.opcode = "OP-FP" /\ w.funct7 % 2 = 0 /\ w.funct7 # \b0100000
isDInstruction(w) == \/ w.opcode \in {"LOAD-FP", "STORE-FP"} /\ w.funct3 = 3
                     \/ w.opcode = "OP-FP" /\ (w.funct7 % 2 = 1 \/ w.funct7 = \b0100000)
IsFloat(w)        == isFInstruction(w) \/ isDInstruction(w)

-----------------------------------------------------------------------------
(* Control signals of a word, per processor.  The operations of the ALU have   *)
(* the names of the instructions they carry out.                               *)

Fused == {"MADD", "MSUB", "NMSUB", "NMADD"}

RegWrite(p, w) ==
  w.opcode \in {"OP", "OP-IMM", "LOAD", "LUI", "AUIPC", "JAL", "JALR", "LOAD-FP", "OP-FP"}
                 \cup (IF p = "rv5s" THEN {"OP-32", "OP-IMM-32"} \cup Fused ELSE {})
AluSrc(p, w) ==
  w.opcode \in {"OP-IMM", "LOAD", "STORE", "LUI", "JALR", "LOAD-FP", "STORE-FP"}
                 \cup (IF p = "rv5s" THEN {"OP-IMM-32"} ELSE {"AUIPC"})
MemRead(w)  == w.opcode \in {"LOAD", "LOAD-FP"}
MemWrite(w) == w.opcode \in {"STORE", "STORE-FP"}
AluOp(w) ==   \* of the pipelined processors
  CASE w.opcode \in {"OP-IMM", "BRANCH"}             -> 1
    [] w.opcode \in {"OP", "OP-32", "OP-IMM-32"}     -> 2
    [] w.opcode = "OP-FP"                            -> 3
    [] w.opcode \in Fused                            -> 4
    [] OTHER                                         -> 0

\* The signal a field chooses from a table, NONE where the table has none.
Choose(field, table) ==
  IF field + 1 \in DOMAIN table /\ table[field + 1] # "" THEN table[field + 1] ELSE "none"

Precision(w, signal) == signal \o (IF w.funct7 % 2 = 0 THEN ".s" ELSE ".d")

PrecisionOf(w, signal) == IF signal = "none" THEN "none" ELSE Precision(w, signal)

IntegerSignal(w) ==
  CASE w.funct7 = 0 -> Choose(w.funct3, <<"add", "sll", "slt", "sltu", "xor", "srl", "or", "and">>)
    [] w.funct7 = \b0100000 -> Choose(w.funct3, <<"sub", "", "", "", "", "sra">>)
    [] w.funct7 = 1 ->
         Choose(w.funct3, <<"mul", "mulh", "mulhsu", "mulhu", "div", "divu", "rem", "remu">>)
    [] OTHER -> "none"

\* Both control units know the same tables of single and double precision.
FloatArithmetic(w) ==
  LET upper == w.funct7 - (w.funct7 % 2)
  IN CASE upper = 0         -> Precision(w, "fadd")
       [] upper = \b0000100 -> Precision(w, "fsub")
       [] upper = \b0001000 -> Precision(w, "fmul")
       [] upper = \b0001100 -> Precision(w, "fdiv")
       [] upper = \b0101100 -> Precision(w, "fsqrt")
       [] OTHER             -> "none"

FloatConversion(w) ==
  CASE w.funct7 \in {\b1100000, \b1100001} ->
         PrecisionOf(w, Choose(w.rs2, <<"fcvt.w", "fcvt.wu", "fcvt.l", "fcvt.lu">>))
    [] w.funct7 = \b1101000 -> Choose(w.rs2, <<"fcvt.s.w", "fcvt.s.wu", "fcvt.s.l", "fcvt.s.lu">>)
    [] w.funct7 = \b1101001 -> Choose(w.rs2, <<"fcvt.d.w", "fcvt.d.wu", "fcvt.d.l", "fcvt.d.lu">>)
    [] OTHER                -> "none"

FloatSelection(w) ==
  CASE w.funct7 \in {\b0010000, \b0010001} ->
         PrecisionOf(w, Choose(w.funct3, <<"fsgnj", "fsgnjn", "fsgnjx">>))
    [] w.funct7 \in {\b0010100, \b0010101} -> PrecisionOf(w, Choose(w.funct3, <<"fmin", "fmax">>))
    [] w.funct7 \in {\b1010000, \b1010001} ->
         PrecisionOf(w, Choose(w.funct3, <<"fle", "flt", "feq">>))
    [] OTHER -> "none"

FloatMove(w) ==
  CASE w.funct7 = \b1110000 -> Choose(w.funct3, <<"fmv.x.w", "fclass.s">>)
    [] w.funct7 = \b1110001 -> Choose(w.funct3, <<"fmv.x.d", "fclass.d">>)
    [] w.funct7 = \b1111000 -> "fmv.w.x"
    [] w.funct7 = \b1111001 -> "fmv.d.x"
    [] OTHER                -> "none"

\* No two of the tables share a funct7.
FloatSignal(w) ==
  LET found == {FloatArithmetic(w), FloatConversion(w), FloatSelection(w), FloatMove(w)} \ {"none"}
  IN IF found = {} THEN "none" ELSE CHOOSE s \in found : TRUE

ImmediateSignal(w) ==   \* shifts by funct6
  IF w.funct3 # 5
  THEN Choose(w.funct3, <<"add", "sll", "slt", "sltu", "xor", "", "or", "and">>)
  ELSE CASE w.funct7 \div 2 = 0       -> "srl"
         [] w.funct7 \div 2 = \b010000 -> "sra"
         [] OTHER                     -> "none"

BranchSignal(w) == Choose(w.funct3, <<"sub", "sub", "", "", "slt", "slt", "sltu", "sltu">>)

WordImmediateSignal(w) ==
  Choose(w.funct3, CASE w.funct7 = 0         -> <<"addw", "sllw", "", "", "", "srlw">>
                     [] w.funct7 = \b0100000 -> <<"addw", "sllw", "", "", "", "sraw">>
                     [] OTHER                -> <<"addw", "sllw">>)

WordSignal(w) ==
  Choose(w.funct3, CASE w.funct7 = 0         -> <<"addw", "sllw", "", "", "", "srlw">>
                     [] w.funct7 = \b0100000 -> <<"subw", "sllw", "", "", "", "sraw">>
                     [] w.funct7 = 1         ->
                          <<"mulw", "sllw", "", "", "divw", "divuw", "remw", "remuw">>
                     [] OTHER                -> <<"", "sllw">>)

RvssAluSignal(w) ==
  CASE w.opcode = "OP"        -> IntegerSignal(w)
    [] w.opcode = "OP-IMM"    -> ImmediateSignal(w)
    [] w.opcode = "BRANCH"    -> BranchSignal(w)
    [] w.opcode \in {"LOAD", "STORE", "JALR", "JAL", "LUI", "AUIPC"} -> "add"
    [] w.opcode = "OP-IMM-32" -> WordImmediateSignal(w)
    [] w.opcode = "OP-32"     -> WordSignal(w)
    [] w.opcode = "MADD"      -> "fmadd.s"
    [] w.opcode = "OP-FP"     -> FloatSignal(w)
    [] w.opcode \in {"LOAD-FP", "STORE-FP"} -> Choose(w.funct3, <<"", "", "add", "add">>)
    [] OTHER                  -> "none"

\* Where no case of the word instructions fits, the search goes on in the table of the others.
Rv5sWordSignal(w) ==
  CASE w.funct3 = 0 -> IF w.opcode = "OP-IMM-32" THEN "addw"
                       ELSE IF w.funct7 = 1 THEN "mulw"
                       ELSE IF w.funct7 = \b0100000 THEN "subw" ELSE "addw"
    [] w.funct3 = 1 -> "sllw"
    [] w.funct3 = 5 -> IF w.funct7 = 1 THEN "divuw"
                       ELSE IF w.funct7 = \b0100000 THEN "sraw" ELSE "srlw"
    [] w.funct7 = 1 /\ w.funct3 = 4 -> "divw"
    [] w.funct7 = 1 /\ w.funct3 = 6 -> "remw"
    [] w.funct7 = 1 /\ w.funct3 = 7 -> "remuw"
    [] OTHER -> "none"

Rv5sIntegerSignal(w) ==
  LET basic == <<"add", "sll", "slt", "sltu", "xor", "srl", "or", "and">>
      multiply == <<"mul", "mulh", "mulhsu", "mulhu", "div", "divu", "rem", "remuw">>
  IN CASE w.funct7 = 1                           -> multiply[w.funct3 + 1]
       [] w.funct7 = \b0100000 /\ w.funct3 = 0   -> "sub"
       [] w.funct7 = \b0100000 /\ w.funct3 = 5   -> "sra"
       [] OTHER                                  -> basic[w.funct3 + 1]

Rv5sAluSignal(w) ==
  CASE AluOp(w) = 0 -> "add"
    [] AluOp(w) = 1 /\ w.opcode = "BRANCH" -> BranchSignal(w)
    [] AluOp(w) = 1 /\ w.opcode # "BRANCH" ->
         Choose(w.funct3, <<"add", "sll", "slt", "sltu", "xor",
                            IF w.funct7 = \b0100000 THEN "sra" ELSE "srl", "or", "and">>)
    [] AluOp(w) = 2 -> IF w.opcode # "OP" /\ Rv5sWordSignal(w) # "none"
                       THEN Rv5sWordSignal(w) ELSE Rv5sIntegerSignal(w)
    [] AluOp(w) = 3 -> FloatSignal(w)
    [] AluOp(w) = 4 -> (CASE w.opcode = "MADD"  -> "fmadd"
                          [] w.opcode = "MSUB"  -> "fmsub"
                          [] w.opcode = "NMSUB" -> "fnmadd"
                          [] w.opcode = "NMADD" -> "fnmsub")
                         \o (IF w.funct7 % 4 = 0 THEN ".s" ELSE ".d")

GetAluSignal(p, w) == IF p = "rvss" THEN RvssAluSignal(w) ELSE Rv5sAluSignal(w)
=============================================================================
