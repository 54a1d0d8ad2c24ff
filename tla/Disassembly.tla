---------------------------- MODULE Disassembly -----------------------------
(***************************************************************************)
(* How the disassembler shows a word: a line in the sense of module        *)
(* Syntax, of the name Unknown where it knows none.  Rounding modes are    *)
(* never shown.                                                            *)
(***************************************************************************)
EXTENDS Syntax, Decoding

Unknown == [op |-> "unknown", operands |-> <<>>]

Operand(kind, value) == [kind |-> kind, value |-> value]
xr(n)   == Operand("GPR", n)
fr(n)   == Operand("FPR", n)
num(n)  == Operand("I", n)
base(n) == Operand("LP_GPR_RP", n)

\* No line where a table has no name.
Shown(op, operands) == IF op = "none" THEN Unknown ELSE [op |-> op, operands |-> operands]
Named(w, names, operands) == Shown(Choose(w.funct3, names), operands)

immI(w) == Signed(32 * w.funct7 + w.rs2, 12)
immS(w) == Signed(32 * w.funct7 + w.rd, 12)
immB(w) == Signed(2 ^ 12 * Bits(w.funct7, 6, 1) + 2 ^ 11 * Bits(w.rd, 0, 1)
                    + 2 ^ 5 * Bits(w.funct7, 0, 6) + 2 * Bits(w.rd, 1, 4), 13)
immU(w) == UpperBits(w)
immJ(w) == Signed(2 ^ 20 * Bits(UpperBits(w), 19, 1) + 2 ^ 12 * Bits(UpperBits(w), 0, 8)
                    + 2 ^ 11 * Bits(UpperBits(w), 8, 1) + 2 * Bits(UpperBits(w), 9, 10), 21)

\* mutant: the amount of a shift has five bits.
shamtOfWord(w) == w.rs2
shamt(w)       == 32 * Bits(w.funct7, 0, 1) + w.rs2

showR(w) ==
  LET operands == <<xr(w.rd), xr(w.rs1), xr(w.rs2)>>
  IN CASE w.funct7 = 0 ->
            Named(w, <<"add", "sll", "slt", "sltu", "xor", "srl", "or", "and">>, operands)
       [] w.funct7 = \b0100000 -> Named(w, <<"sub", "", "", "", "", "sra">>, operands)
       [] w.funct7 = 1 ->
            Named(w, <<"mul", "mulh", "mulhsu", "mulhu", "div", "divu", "rem", "remu">>, operands)
       [] OTHER -> Unknown

showRWord(w) ==
  LET operands == <<xr(w.rd), xr(w.rs1), xr(w.rs2)>>
  IN CASE w.funct7 = 0 -> Named(w, <<"addw", "sllw", "", "", "", "srlw">>, operands)
       [] w.funct7 = \b0100000 -> Named(w, <<"subw", "", "", "", "", "sraw">>, operands)
       [] w.funct7 = 1 ->
            Named(w, <<"mulw", "", "", "", "divw", "divuw", "remw", "remuw">>, operands)
       [] OTHER -> Unknown

\* The lowest bit of funct7 belongs to the amount of a shift, and is compared all the same.
showI(w) ==
  IF w.funct3 \in {1, 5}
  THEN Shown(IF w.funct3 = 1 THEN "slli" ELSE IF w.funct7 = \b0100000 THEN "srai" ELSE "srli",
             <<xr(w.rd), xr(w.rs1), num(shamt(w))>>)
  ELSE Named(w, <<"addi", "", "slti", "sltiu", "xori", "", "ori", "andi">>,
             <<xr(w.rd), xr(w.rs1), num(immI(w))>>)

showIWord(w) ==
  CASE w.funct3 = 0 -> Shown("addiw", <<xr(w.rd), xr(w.rs1), num(immI(w))>>)
    [] w.funct3 = 1 -> Shown("slliw", <<xr(w.rd), xr(w.rs1), num(shamt(w))>>)
    [] w.funct3 = 5 -> Shown(IF w.funct7 = \b0100000 THEN "sraiw" ELSE "srliw",
                             <<xr(w.rd), xr(w.rs1), num(shamt(w))>>)
    [] OTHER -> Unknown

showLoad(w)   == Named(w, <<"lb", "lh", "lw", "ld", "lbu", "lhu", "lwu">>,
                       <<xr(w.rd), num(immI(w)), base(w.rs1)>>)
showStore(w)  == Named(w, <<"sb", "sh", "sw", "sd">>, <<xr(w.rs2), num(immS(w)), base(w.rs1)>>)
showBranch(w) == Named(w, <<"beq", "bne", "", "", "blt", "bge", "bltu", "bgeu">>,
                       <<xr(w.rs1), xr(w.rs2), num(immB(w))>>)

showUpperOrJump(w) ==
  CASE w.opcode = "LUI"   -> Shown("lui", <<xr(w.rd), num(immU(w))>>)
    [] w.opcode = "AUIPC" -> Shown("auipc", <<xr(w.rd), num(immU(w))>>)
    [] w.opcode = "JAL"   -> Shown("jal", <<xr(w.rd), num(immJ(w))>>)
    [] w.opcode = "JALR"  -> Shown("jalr", <<xr(w.rd), num(immI(w)), base(w.rs1)>>)

showSystem(w) ==
  IF w.funct3 = 0 THEN Shown(IF w.rs2 = 0 THEN "ecall" ELSE "ebreak", <<>>)
  ELSE Named(w, <<"", "csrrw", "csrrs", "csrrc", "", "csrrwi", "csrrsi", "csrrci">>,
             <<xr(w.rd), Operand("CSR", 32 * w.funct7 + w.rs2),
               IF w.funct3 >= 5 THEN num(w.rs1) ELSE xr(w.rs1)>>)

showFloatMemory(w) ==
  IF w.opcode = "LOAD-FP"
  THEN Named(w, <<"", "", "flw", "fld">>, <<fr(w.rd), num(immI(w)), base(w.rs1)>>)
  ELSE Named(w, <<"", "", "fsw", "fsd">>, <<fr(w.rs2), num(immS(w)), base(w.rs1)>>)

showFused(w) ==
  Shown((CASE w.opcode = "MADD" -> "fmadd" [] w.opcode = "MSUB" -> "fmsub"
           [] w.opcode = "NMSUB" -> "fnmsub" [] w.opcode = "NMADD" -> "fnmadd")
          \o (IF w.funct7 % 4 = 0 THEN ".s" ELSE ".d"),
        <<fr(w.rd), fr(w.rs1), fr(w.rs2), fr(w.funct7 \div 4)>>)

showFloat(w) ==
  LET upper   == w.funct7 - (w.funct7 % 2)
      Fmt(n)  == IF n = "none" THEN "none" ELSE Precision(w, n)
      three   == <<fr(w.rd), fr(w.rs1), fr(w.rs2)>>
      compare == <<xr(w.rd), fr(w.rs1), fr(w.rs2)>>
      f2      == <<fr(w.rd), fr(w.rs1)>>
      toX     == <<xr(w.rd), fr(w.rs1)>>
      fromX   == <<fr(w.rd), xr(w.rs1)>>
  IN CASE upper = 0         -> Shown(Fmt("fadd"), three)
       [] upper = \b0000100 -> Shown(Fmt("fsub"), three)
       [] upper = \b0001000 -> Shown(Fmt("fmul"), three)
       [] upper = \b0001100 -> Shown(Fmt("fdiv"), three)
       [] upper = \b0101100 -> Shown(Fmt("fsqrt"), f2)
       [] upper = \b0010000 -> Shown(Fmt(Choose(w.funct3, <<"fsgnj", "fsgnjn", "fsgnjx">>)), three)
       [] upper = \b0010100 -> Shown(Fmt(IF w.funct3 = 0 THEN "fmin" ELSE "fmax"), three)
       [] upper = \b1010000 -> Shown(Fmt(Choose(w.funct3, <<"fle", "flt", "feq">>)), compare)
       [] w.funct7 = \b0100000 -> Shown("fcvt.s.d", f2)
       [] w.funct7 = \b0100001 -> Shown("fcvt.d.s", f2)
       [] upper = \b1100000 ->
            Shown(Fmt(Choose(w.rs2, <<"fcvt.w", "fcvt.wu", "fcvt.l", "fcvt.lu">>)), toX)
       [] upper = \b1101000 /\ w.rs2 < 4 ->   \* the format is shown before and after the source
            Shown(Precision(w, "fcvt") \o <<".w", ".wu", ".l", ".lu">>[w.rs2 + 1]
                    \o (IF w.funct7 % 2 = 0 THEN ".s" ELSE ".d"), fromX)
       [] upper = \b1110000 /\ w.rs2 = 0 ->
            Shown(IF w.funct3 # 0 THEN Fmt("fclass")
                  ELSE IF w.funct7 % 2 = 0 THEN "fmv.x.w" ELSE "fmv.x.d", toX)
       [] upper = \b1111000 /\ w.rs2 = 0 ->
            Shown(IF w.funct7 % 2 = 0 THEN "fmv.w.x" ELSE "fmv.d.x", fromX)
       [] OTHER -> Unknown

\* The word of addi x0, x0, 0 is shown as what it is for.
IsNop(w) == w.opcode = "OP-IMM" /\ w.funct3 = 0 /\ w.rd = 0 /\ w.rs1 = 0 /\ immI(w) = 0

disassemble(w) ==
  IF IsNop(w) THEN Shown("nop", <<>>)
  ELSE CASE w.opcode = "OP"         -> showR(w)
         [] w.opcode = "OP-32"      -> showRWord(w)
         [] w.opcode = "OP-IMM"     -> showI(w)
         [] w.opcode = "OP-IMM-32"  -> showIWord(w)
         [] w.opcode = "LOAD"       -> showLoad(w)
         [] w.opcode = "STORE"      -> showStore(w)
         [] w.opcode = "BRANCH"     -> showBranch(w)
         [] w.opcode \in {"LUI", "AUIPC", "JAL", "JALR"} -> showUpperOrJump(w)
         [] w.opcode = "SYSTEM"     -> showSystem(w)
         [] w.opcode \in {"LOAD-FP", "STORE-FP"} -> showFloatMemory(w)
         [] w.opcode \in Fused      -> showFused(w)
         [] w.opcode = "OP-FP"      -> showFloat(w)
=============================================================================
