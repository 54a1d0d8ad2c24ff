------------------------------ MODULE Encoding ------------------------------
(***************************************************************************)
(* Instructions as the assembler sees them, and the words its code         *)
(* generator makes of them.                                                *)
(*                                                                         *)
(* An instruction has a name and the operands of that name's syntax.  A    *)
(* word is the 32 bits cut at the places every instruction format cuts     *)
(* them: funct7, rs2, rs1, funct3, rd and opcode.  An immediate is spread  *)
(* over the fields it overlays, so a word is read back by its fields       *)
(* alone.  Opcodes have the names of the architecture instead of numbers.  *)
(***************************************************************************)
EXTENDS TwosComplement, Sequences, SequencesExt

\* The single and the double instruction of a name, whose format is bit 0 of funct7.
Single(name) == name \o ".s"
Double(name) == name \o ".d"

\* A line of a table: the names for funct3 = 0, 1, ..., under one opcode and funct7.
Row(opcode, funct7, names) ==
  [n \in ToSet(names) \ {""} |->
     [opcode |-> opcode, funct3 |-> (CHOOSE k \in DOMAIN names : names[k] = n) - 1,
      funct7 |-> funct7]]

FloatRow(funct7, names) ==
  LET Named(Format(_)) == [k \in DOMAIN names |-> IF names[k] = "" THEN "" ELSE Format(names[k])]
  IN Row("OP-FP", funct7, Named(Single)) @@ Row("OP-FP", funct7 + 1, Named(Double))

\* A table whose names are told apart by the field rs2.
ByRs2(opcode, funct7, names) ==
  [n \in ToSet(names) |->
     [opcode |-> opcode, funct7 |-> funct7, rs2 |-> (CHOOSE k \in DOMAIN names : names[k] = n) - 1]]

R_type_instruction_encoding_map ==
     Row("OP", 0,         <<"add", "sll", "slt", "sltu", "xor", "srl", "or", "and">>)
  @@ Row("OP", \b0100000, <<"sub", "", "", "", "", "sra">>)
  @@ Row("OP", 1,         <<"mul", "mulh", "mulhsu", "mulhu", "div", "divu", "rem", "remu">>)
  @@ Row("OP-32", 0,         <<"addw", "sllw", "", "", "", "srlw">>)
  @@ Row("OP-32", \b0100000, <<"subw", "", "", "", "", "sraw">>)
  @@ Row("OP-32", 1,         <<"mulw", "", "", "", "divw", "divuw", "remw", "remuw">>)

I1_type_instruction_encoding_map ==
     Row("OP-IMM", 0,    <<"addi", "", "slti", "sltiu", "xori", "", "ori", "andi">>)
  @@ Row("OP-IMM-32", 0, <<"addiw">>)
  @@ Row("LOAD", 0,      <<"lb", "lh", "lw", "ld", "lbu", "lhu", "lwu">>)
  @@ Row("JALR", 0,      <<"jalr">>)

\* funct6 is the upper six bits of funct7.
I2_type_instruction_encoding_map ==
     Row("OP-IMM", 0,            <<"", "slli", "", "", "", "srli">>)
  @@ Row("OP-IMM", \b0100000,    <<"", "", "", "", "", "srai">>)
  @@ Row("OP-IMM-32", 0,         <<"", "slliw", "", "", "", "srliw">>)
  @@ Row("OP-IMM-32", \b0100000, <<"", "", "", "", "", "sraiw">>)

I3_type_instruction_encoding_map    == Row("SYSTEM", 0, <<"ecall", "ebreak">>)
S_type_instruction_encoding_map     == Row("STORE", 0, <<"sb", "sh", "sw", "sd">>)
B_type_instruction_encoding_map     ==
  Row("BRANCH", 0, <<"beq", "bne", "", "", "blt", "bge", "bltu", "bgeu">>)
U_type_instruction_encoding_map     == Row("LUI", 0, <<"lui">>) @@ Row("AUIPC", 0, <<"auipc">>)
J_type_instruction_encoding_map     == Row("JAL", 0, <<"jal">>)
CSR_R_type_instruction_encoding_map == Row("SYSTEM", 0, <<"", "csrrw", "csrrs", "csrrc">>)
CSR_I_type_instruction_encoding_map ==
  Row("SYSTEM", 0, <<"", "", "", "", "", "csrrwi", "csrrsi", "csrrci">>)

F_D_R_type_instruction_encoding_map ==
     FloatRow(\b0010000, <<"fsgnj", "fsgnjn", "fsgnjx">>)
  @@ FloatRow(\b0010100, <<"fmin", "fmax">>)
  @@ FloatRow(\b1010000, <<"fle", "flt", "feq">>)

\* funct3 holds the rounding mode.
F_D_R1_type_instruction_encoding_map ==
     FloatRow(0, <<"fadd">>) @@ FloatRow(\b0000100, <<"fsub">>)
  @@ FloatRow(\b0001000, <<"fmul">>) @@ FloatRow(\b0001100, <<"fdiv">>)

F_D_R2_type_instruction_encoding_map ==
     ByRs2("OP-FP", \b0101100, <<"fsqrt.s">>)
  @@ ByRs2("OP-FP", \b0101101, <<"fsqrt.d">>)
  @@ ByRs2("OP-FP", \b1100000, <<"fcvt.w.s", "fcvt.wu.s", "fcvt.l.s", "fcvt.lu.s">>)
  @@ ByRs2("OP-FP", \b1100001, <<"fcvt.w.d", "fcvt.wu.d", "fcvt.l.d", "fcvt.lu.d">>)
  @@ ByRs2("OP-FP", \b1101000, <<"fcvt.s.w", "fcvt.s.wu", "fcvt.s.l", "fcvt.s.lu">>)
  @@ ByRs2("OP-FP", \b1101001, <<"fcvt.d.w", "fcvt.d.wu", "fcvt.d.l", "fcvt.d.lu">>)
  @@ [n \in {"fcvt.s.d"} |-> [opcode |-> "OP-FP", funct7 |-> \b0100000, rs2 |-> 1]]
  @@ ByRs2("OP-FP", \b0100001, <<"fcvt.d.s">>)

\* The field rs2 is 0.
F_D_R3_type_instruction_encoding_map ==
     Row("OP-FP", \b1111000, <<"fmv.w.x">>) @@ Row("OP-FP", \b1110000, <<"fmv.x.w", "fclass.s">>)
  @@ Row("OP-FP", \b1111001, <<"fmv.d.x">>) @@ Row("OP-FP", \b1110001, <<"fmv.x.d", "fclass.d">>)

\* funct2, the lower two bits of funct7, is the format; the upper five are rs3.
F_D_R4_type_instruction_encoding_map ==
  LET Both(opcode, name) == Row(opcode, 0, <<Single(name)>>) @@ Row(opcode, 1, <<Double(name)>>)
  IN Both("MADD", "fmadd") @@ Both("MSUB", "fmsub") @@ Both("NMSUB", "fnmsub") @@ Both("NMADD", "fnmadd")

F_D_I_type_instruction_encoding_map == Row("LOAD-FP", 0, <<"", "", "flw", "fld">>)
F_D_S_type_instruction_encoding_map == Row("STORE-FP", 0, <<"", "", "fsw", "fsd">>)

-----------------------------------------------------------------------------
(* The sets of names that choose the format, in the order they are asked.  *)
(* A comma is missing between fclass.s and fclass.d, so the set of the R3  *)
(* names has one name that is both of them run together, and neither.      *)

FDExtensionR3TypeInstructions == {"fmv.x.w", "fmv.w.x", "fclass.sfclass.d", "fmv.x.d", "fmv.d.x"}

Formats == <<
  [format |-> "R",     map |-> R_type_instruction_encoding_map],
  [format |-> "I1",    map |-> I1_type_instruction_encoding_map],
  [format |-> "I2",    map |-> I2_type_instruction_encoding_map],
  [format |-> "I3",    map |-> I3_type_instruction_encoding_map],
  [format |-> "S",     map |-> S_type_instruction_encoding_map],
  [format |-> "B",     map |-> B_type_instruction_encoding_map],
  [format |-> "U",     map |-> U_type_instruction_encoding_map],
  [format |-> "J",     map |-> J_type_instruction_encoding_map],
  [format |-> "CSR_R", map |-> CSR_R_type_instruction_encoding_map],
  [format |-> "CSR_I", map |-> CSR_I_type_instruction_encoding_map],
  [format |-> "FDR",   map |-> F_D_R_type_instruction_encoding_map],
  [format |-> "FDR1",  map |-> F_D_R1_type_instruction_encoding_map],
  [format |-> "FDR2",  map |-> F_D_R2_type_instruction_encoding_map],
  [format |-> "FDR3",  map |-> F_D_R3_type_instruction_encoding_map],
  [format |-> "FDR4",  map |-> F_D_R4_type_instruction_encoding_map],
  [format |-> "FDI",   map |-> F_D_I_type_instruction_encoding_map],
  [format |-> "FDS",   map |-> F_D_S_type_instruction_encoding_map] >>

\* The names of a format are those of its table, but for the two the comma loses.
NamesOf(k) == DOMAIN Formats[k].map
                \cap (IF Formats[k].format = "FDR3" THEN FDExtensionR3TypeInstructions
                                                    ELSE DOMAIN Formats[k].map)

valid_instructions == UNION {DOMAIN Formats[k].map : k \in DOMAIN Formats}
Encodable          == UNION {NamesOf(k) : k \in DOMAIN Formats}

\* The table the processors compare opcodes with repeats the rows of the code generator's.
TableOf(name) == CHOOSE k \in DOMAIN Formats : name \in DOMAIN Formats[k].map
instruction_encoding_map == [name \in valid_instructions |-> Formats[TableOf(name)].map[name]]

Format(name)     == Formats[CHOOSE k \in DOMAIN Formats : name \in NamesOf(k)].format
EncodingOf(name) == Formats[CHOOSE k \in DOMAIN Formats : name \in NamesOf(k)].map[name]

-----------------------------------------------------------------------------
(* The code generator.  An instruction is [name, rd, rs1, rs2, rs3, imm,   *)
(* csr, rm]; those its syntax has no place for are 0.                      *)

Word(opcode, funct7, rs2, rs1, funct3, rd) ==
  [opcode |-> opcode, funct7 |-> funct7, rs2 |-> rs2, rs1 |-> rs1, funct3 |-> funct3, rd |-> rd]

\* A number in the bits 31 to 20, or 31 to 12, of a word.
Upper12(opcode, imm, rs1, funct3, rd) ==
  Word(opcode, Bits(imm, 5, 7), Bits(imm, 0, 5), rs1, funct3, rd)
Upper20(opcode, imm, rd) ==
  Word(opcode, Bits(imm, 13, 7), Bits(imm, 8, 5), Bits(imm, 3, 5), Bits(imm, 0, 3), rd)

generateRTypeMachineCode(i, e)    == Word(e.opcode, e.funct7, i.rs2, i.rs1, e.funct3, i.rd)
generateFDRTypeMachineCode(i, e)  == generateRTypeMachineCode(i, e)
generateI1TypeMachineCode(i, e)   == Upper12(e.opcode, i.imm, i.rs1, e.funct3, i.rd)
generateFDITypeMachineCode(i, e)  == generateI1TypeMachineCode(i, e)
generateI2TypeMachineCode(i, e)   == \* the parser has seen to 0 =< imm < 64
  Word(e.opcode, e.funct7 + Bits(i.imm, 5, 1), Bits(i.imm, 0, 5), i.rs1, e.funct3, i.rd)
generateI3TypeMachineCode(i, e)   == Upper12(e.opcode, 0, 0, e.funct3, 0)

\* mutant: the offset is not cut to the bits its field has.
generateSTypeUncut(i, e) ==
  Word(e.opcode, i.imm \div 2 ^ 5, i.rs2, i.rs1, e.funct3, Bits(i.imm, 0, 5))

generateSTypeMachineCode(i, e)    ==
  Word(e.opcode, Bits(i.imm, 5, 7), i.rs2, i.rs1, e.funct3, Bits(i.imm, 0, 5))
generateFDSTypeMachineCode(i, e)  == generateSTypeMachineCode(i, e)
generateBTypeMachineCode(i, e)    ==
  Word(e.opcode, 64 * Bits(i.imm, 12, 1) + Bits(i.imm, 5, 6), i.rs2, i.rs1, e.funct3,
       2 * Bits(i.imm, 1, 4) + Bits(i.imm, 11, 1))
generateUTypeMachineCode(i, e)    == Upper20(e.opcode, i.imm, i.rd)
generateJTypeMachineCode(i, e)    ==
  Upper20(e.opcode, 2 ^ 19 * Bits(i.imm, 20, 1) + 2 ^ 9 * Bits(i.imm, 1, 10)
                      + 2 ^ 8 * Bits(i.imm, 11, 1) + Bits(i.imm, 12, 8), i.rd)
generateCSRRTypeMachineCode(i, e) == Upper12(e.opcode, i.csr, i.rs1, e.funct3, i.rd)
generateCSRITypeMachineCode(i, e) == Upper12(e.opcode, i.csr, Bits(i.imm, 0, 5), e.funct3, i.rd)
generateFDR1TypeMachineCode(i, e) == Word(e.opcode, e.funct7, i.rs2, i.rs1, i.rm, i.rd)
generateFDR2TypeMachineCode(i, e) == Word(e.opcode, e.funct7, e.rs2, i.rs1, i.rm, i.rd)
generateFDR3TypeMachineCode(i, e) == Word(e.opcode, e.funct7, 0, i.rs1, e.funct3, i.rd)
generateFDR4TypeMachineCode(i, e) == Word(e.opcode, 4 * i.rs3 + e.funct7, i.rs2, i.rs1, i.rm, i.rd)

generateMachineCode(i) ==
  LET e == EncodingOf(i.name)
      f == Format(i.name)
  IN CASE f = "R"             -> generateRTypeMachineCode(i, e)
       [] f = "I1"            -> generateI1TypeMachineCode(i, e)
       [] f = "I2"            -> generateI2TypeMachineCode(i, e)
       [] f = "I3"            -> generateI3TypeMachineCode(i, e)
       [] f = "S"             -> generateSTypeMachineCode(i, e)
       [] f = "B"             -> generateBTypeMachineCode(i, e)
       [] f = "U"             -> generateUTypeMachineCode(i, e)
       [] f = "J"             -> generateJTypeMachineCode(i, e)
       [] f = "CSR_R"         -> generateCSRRTypeMachineCode(i, e)
       [] f = "CSR_I"         -> generateCSRITypeMachineCode(i, e)
       [] f = "FDR"           -> generateFDRTypeMachineCode(i, e)
       [] f = "FDI"           -> generateFDITypeMachineCode(i, e)
       [] f = "FDS"           -> generateFDSTypeMachineCode(i, e)
       [] f = "FDR1"          -> generateFDR1TypeMachineCode(i, e)
       [] f = "FDR2"          -> generateFDR2TypeMachineCode(i, e)
       [] f = "FDR3"          -> generateFDR3TypeMachineCode(i, e)
       [] f = "FDR4"          -> generateFDR4TypeMachineCode(i, e)
=============================================================================
