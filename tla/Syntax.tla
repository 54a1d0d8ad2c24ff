------------------------------- MODULE Syntax -------------------------------
(***************************************************************************)
(* The syntax of a line of assembly and the instruction the parser makes   *)
(* of it.                                                                  *)
(*                                                                         *)
(* A line is a name and its operands; an operand is [kind, value]: a       *)
(* general register (GPR) or one in brackets (LP_GPR_RP), a floating-point *)
(* register (FPR), a control register (CSR), a number (I), a rounding mode *)
(* (RM) or a label (LABEL_REF).  Commas and brackets go with the operands. *)
(*                                                                         *)
(* Each parse_ operator stands for the function of the parser of that name *)
(* and is only asked for a line of its kinds of operands.  It returns the  *)
(* set of the instruction, or the empty set where the code records an      *)
(* error and drops the line.                                               *)
(***************************************************************************)
EXTENDS Encoding

Kinds(l)    == [k \in DOMAIN l.operands |-> l.operands[k].kind]
Value(l, k) == l.operands[k].value

\* The encodings of rne, rtz, rdn, rup, rmm and dyn, the rounding modes 0 to 5.
getRoundingModeEncoding(mode) == <<0, 1, 2, 3, 4, 7>>[mode + 1]
Dynamic == getRoundingModeEncoding(5)

-----------------------------------------------------------------------------
(* The kinds of operands of each syntax. *)

O                           == <<>>
O_GPR_C_GPR_C_GPR           == <<"GPR", "GPR", "GPR">>
O_GPR_C_GPR_C_I             == <<"GPR", "GPR", "I">>
O_GPR_C_GPR_C_IL            == <<"GPR", "GPR", "LABEL_REF">>
O_GPR_C_I                   == <<"GPR", "I">>
O_GPR_C_IL                  == <<"GPR", "LABEL_REF">>
O_GPR_C_DL                  == <<"GPR", "LABEL_REF">>
O_GPR_C_I_LP_GPR_RP         == <<"GPR", "I", "LP_GPR_RP">>
O_GPR_C_CSR_C_GPR           == <<"GPR", "CSR", "GPR">>
O_GPR_C_CSR_C_I             == <<"GPR", "CSR", "I">>
O_FPR_C_FPR_C_FPR_C_FPR     == <<"FPR", "FPR", "FPR", "FPR">>
O_FPR_C_FPR_C_FPR_C_FPR_C_RM == <<"FPR", "FPR", "FPR", "FPR", "RM">>
O_FPR_C_FPR_C_FPR           == <<"FPR", "FPR", "FPR">>
O_FPR_C_FPR_C_FPR_C_RM      == <<"FPR", "FPR", "FPR", "RM">>
O_FPR_C_FPR                 == <<"FPR", "FPR">>
O_FPR_C_FPR_C_RM            == <<"FPR", "FPR", "RM">>
O_FPR_C_GPR                 == <<"FPR", "GPR">>
O_FPR_C_GPR_C_RM            == <<"FPR", "GPR", "RM">>
O_GPR_C_FPR                 == <<"GPR", "FPR">>
O_GPR_C_FPR_C_RM            == <<"GPR", "FPR", "RM">>
O_GPR_C_FPR_C_FPR           == <<"GPR", "FPR", "FPR">>
O_FPR_C_I_LP_GPR_RP         == <<"FPR", "I", "LP_GPR_RP">>

\* Names in both precisions.
Both(names) == {Single(n) : n \in names} \cup {Double(n) : n \in names}

\* The syntaxes of a name, in the order they are tried.  The word instructions other than
\* those of the multiply extension have none.
IntegerSyntaxes ==
     [n \in {"add", "sub", "xor", "or", "and", "sll", "srl", "sra", "slt", "sltu", "mul", "mulh",
             "mulhsu", "mulhu", "div", "divu", "rem", "remu", "mulw", "divw", "divuw", "remw",
             "remuw"} |-> <<O_GPR_C_GPR_C_GPR>>]
  @@ [n \in {"addi", "xori", "ori", "andi", "slli", "srli", "srai", "slti", "sltiu"} |->
        <<O_GPR_C_GPR_C_I>>]
  @@ [n \in {"lb", "lh", "lw", "ld"} |-> <<O_GPR_C_I_LP_GPR_RP, O_GPR_C_DL>>]
  @@ [n \in {"lbu", "lhu", "lwu", "sb", "sh", "sw", "sd", "jalr"} |-> <<O_GPR_C_I_LP_GPR_RP>>]
  @@ [n \in {"beq", "bne", "blt", "bge", "bltu", "bgeu"} |-> <<O_GPR_C_GPR_C_I, O_GPR_C_GPR_C_IL>>]
  @@ [n \in {"lui", "auipc"} |-> <<O_GPR_C_I>>]
  @@ [n \in {"jal"} |-> <<O_GPR_C_I, O_GPR_C_IL>>]
  @@ [n \in {"ecall", "ebreak"} |-> <<O>>]
  @@ [n \in {"csrrw", "csrrs", "csrrc"} |-> <<O_GPR_C_CSR_C_GPR>>]
  @@ [n \in {"csrrwi", "csrrsi", "csrrci"} |-> <<O_GPR_C_CSR_C_I>>]

\* The register kinds of the forms with a rounding mode are those of the other direction for
\* most conversions to and from double precision.
FloatSyntaxes ==
     [n \in {"flw", "fsw", "fld", "fsd"} |-> <<O_FPR_C_I_LP_GPR_RP>>]
  @@ [n \in Both({"fmadd", "fmsub", "fnmsub", "fnmadd"}) |->
        <<O_FPR_C_FPR_C_FPR_C_FPR, O_FPR_C_FPR_C_FPR_C_FPR_C_RM>>]
  @@ [n \in Both({"fadd", "fsub", "fmul", "fdiv"}) |-> <<O_FPR_C_FPR_C_FPR, O_FPR_C_FPR_C_FPR_C_RM>>]
  @@ [n \in Both({"fsqrt"}) |-> <<O_FPR_C_FPR, O_FPR_C_FPR_C_RM>>]
  @@ [n \in Both({"fsgnj", "fsgnjn", "fsgnjx", "fmin", "fmax"}) |-> <<O_FPR_C_FPR_C_FPR>>]
  @@ [n \in Both({"feq", "flt", "fle"}) |-> <<O_GPR_C_FPR_C_FPR>>]
  @@ [n \in Both({"fclass"}) \cup {"fmv.x.w", "fmv.x.d"} |-> <<O_GPR_C_FPR>>]
  @@ [n \in {"fmv.w.x", "fmv.d.x"} |-> <<O_FPR_C_GPR>>]
  @@ [n \in {"fcvt.w.s", "fcvt.wu.s", "fcvt.l.s", "fcvt.lu.s"} |-> <<O_GPR_C_FPR, O_GPR_C_FPR_C_RM>>]
  @@ [n \in {"fcvt.s.w", "fcvt.s.wu", "fcvt.s.l", "fcvt.s.lu", "fcvt.d.l", "fcvt.d.lu"} |->
        <<O_FPR_C_GPR, O_FPR_C_GPR_C_RM>>]
  @@ [n \in {"fcvt.w.d", "fcvt.wu.d", "fcvt.l.d", "fcvt.lu.d"} |-> <<O_GPR_C_FPR, O_FPR_C_GPR_C_RM>>]
  @@ [n \in {"fcvt.d.w", "fcvt.d.wu"} |-> <<O_FPR_C_GPR, O_GPR_C_FPR_C_RM>>]
  @@ [n \in {"fcvt.s.d", "fcvt.d.s"} |-> <<O_FPR_C_FPR, O_GPR_C_FPR_C_RM>>]

instruction_syntax_map == IntegerSyntaxes @@ FloatSyntaxes

-----------------------------------------------------------------------------
(* The instruction of a line of each syntax. *)

Instruction(name) ==
  [name |-> name, rd |-> 0, rs1 |-> 0, rs2 |-> 0, rs3 |-> 0, imm |-> 0, csr |-> 0, rm |-> 0]

Checked(instruction, ok) == IF ok THEN {instruction} ELSE {}

NameIn(l, format) == \E k \in DOMAIN Formats : Formats[k].format = format /\ l.op \in NamesOf(k)

Destination(l, n)       == [Instruction(l.op) EXCEPT !.rd = Value(l, 1), !.imm = n]
DestinationSource(l, n) == [Destination(l, n) EXCEPT !.rs1 = Value(l, 2)]
Compare(l, n)           ==
  [Instruction(l.op) EXCEPT !.rs1 = Value(l, 1), !.rs2 = Value(l, 2), !.imm = n]

\* mutant: the limits are those of a distance, whatever its direction.
FitsBranchEitherWay(offset) == offset \in -4096 .. 4096

FitsBranch(offset) == offset \in -4096 .. 4095
FitsJump(offset)   == offset \in -1048576 .. 1048575

parse_O(l)                 == {Instruction(l.op)}
parse_O_GPR_C_GPR_C_GPR(l) == {[DestinationSource(l, 0) EXCEPT !.rs2 = Value(l, 3)]}
parse_O_GPR_C_GPR_C_I(l)   ==
  LET n == Value(l, 3)
  IN CASE NameIn(l, "I2") -> Checked(DestinationSource(l, n), n \in 0 .. 63)
       [] NameIn(l, "I1") -> Checked(DestinationSource(l, n), n \in -2048 .. 2047)
       [] NameIn(l, "B")  -> Checked(Compare(l, n), FitsBranch(n) /\ n % 4 = 0)
parse_O_GPR_C_I(l) ==
  LET n == Value(l, 2)
  IN CASE NameIn(l, "U") -> Checked(Destination(l, n), n \in 0 .. 1048575)
       [] NameIn(l, "J") -> Checked(Destination(l, n), FitsJump(n) /\ n % 2 = 0)

Load(l)       == [Destination(l, Value(l, 2)) EXCEPT !.rs1 = Value(l, 3)]
StoreUnit(l)  == [Instruction(l.op) EXCEPT !.rs2 = Value(l, 1), !.imm = Value(l, 2), !.rs1 = Value(l, 3)]
FitsOffset(l) == Value(l, 2) \in -2048 .. 2047

parse_O_GPR_C_I_LP_GPR_RP(l) ==
  Checked(IF NameIn(l, "I1") THEN Load(l) ELSE StoreUnit(l), FitsOffset(l))
parse_O_FPR_C_I_LP_GPR_RP(l) ==
  Checked(IF NameIn(l, "FDI") THEN Load(l) ELSE StoreUnit(l), FitsOffset(l))

parse_O_GPR_C_CSR_C_GPR(l) ==
  {[Destination(l, 0) EXCEPT !.csr = Value(l, 2), !.rs1 = Value(l, 3)]}
parse_O_GPR_C_CSR_C_I(l) ==
  Checked([Destination(l, Value(l, 3)) EXCEPT !.csr = Value(l, 2)], Value(l, 3) \in 0 .. 31)

\* The first count operands are the registers rd, rs1, rs2 and rs3, in this order.
Registers(l, count, rm) ==
  LET Nth(k) == IF k =< count THEN Value(l, k) ELSE 0
  IN {[Instruction(l.op) EXCEPT !.rd = Nth(1), !.rs1 = Nth(2), !.rs2 = Nth(3), !.rs3 = Nth(4), !.rm = rm]}
RoundingMode(l) == getRoundingModeEncoding(Value(l, Len(l.operands)))

parse_O_FPR_C_FPR_C_FPR_C_FPR(l)      == Registers(l, 4, Dynamic)
parse_O_FPR_C_FPR_C_FPR_C_FPR_C_RM(l) == Registers(l, 4, RoundingMode(l))
parse_O_FPR_C_FPR_C_FPR(l)            == Registers(l, 3, Dynamic)
parse_O_FPR_C_FPR_C_FPR_C_RM(l)       == Registers(l, 3, RoundingMode(l))
parse_O_FPR_C_FPR(l)                  == Registers(l, 2, Dynamic)
parse_O_FPR_C_FPR_C_RM(l)             == Registers(l, 2, RoundingMode(l))
parse_O_FPR_C_GPR(l)                  == Registers(l, 2, Dynamic)
parse_O_FPR_C_GPR_C_RM(l)             == Registers(l, 2, RoundingMode(l))
parse_O_GPR_C_FPR(l)                  == Registers(l, 2, Dynamic)
parse_O_GPR_C_FPR_C_RM(l)             == Registers(l, 2, RoundingMode(l))
parse_O_GPR_C_FPR_C_FPR(l)            == Registers(l, 3, Dynamic)

HasSyntax(l) == /\ l.op \in DOMAIN instruction_syntax_map
                /\ Kinds(l) \in ToSet(instruction_syntax_map[l.op])

\* What the parser makes of a line without a label.
ParseLine(l) ==
  LET kinds == Kinds(l)
  IN IF ~HasSyntax(l) THEN {}
     ELSE CASE kinds = O                            -> parse_O(l)
            [] kinds = O_GPR_C_GPR_C_GPR            -> parse_O_GPR_C_GPR_C_GPR(l)
            [] kinds = O_GPR_C_GPR_C_I              -> parse_O_GPR_C_GPR_C_I(l)
            [] kinds = O_GPR_C_I                    -> parse_O_GPR_C_I(l)
            [] kinds = O_GPR_C_I_LP_GPR_RP          -> parse_O_GPR_C_I_LP_GPR_RP(l)
            [] kinds = O_GPR_C_CSR_C_GPR            -> parse_O_GPR_C_CSR_C_GPR(l)
            [] kinds = O_GPR_C_CSR_C_I              -> parse_O_GPR_C_CSR_C_I(l)
            [] kinds = O_FPR_C_FPR_C_FPR_C_FPR      -> parse_O_FPR_C_FPR_C_FPR_C_FPR(l)
            [] kinds = O_FPR_C_FPR_C_FPR_C_FPR_C_RM -> parse_O_FPR_C_FPR_C_FPR_C_FPR_C_RM(l)
            [] kinds = O_FPR_C_FPR_C_FPR            -> parse_O_FPR_C_FPR_C_FPR(l)
            [] kinds = O_FPR_C_FPR_C_FPR_C_RM       -> parse_O_FPR_C_FPR_C_FPR_C_RM(l)
            [] kinds = O_FPR_C_FPR                  -> parse_O_FPR_C_FPR(l)
            [] kinds = O_FPR_C_FPR_C_RM             -> parse_O_FPR_C_FPR_C_RM(l)
            [] kinds = O_FPR_C_GPR                  -> parse_O_FPR_C_GPR(l)
            [] kinds = O_FPR_C_GPR_C_RM             -> parse_O_FPR_C_GPR_C_RM(l)
            [] kinds = O_GPR_C_FPR                  -> parse_O_GPR_C_FPR(l)
            [] kinds = O_GPR_C_FPR_C_RM             -> parse_O_GPR_C_FPR_C_RM(l)
            [] kinds = O_GPR_C_FPR_C_FPR            -> parse_O_GPR_C_FPR_C_FPR(l)
            [] kinds = O_FPR_C_I_LP_GPR_RP          -> parse_O_FPR_C_I_LP_GPR_RP(l)
=============================================================================
