----------------------------- MODULE Execution ------------------------------
(***************************************************************************)
(* What executing a word does, per processor, as terms over the registers  *)
(* it reads: the register it writes and the term it writes there, a change *)
(* of a control register, a store, and where execution goes on.            *)
(*                                                                         *)
(* A rounding operation has the rounding mode as its last argument.  The   *)
(* pipelined processors are seen one word at a time: what overlapping      *)
(* words do to each other is the subject of module Pipeline.  What a       *)
(* single-precision number has in the upper half of its register is left   *)
(* out, and so is the operand rs3, as no processor executes a word with it.*)
(***************************************************************************)
EXTENDS Decoding

NoTerm  == <<"none">>
Follows == <<"follows">>
Nothing == [dest |-> None, value |-> NoTerm, csr |-> NoTerm, store |-> NoTerm, next |-> Follows]

Writes(dest, value)        == [Nothing EXCEPT !.dest = dest, !.value = value]
Stores(name, reg, address) == [Nothing EXCEPT !.store = <<name, reg, address>>]
Goes(next)                 == [Nothing EXCEPT !.next = next]

-----------------------------------------------------------------------------
(* Rounding.  The operations that round, and the mode the host's           *)
(* floating-point unit is in while one is carried out: the unit is shared  *)
(* by all that the thread does, and a field rm of 4 or above leaves it     *)
(* alone.                                                                  *)

Rounding ==
  {n \o s : n \in {"fadd", "fsub", "fmul", "fdiv", "fsqrt", "fcvt.w", "fcvt.wu", "fcvt.l",
                   "fcvt.lu"}, s \in {".s", ".d"}}
    \cup {n \o s : n \in {"fcvt.s", "fcvt.d"}, s \in {".w", ".wu", ".l", ".lu"}}

IsRounding(w) == w.opcode = "OP-FP" /\ FloatSignal(w) \in Rounding

\* The field rm that reaches the ALU: every word has one, whatever its funct3 means.
FieldRm(p, w, frm) ==
  IF w.funct3 = 7 /\ (p = "rv5s" \/ isFInstruction(w)) THEN frm ELSE w.funct3

RoundsIn(rm, host) == IF rm \in 0 .. 3 THEN rm ELSE host

\* An address, and a move from one kind of register to the other, are returned before the mode
\* is set back.
Unrestored == {"add", "fmv.x.w", "fmv.d.x"}

HostAfter(p, w, frm, host) ==
  IF IsFloat(w) /\ GetAluSignal(p, w) \in Unrestored
  THEN RoundsIn(FieldRm(p, w, frm), host) ELSE host

-----------------------------------------------------------------------------
(* Results of the ALU. *)

FromGpr(w) == \/ w.opcode \in {"LOAD-FP", "STORE-FP"}
              \/ w.funct7 \in {\b1101000, \b1111000, \b1101001, \b1111001}

In1(w)    == IF IsFloat(w) /\ ~FromGpr(w) THEN f(w.rs1) ELSE x(w.rs1)
In2(p, w) == IF AluSrc(p, w) THEN imm(ImmGenerator(w))
             ELSE IF IsFloat(w) THEN f(w.rs2) ELSE x(w.rs2)

\* Operations of one operand; the conversion of an unsigned word to double precision has a
\* signal, but no case in the ALU.
Unary == {"fsqrt.s", "fsqrt.d", "fmv.x.w", "fmv.w.x", "fmv.x.d", "fmv.d.x", "fclass.s", "fclass.d"}
           \cup {n \o s : n \in {"fcvt.w", "fcvt.wu", "fcvt.l", "fcvt.lu"}, s \in {".s", ".d"}}
           \cup {n \o s : n \in {"fcvt.s", "fcvt.d"}, s \in {".w", ".wu", ".l", ".lu"}}
NotInAlu == {"none", "fcvt.d.lu"}

\* A shift takes the lower six bits of its second operand.
Masked(signal, operand) ==
  IF signal \in {"sll", "srl", "sra"} /\ operand[1] = "i" THEN imm(operand[2] % 64) ELSE operand

Result(p, w, mode) ==
  LET signal == GetAluSignal(p, w)
  IN IF signal \in NotInAlu THEN <<"zero">>
     ELSE <<signal, In1(w)>> \o (IF signal \in Unary THEN <<>> ELSE <<Masked(signal, In2(p, w))>>)
                             \o (IF signal \in Rounding THEN <<mode>> ELSE <<>>)

-----------------------------------------------------------------------------
(* Memory, the program counter and registers. *)

LoadNames  == <<"lb", "lh", "lw", "ld", "lbu", "lhu", "lwu">>
StoreNames == <<"sb", "sh", "sw", "sd">>

Loaded(p, w) ==   \* WriteMemory, and the memory stage, of a load
  <<IF isFInstruction(w) THEN "flw" ELSE IF isDInstruction(w) THEN "fld"
    ELSE Choose(w.funct3, LoadNames), Result(p, w, 0)>>

Store(p, w) ==
  Stores(IF isFInstruction(w) THEN "fsw" ELSE IF isDInstruction(w) THEN "fsd"
         ELSE Choose(w.funct3, StoreNames),
         IF IsFloat(w) THEN f(w.rs2) ELSE x(w.rs2), Result(p, w, 0))

\* mutant: the unsigned tests are taken for one another.
TestSwapped(w) == Choose(w.funct3, <<"=0", "#0", "", "", "=1", "=0", "=0", "=1">>)

\* The test of a branch on what the ALU makes of the two registers.
Test(w) == Choose(w.funct3, <<"=0", "#0", "", "", "=1", "=0", "=1", "=0">>)

IsBranch(w) == w.opcode \in {instruction_encoding_map[n].opcode :
                                n \in {"beq", "bne", "blt", "bge", "bltu", "bgeu"}}
Branch(p, w) == Goes(<<"branch", Test(w), Result(p, w, 0), imm(ImmGenerator(w))>>)

\* The pipelined processors clear the lowest bit of the target of a jalr, the single-cycle
\* processor goes where the ALU says.
Jump(p, w) ==
  [Writes(x(w.rd), <<"link">>) EXCEPT
     !.next = IF w.opcode = "JAL" THEN <<"jal", imm(ImmGenerator(w))>>
              ELSE <<IF p = "rv5s" THEN "even" ELSE "any", Result(p, w, 0)>>]

\* The single-cycle processor computes the result of an auipc itself; the pipelined ones leave
\* it to the ALU.
UpperResult(p, w) ==
  IF w.opcode = "LUI" THEN <<"upper", imm(ImmGenerator(w))>>
  ELSE IF p = "rvss"  THEN <<"pc+upper", imm(ImmGenerator(w))>>
  ELSE Result(p, w, 0)

\* pipeline_writeback of the word instructions has no case.
WriteBack(p, w, mode) ==
  CASE w.opcode \in {"OP", "OP-IMM"}   -> Writes(x(w.rd), Result(p, w, mode))
    [] w.opcode = "LOAD"               -> Writes(x(w.rd), Loaded(p, w))
    [] w.opcode \in {"LUI", "AUIPC"}   -> Writes(x(w.rd), UpperResult(p, w))
    [] w.opcode \in {"JAL", "JALR"}    -> Jump(p, w)
    [] OTHER                           -> Nothing

\* Whether a floating-point word writes a general register is read off funct7 alone, which in
\* a load holds a part of the offset.
ToGpr(w) == w.funct7 \in (IF isFInstruction(w) THEN {\b1010000, \b1100000, \b1110000}
                                               ELSE {\b1010001, \b1100001, \b1110001})

WriteBackFloat(p, w, mode) ==
  LET value == IF w.opcode = "LOAD-FP" /\ ~ToGpr(w) THEN Loaded(p, w) ELSE Result(p, w, mode)
  IN IF w.opcode \notin {"LOAD-FP", "OP-FP"} THEN Nothing
     ELSE Writes(IF ToGpr(w) THEN x(w.rd) ELSE f(w.rd), value)

\* Only the single-cycle processor executes the CSR instructions: execute_csr of the others is
\* an empty function, and what the stage handed on before it hands on again.
CsrNames == <<"", "csrrw", "csrrs", "csrrc", "", "csrrwi", "csrrsi", "csrrci">>
Csr(p, w) ==
  LET number == 32 * w.funct7 + w.rs2
  IN IF p = "rv5s" THEN Goes(<<"repeats">>)
     ELSE [Writes(x(w.rd), <<"csr", number>>) EXCEPT
             !.csr = <<Choose(w.funct3, CsrNames), number,
                       IF w.funct3 >= 5 THEN imm(w.rs1) ELSE x(w.rs1)>>]

HandleSyscall(p) == Goes(IF p = "rvss" THEN <<"syscall">> ELSE <<"stop">>)

Effective(p, e) ==   \* nothing is written to x0, and nothing to f0 in the pipelined processors
  IF e.dest = x(0) \/ (p = "rv5s" /\ e.dest = f(0)) THEN [e EXCEPT !.dest = None, !.value = NoTerm] ELSE e

Performs(p, w, frm, host) ==
  LET mode == RoundsIn(FieldRm(p, w, frm), host)
  IN Effective(p,
       CASE w.opcode = "SYSTEM"                -> IF w.funct3 # 0 THEN Csr(p, w) ELSE HandleSyscall(p)
         [] w.opcode \in {"STORE", "STORE-FP"} -> Store(p, w)
         [] IsBranch(w)                        -> Branch(p, w)
         [] OTHER -> IF IsFloat(w) THEN WriteBackFloat(p, w, mode) ELSE WriteBack(p, w, mode))
=============================================================================
