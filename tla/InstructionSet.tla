--------------------------- MODULE InstructionSet ---------------------------
(***************************************************************************)
(* The way of one line of assembly through the system: parsed, encoded,    *)
(* shown by the disassembler, and executed by a processor; line after line *)
(* on one thread, whose floating-point unit remembers its rounding mode.   *)
(*                                                                         *)
(* Lines and RoundingModes bound the input: the lines the editor may hold  *)
(* and the values that the control register frm may have.                  *)
(***************************************************************************)
EXTENDS Execution, Disassembly

CONSTANTS Lines, RoundingModes

Processors == {"rvss", "rv5s"}

VARIABLES
  line,    \* what is written in the editor
  code,    \* the word it was assembled to, the set of none or one; {Refused} after an error
  shown,   \* the disassembly of the word, or the empty line
  done,    \* the effect of executing the word: [processor, effect, mode]
  frm,     \* the control register of the rounding mode
  host     \* the rounding mode of the thread's floating-point unit

vars == <<line, code, shown, done, frm, host>>

Empty   == [op |-> "", operands |-> <<>>]
Refused == [opcode |-> "refused"]
NotDone == [processor |-> ""]

Init == /\ line = Empty /\ code = {} /\ shown = Empty /\ done = NotDone
        /\ frm = 0 /\ host = 0

Write(l) ==
  /\ line = Empty
  /\ line' = l
  /\ UNCHANGED <<code, shown, done, frm, host>>

\* assemble: nothing is loaded after an error of the parser, or of the code generator, which
\* throws for a name that none of its sets has.
Encoded(l) == {generateMachineCode(u) : u \in {u \in ParseLine(l) : u.name \in Encodable}}

Assemble ==
  /\ line # Empty /\ code = {}
  /\ code' = IF Encoded(line) = {} THEN {Refused} ELSE Encoded(line)
  /\ UNCHANGED <<line, shown, done, frm, host>>

Assembled == code # {} /\ code # {Refused}
TheWord   == CHOOSE w \in code : TRUE

Show ==
  /\ Assembled /\ shown = Empty /\ done = NotDone
  /\ shown' = disassemble(TheWord)
  /\ UNCHANGED <<line, code, done, frm, host>>

Execute(p) ==
  /\ Assembled /\ shown = Empty /\ done = NotDone
  /\ done' = [processor |-> p, effect |-> Performs(p, TheWord, frm, host)]
  /\ host' = HostAfter(p, TheWord, frm, host)
  /\ UNCHANGED <<line, code, shown, frm>>

Clear ==
  /\ shown # Empty \/ done # NotDone \/ code = {Refused}
  /\ line' = Empty /\ code' = {} /\ shown' = Empty /\ done' = NotDone
  /\ UNCHANGED <<frm, host>>

\* The register tab, or an instruction, sets the rounding mode.
SetRoundingMode(m) ==
  /\ line = Empty /\ frm' = m
  /\ UNCHANGED <<line, code, shown, done, host>>

Next == \/ \E l \in Lines : Write(l)
        \/ Assemble \/ Show \/ Clear
        \/ \E p \in Processors : Execute(p)
        \/ \E m \in RoundingModes : SetRoundingMode(m)

Spec == Init /\ [][Next]_vars

-----------------------------------------------------------------------------
(* What a line means: the instruction set, independent of words. *)

Reg(l, k) == IF l.operands[k].kind = "FPR" THEN f(Value(l, k)) ELSE x(Value(l, k))

HasMode(l) == l.operands # <<>> /\ l.operands[Len(l.operands)].kind = "RM"
Mode(l)    == IF HasMode(l) /\ RoundingMode(l) # Dynamic THEN RoundingMode(l) ELSE frm
Sources(l) == LET count == Len(l.operands) - (IF HasMode(l) THEN 1 ELSE 0)
              IN [k \in 1 .. count - 1 |-> Reg(l, k + 1)]

FusedNames == Both({"fmadd", "fmsub", "fnmsub", "fnmadd"})
Rounds(l)  == l.op \in Rounding \cup FusedNames \cup {"fcvt.s.d", "fcvt.d.s"}

\* The operation an instruction with an immediate shares with one of three registers.
OfImmediate ==
  [addi |-> "add", slti |-> "slt", sltiu |-> "sltu", xori |-> "xor", ori |-> "or", andi |-> "and",
   slli |-> "sll", srli |-> "srl", srai |-> "sra"]
BranchTests ==
  [beq |-> <<"=0", "sub">>, bne |-> <<"#0", "sub">>, blt |-> <<"=1", "slt">>, bge |-> <<"=0", "slt">>,
   bltu |-> <<"=1", "sltu">>, bgeu |-> <<"=0", "sltu">>]

Address(l) == <<"add", x(Value(l, 3)), imm(Value(l, 2))>>

Meaning(l) ==
  LET effect ==
        CASE l.op \in DOMAIN OfImmediate ->
               Writes(Reg(l, 1), <<OfImmediate[l.op], Reg(l, 2), imm(Value(l, 3))>>)
          [] l.op \in ToSet(LoadNames) \cup {"flw", "fld"} -> Writes(Reg(l, 1), <<l.op, Address(l)>>)
          [] l.op \in ToSet(StoreNames) \cup {"fsw", "fsd"} -> Stores(l.op, Reg(l, 1), Address(l))
          [] l.op \in DOMAIN BranchTests ->
               Goes(<<"branch", BranchTests[l.op][1], <<BranchTests[l.op][2], Reg(l, 1), Reg(l, 2)>>,
                      imm(Value(l, 3))>>)
          [] l.op = "lui"    -> Writes(Reg(l, 1), <<"upper", imm(Value(l, 2))>>)
          [] l.op = "auipc"  -> Writes(Reg(l, 1), <<"pc+upper", imm(Value(l, 2))>>)
          [] l.op = "jal"    -> [Writes(Reg(l, 1), <<"link">>) EXCEPT !.next = <<"jal", imm(Value(l, 2))>>]
          [] l.op = "jalr"   -> [Writes(Reg(l, 1), <<"link">>) EXCEPT !.next = <<"even", Address(l)>>]
          [] l.op = "ecall"  -> Goes(<<"syscall">>)
          [] l.op = "ebreak" -> Goes(<<"breakpoint">>)
          [] l.op \in ToSet(CsrNames) ->
               [Writes(Reg(l, 1), <<"csr", Value(l, 2)>>) EXCEPT
                  !.csr = <<l.op, Value(l, 2),
                            IF l.operands[3].kind = "I" THEN imm(Value(l, 3)) ELSE Reg(l, 3)>>]
          [] OTHER ->
               Writes(Reg(l, 1), <<l.op>> \o Sources(l) \o (IF Rounds(l) THEN <<Mode(l)>> ELSE <<>>))
  IN IF effect.dest = x(0) THEN [effect EXCEPT !.dest = None, !.value = NoTerm] ELSE effect

-----------------------------------------------------------------------------
(* What the code gets wrong, each with the place it goes wrong. *)

\* instruction_syntax_map: conversions whose form with a rounding mode has registers of the
\* wrong kinds.
SwappedNames == {"fcvt.w.d", "fcvt.wu.d", "fcvt.l.d", "fcvt.lu.d", "fcvt.d.w", "fcvt.d.wu",
                 "fcvt.s.d", "fcvt.d.s"}
Swapped(l) == HasMode(l) /\ l.op \in SwappedNames

\* WriteBackFloat: loads whose offset has in its upper bits what marks a result for a general
\* register.
MistakenForGpr(l) == \/ l.op = "flw" /\ Value(l, 2) \div 32 \in {-48, -32, -16}
                     \/ l.op = "fld" /\ Value(l, 2) \div 32 \in {-47, -31, -15}

\* No decoding or no case in the ALU.
NotImplemented(l) == l.op \in FusedNames \cup {"fcvt.s.d", "fcvt.d.s", "fcvt.d.lu"}

\* WriteBack and pipeline_writeback have no case for them.
WordName(l) == l.op \in {"mulw", "divw", "divuw", "remw", "remuw"}

\* ALU: there is no rounding to nearest with ties away from zero.  ExecuteDouble: the dynamic
\* mode is not looked up, so the mode is the one the thread was left in.
DoubleRounding == {n \in Rounding : n \in {m \o ".d" : m \in {"fadd", "fsub", "fmul", "fdiv", "fsqrt",
                     "fcvt.w", "fcvt.wu", "fcvt.l", "fcvt.lu"}} \cup {"fcvt.d.w", "fcvt.d.wu", "fcvt.d.l"}}
IsDynamic(l)   == ~HasMode(l) \/ RoundingMode(l) = Dynamic
WrongMode(p, l) ==
  \/ l.op \in Rounding /\ Mode(l) = 4
  \/ p = "rvss" /\ l.op \in DoubleRounding /\ IsDynamic(l) /\ host # frm

\* The wrong results matter unless they are for x0, which ignores them.
WrongResult(p, l) == \/ WordName(l) \/ WrongMode(p, l)
                     \/ p = "rv5s" /\ l.op \in {"auipc", "remu"}
                     \/ p = "rv5s" /\ l.op = "srai" /\ Value(l, 3) >= 32

Misexecuted(p, l) ==
  \/ l.op = "ebreak" \/ MistakenForGpr(l)
  \/ (NotImplemented(l) \/ Swapped(l)) /\ ~(p = "rv5s" /\ Reg(l, 1) = x(0))
  \/ WrongResult(p, l) /\ Reg(l, 1) # x(0)
  \/ p = "rvss" /\ l.op = "jalr"
  \/ p = "rv5s" /\ \/ l.op \in {"ecall"} \cup ToSet(CsrNames)
                   \/ l.op \notin {"fsw", "fsd"} /\ Reg(l, 1) = f(0)

\* disassemble: the precision shown twice, all bits of funct7 compared, nop.
Misshown(l) ==
  \/ Swapped(l) \/ l.op = "ebreak"
  \/ l.op \in {n \o s : n \in {"fcvt.s", "fcvt.d"}, s \in {".w", ".wu", ".l", ".lu"}}
  \/ l.op = "srai" /\ Value(l, 3) >= 32
  \/ l.op = "addi" /\ Reg(l, 1) = x(0) /\ Reg(l, 2) = x(0) /\ Value(l, 3) = 0

-----------------------------------------------------------------------------
(* Which lines the instruction set has: registers of the right kinds and   *)
(* immediates in range.                                                    *)

FloatDest(op)  == op \notin {n \o s : n \in {"feq", "flt", "fle", "fclass", "fcvt.w", "fcvt.wu",
                                             "fcvt.l", "fcvt.lu"}, s \in {".s", ".d"}}
                              \cup {"fmv.x.w", "fmv.x.d"}
FloatSource(op) == op \notin {n \o s : n \in {"fcvt.s", "fcvt.d"}, s \in {".w", ".wu", ".l", ".lu"}}
                               \cup {"fmv.w.x", "fmv.d.x"}
SourceCount(op) ==
  CASE op \in FusedNames -> 3
    [] op \in Both({"fadd", "fsub", "fmul", "fdiv", "fsgnj", "fsgnjn", "fsgnjx", "fmin", "fmax", "feq",
                    "flt", "fle"}) -> 2
    [] OTHER -> 1

FloatKinds(op) ==
  <<IF FloatDest(op) THEN "FPR" ELSE "GPR">>
    \o [k \in 1 .. SourceCount(op) |-> IF FloatSource(op) THEN "FPR" ELSE "GPR"]

Opcode(op) == instruction_encoding_map[op].opcode

\* An offset to a word of the program.
Offset(n, limit) == n \in -limit .. limit - 1 /\ n % 4 = 0

Legal(l) ==
  LET kinds == Kinds(l)
      table == Formats[TableOf(l.op)].format
  IN CASE table = "R"      -> kinds = O_GPR_C_GPR_C_GPR
       [] table = "I1" /\ Opcode(l.op) \in {"LOAD", "JALR"} ->
            kinds = O_GPR_C_I_LP_GPR_RP /\ Value(l, 2) \in -2048 .. 2047
       [] table = "I1" /\ Opcode(l.op) \notin {"LOAD", "JALR"} ->
            kinds = O_GPR_C_GPR_C_I /\ Value(l, 3) \in -2048 .. 2047
       [] table = "I2"     -> kinds = O_GPR_C_GPR_C_I
                                /\ Value(l, 3) \in (IF Opcode(l.op) = "OP-IMM" THEN 0 .. 63 ELSE 0 .. 31)
       [] table = "I3"     -> kinds = O
       [] table = "S"      -> kinds = O_GPR_C_I_LP_GPR_RP /\ Value(l, 2) \in -2048 .. 2047
       [] table = "B"      -> kinds = O_GPR_C_GPR_C_I /\ Offset(Value(l, 3), 4096)
       [] table = "U"      -> kinds = O_GPR_C_I /\ Value(l, 2) \in 0 .. 1048575
       [] table = "J"      -> kinds = O_GPR_C_I /\ Offset(Value(l, 2), 1048576)
       [] table = "CSR_R"  -> kinds = O_GPR_C_CSR_C_GPR
       [] table = "CSR_I"  -> kinds = O_GPR_C_CSR_C_I /\ Value(l, 3) \in 0 .. 31
       [] table \in {"FDI", "FDS"} -> kinds = O_FPR_C_I_LP_GPR_RP /\ Value(l, 2) \in -2048 .. 2047
       [] OTHER            -> kinds \in {FloatKinds(l.op)}
                                \cup (IF Rounds(l) THEN {FloatKinds(l.op) \o <<"RM">>} ELSE {})

\* parse_O_GPR_C_I: an offset that is even, where its message asks for a multiple of 4.
AcceptedByMistake(l) == \/ Swapped(l) /\ Kinds(l) \in ToSet(FloatSyntaxes[l.op])
                        \/ l.op = "jal" /\ Kinds(l) = O_GPR_C_I /\ Value(l, 2) % 4 = 2
                             /\ FitsJump(Value(l, 2))
RefusedByMistake(l)  == \/ l.op \notin DOMAIN instruction_syntax_map \/ l.op \notin Encodable
                        \/ Swapped(l) /\ Kinds(l) \notin ToSet(FloatSyntaxes[l.op])

-----------------------------------------------------------------------------
(* Properties. *)

\* TypeOK: the editor, the word and the results are of the kinds described above.
TypeOK ==
  /\ line = Empty \/ line.op \in valid_instructions
  /\ Cardinality(code) =< 1
  /\ \A w \in code : \/ w = Refused
                      \/ /\ {w.rd, w.rs1, w.rs2} \subseteq 0 .. 31
                         /\ w.funct3 \in 0 .. 7 /\ w.funct7 \in 0 .. 127
  /\ done # NotDone => done.processor \in Processors
  /\ frm \in RoundingModes /\ host \in 0 .. 3

\* ExecutesExactly: from the text of an instruction to its effect on registers, memory and
\* program counter, through parser, encoder, decoder, control unit, ALU and write-back of either
\* processor, nothing is changed or lost, but for the instructions of Misexecuted, which all
\* have another effect than the one written.  The rounding mode is part of the effect, and
\* depends on the instructions executed before.
ExecutesExactly ==
  done # NotDone => (done.effect = Meaning(line) <=> ~Misexecuted(done.processor, line))

\* ReadsBack: the disassembly of a word is the line it was assembled from, less its rounding
\* mode, but for the lines of Misshown, which are all shown as something else.
WithoutMode(l) == IF HasMode(l) THEN [l EXCEPT !.operands = Front(l.operands)] ELSE l
ReadsBack == shown # Empty => (shown = WithoutMode(line) <=> ~Misshown(line))

\* AcceptsExactly: a line becomes a word if and only if the instruction set has it, but for the
\* lines that are taken or refused by mistake.
AcceptsExactly ==
  code # {} => (code # {Refused} <=> (Legal(line) \/ AcceptedByMistake(line)) /\ ~RefusedByMistake(line))

=============================================================================
