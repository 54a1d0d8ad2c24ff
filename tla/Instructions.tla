---------------------------- MODULE Instructions ----------------------------
(***************************************************************************)
(* Instructions as the processors tell them apart: one operation for each  *)
(* combination of control signals, operands and destination.  The fields   *)
(* rd, rs1, rs2 and rs3 are bits that are cut out of every instruction,    *)
(* also where they are part of an immediate.  `to' is the place a branch   *)
(* or a jal goes to.  A place counts instructions, not bytes.              *)
(*                                                                         *)
(* What the ALU computes, and how words and places correspond, are         *)
(* parameters.  System instructions, auipc and the fused multiply-adds are *)
(* left out; the double-precision instructions take the path of the single *)
(* ones.                                                                   *)
(***************************************************************************)
EXTENDS Integers

CONSTANTS
  Register,   \* numbers of the registers, of either register file
  Word,       \* what a register or a cell of memory holds; memory has a cell for each
  Size,       \* instructions in the program
  Alu,        \* what the ALU makes of a signal and two words
  ImmWord,    \* the immediate that stands where a register number could
  JumpTo,     \* the place a word is the address of
  Link,       \* the address of the next place
  Programs,   \* the programs that may be loaded: the instruction at each place
  Starts      \* registers and memory a program may be started with

Place == 0 .. Size

AluSignals == {"ADD", "SUB", "ADDW", "FADD_S", "FMV_X_W", "FMV_W_X"}

ASSUME RegisterAssumption == Register \subseteq Nat /\ 0 \in Register
ASSUME WordAssumption == 0 \in Word
ASSUME SizeAssumption == Size \in Nat
ASSUME AluAssumption == Alu \in [AluSignals \X Word \X Word -> Word]
ASSUME MoveAssumption ==   \* a move does not look at the second operand
  \A signal \in {"FMV_X_W", "FMV_W_X"} : \A x, y, z \in Word :
    Alu[signal, x, y] = Alu[signal, x, z]
ASSUME AddressAssumption == /\ ImmWord \in [Register -> Word]
                            /\ JumpTo \in [Word -> Place]
                            /\ Link \in [Place -> Word]

FloatOps  == {"fadd", "flw", "fsw", "fmv_x_w", "fmv_w_x"}
LoadOps   == {"lw", "flw"}
StoreOps  == {"sw", "fsw"}
BranchOps == {"beq", "bne"}
JumpOps   == {"jal", "jalr"}
Ops       == {"nop", "add", "sub", "addw", "addi", "lui"}
               \cup FloatOps \cup LoadOps \cup StoreOps \cup BranchOps \cup JumpOps

Instruction == [op : Ops, rd : Register, rs1 : Register, rs2 : Register, rs3 : Register,
                to : Place]

ASSUME ProgramsAssumption == Programs \subseteq [0 .. Size - 1 -> Instruction]
ASSUME StartsAssumption ==
  Starts \subseteq {s \in [gpr : [Register -> Word], fpr : [Register -> Word],
                           mem : [Word -> Word]] : s.gpr[0] = 0}

\* addi x0, x0, 0: the encoding of a bubble.
Nop == [op |-> "nop", rd |-> 0, rs1 |-> 0, rs2 |-> 0, rs3 |-> 0, to |-> 0]

-----------------------------------------------------------------------------
(* Control signals. *)

IsFloat(i)  == i.op \in FloatOps
RegWrite(i) == i.op \notin StoreOps \cup BranchOps \cup {"nop"}
MemRead(i)  == i.op \in LoadOps
MemWrite(i) == i.op \in StoreOps
AluSrc(i)   == i.op \in LoadOps \cup StoreOps \cup {"addi", "lui", "jalr"}

AluOp(i) == CASE i.op \in {"addi"} \cup BranchOps          -> 1
              [] i.op \in {"add", "sub", "addw"}           -> 2
              [] i.op \in {"fadd", "fmv_x_w", "fmv_w_x"}   -> 3
              [] OTHER                                     -> 0

\* The ALU control sees the signal the control unit was last set to.
GetAluSignal(aluOp, i) ==
  CASE i.op \in BranchOps /\ aluOp = 1  -> "SUB"
    [] i.op = "sub" /\ aluOp = 2        -> "SUB"
    [] i.op = "addw" /\ aluOp = 2       -> "ADDW"
    [] i.op = "fmv_x_w" /\ aluOp = 3    -> "FMV_X_W"
    [] i.op = "fmv_w_x" /\ aluOp = 3    -> "FMV_W_X"
    [] i.op \in {"fadd", "nop"} /\ aluOp = 3 -> "FADD_S"
    [] OTHER                            -> "ADD"

-----------------------------------------------------------------------------
(* Operands and results. *)

\* The immediate of a store has its low bits where others have rd.
Imm(i) == ImmWord[IF MemWrite(i) THEN i.rd ELSE i.rs2]

\* Floating-point instructions whose first operand is in an integer register.
GprBase(i) == i.op \in {"flw", "fsw", "fmv_w_x"}

Compute(i, aluOp, a, b) ==
  IF i.op = "lui" THEN Imm(i) ELSE Alu[GetAluSignal(aluOp, i), a, b]

BranchTaken(i, result) == \/ i.op = "beq" /\ result = 0
                          \/ i.op = "bne" /\ result # 0

Redirects(i, result) == i.op \in JumpOps \/ BranchTaken(i, result)

Successor(i, place, result) ==
  CASE i.op = "jalr"                              -> JumpTo[result]
    [] i.op = "jal" \/ BranchTaken(i, result)     -> i.to
    [] OTHER                                      -> place + 1

\* What the write-back of each register file does with an instruction; the
\* 32-bit operations have no case there.
WritesGpr(i) == i.op \in {"add", "sub", "addi", "lui", "lw", "fmv_x_w"} \cup JumpOps
WritesFpr(i) == i.op \in {"fadd", "flw", "fmv_w_x"}

Written(i, place, result, memory) ==
  CASE i.op \in JumpOps -> Link[place]
    [] MemRead(i)       -> memory[result]
    [] OTHER            -> result

-----------------------------------------------------------------------------
(* The registers an instruction really uses, for saying which programs the *)
(* variants without hazard detection can be given.                         *)

GprSources(i) ==
  (IF i.op \in {"add", "sub", "addw", "addi", "lw", "sw", "jalr"} \cup BranchOps \/ GprBase(i)
   THEN {i.rs1} ELSE {})
  \cup (IF i.op \in {"add", "sub", "addw", "sw"} \cup BranchOps THEN {i.rs2} ELSE {})

FprSources(i) == (IF i.op \in {"fadd", "fmv_x_w"} THEN {i.rs1} ELSE {})
                   \cup (IF i.op \in {"fadd", "fsw"} THEN {i.rs2} ELSE {})

\* Instruction j uses what instruction i writes.
Depends(j, i) == \/ WritesGpr(i) /\ i.rd # 0 /\ i.rd \in GprSources(j)
                 \/ WritesFpr(i) /\ i.rd \in FprSources(j)
=============================================================================
