---------------------------- MODULE SingleCycle -----------------------------
(***************************************************************************)
(* RVSSProcessor: a Step fetches, decodes, executes, accesses memory and   *)
(* writes back one instruction.  This is what a program means.             *)
(***************************************************************************)
EXTENDS Instructions

VARIABLES
  program,    \* the instruction at each place
  gpr, fpr,   \* registers_
  mem,        \* memory, as memory_controller_ shows it
  pc          \* program_counter_

registers == <<gpr, fpr, mem>>
single    == <<program, registers, pc>>

Init ==
  /\ program \in Programs
  /\ \E s \in Starts : gpr = s.gpr /\ fpr = s.fpr /\ mem = s.mem
  /\ pc = 0

\* Execute, ExecuteFloat: the operands and the result of the ALU.
OperandA(i) == IF IsFloat(i) /\ ~GprBase(i) THEN fpr[i.rs1] ELSE gpr[i.rs1]
StoreData(i) == IF IsFloat(i) THEN fpr[i.rs2] ELSE gpr[i.rs2]
OperandB(i) == IF AluSrc(i) THEN Imm(i) ELSE StoreData(i)
Result(i) == Compute(i, AluOp(i), OperandA(i), OperandB(i))

\* WriteMemory and WriteBack, of the instruction at place.
Effect(i) ==
  LET value == Written(i, pc, Result(i), mem)
  IN /\ gpr' = IF WritesGpr(i) /\ i.rd # 0 THEN [gpr EXCEPT ![i.rd] = value] ELSE gpr
     /\ fpr' = IF WritesFpr(i) THEN [fpr EXCEPT ![i.rd] = value] ELSE fpr
     /\ mem' = IF MemWrite(i) THEN [mem EXCEPT ![Result(i)] = StoreData(i)] ELSE mem

Step ==
  /\ pc < Size
  /\ Effect(program[pc])
  /\ pc' = Successor(program[pc], pc, Result(program[pc]))
  /\ UNCHANGED program

Spec == Init /\ [][Step]_single
=============================================================================
