------------------------------ MODULE Pipeline ------------------------------
(***************************************************************************)
(* The five-stage processors: RV5StageVM_Base and its four variants, with  *)
(* and without hazard detection (h, nh) and forwarding (f, nf).            *)
(*                                                                         *)
(* A Step calls the stages from write-back to fetch, each on what the ones *)
(* before it left in the pipeline registers and in the program counter.    *)
(* Each stage is a few state functions here, named for what it leaves; the *)
(* control signals a pipeline register carries are those of its            *)
(* instruction, and are not stored again.  The prev_ fields hold what the  *)
(* register held when the Step began.                                      *)
(*                                                                         *)
(* Undo and redo, the counters and what is only shown are left out.        *)
(***************************************************************************)
EXTENDS Instructions

CONSTANT Vms   \* the variants to be considered

VARIABLES
  program,    \* the instruction at each place
  vm,         \* which of the four classes the processor is
  pc,         \* program_counter_, Size when beyond the program
  if_id, id_ex, ex_mem, mem_wb,   \* the pipeline registers
  gpr, fpr,   \* registers_
  mem,        \* memory, as memory_controller_ shows it
  aluOp,      \* alu_op_ of the control unit
  stall       \* stall_cycles_

registers == <<gpr, fpr, mem>>
latches   == <<if_id, id_ex, ex_mem, mem_wb>>
vars      == <<program, vm, pc, latches, registers, aluOp, stall>>

AllVms    == {"nh_nf", "nh_f", "h_nf", "h_f"}
Forwards  == vm \in {"nh_f", "h_f"}
Detects   == vm \in {"h_nf", "h_f"}

ASSUME VmsAssumption == Vms \subseteq AllVms

NoPc == -1

\* What reset puts into the pipeline registers.
EmptyIfId  == [pc |-> NoPc, instr |-> Nop]
EmptyIdEx  == [pc |-> NoPc, instr |-> Nop, a |-> 0, b |-> 0]
EmptyExMem == [pc |-> NoPc, instr |-> Nop, value |-> 0, store |-> 0, taken |-> FALSE]
EmptyMemWb == [pc |-> NoPc, instr |-> Nop, value |-> 0]

-----------------------------------------------------------------------------
(* Which programs a variant can be given. *)

\* Where a branch or a jump of the program may lead.
Targets(i) == CASE i.op \in BranchOps \cup {"jal"} -> {i.to}
                [] i.op = "jalr"                   -> Place
                [] OTHER                           -> {}

\* No instruction uses what an instruction of ops among the d before it
\* writes; the target of a jump uses neither what the jump writes nor, as it
\* may take effect twice, what it writes itself.
Spaced(d, ops) ==
  \A m, n \in DOMAIN program :
    /\ program[m].op \in ops /\ m < n /\ n <= m + d => ~Depends(program[n], program[m])
    /\ n \in Targets(program[m]) =>
         /\ program[m].op \in ops => ~Depends(program[n], program[m])
         /\ program[n].op \in ops => ~Depends(program[n], program[n])

\* Without hazard detection the program has to keep its distances.  What else
\* is excluded goes wrong in the code, see the README.
Handled ==
  /\ \A m \in DOMAIN program :
       LET i == program[m]
       IN /\ WritesFpr(i) => i.rd # 0
          /\ Forwards => ~IsFloat(i) /\ i.op # "addw" /\ (i.op = "jal" => i.rd = 0)
          /\ vm = "nh_f" /\ i.op = "jalr" => i.rs2 = 0
  /\ vm = "nh_f" => Spaced(1, LoadOps)
  /\ vm = "nh_nf" => Spaced(2, Ops)

InitAny ==
  /\ program \in Programs /\ vm \in Vms
  /\ \E s \in Starts : gpr = s.gpr /\ fpr = s.fpr /\ mem = s.mem
  /\ pc = 0 /\ aluOp = 0 /\ stall = 0
  /\ if_id = EmptyIfId /\ id_ex = EmptyIdEx /\ ex_mem = EmptyExMem /\ mem_wb = EmptyMemWb

Init == InitAny /\ Handled

-----------------------------------------------------------------------------
(* pipeline_writeback: the registers after it. *)

PutGpr(i, place, value) ==
  [gpr EXCEPT ![i.rd] = IF i.op \in JumpOps THEN Link[place] ELSE value]

\* mutant: x0 can be written.
GprWrittenAnyRd == IF WritesGpr(mem_wb.instr) THEN PutGpr(mem_wb.instr, mem_wb.pc, mem_wb.value)
                                              ELSE gpr

GprWritten == LET i == mem_wb.instr
              IN IF WritesGpr(i) /\ i.rd # 0 THEN PutGpr(i, mem_wb.pc, mem_wb.value) ELSE gpr

\* The guard on rd is for both register files.
FprWritten == LET i == mem_wb.instr
              IN IF WritesFpr(i) /\ i.rd # 0 THEN [fpr EXCEPT ![i.rd] = mem_wb.value] ELSE fpr

-----------------------------------------------------------------------------
(* pipeline_memory: a taken branch redirects and flushes, and memory is    *)
(* accessed.                                                               *)

BranchRedirects == ex_mem.taken /\ ex_mem.instr.op \in BranchOps

Executing == IF BranchRedirects THEN EmptyIdEx ELSE id_ex

MemWritten == IF MemWrite(ex_mem.instr) THEN [mem EXCEPT ![ex_mem.value] = ex_mem.store]
                                        ELSE mem

ToMemWb == [pc |-> ex_mem.pc, instr |-> ex_mem.instr,
            value |-> IF MemRead(ex_mem.instr) THEN mem[ex_mem.value] ELSE ex_mem.value]

-----------------------------------------------------------------------------
(* pipeline_execute: forwarding, the ALU, and the redirection of a jump.   *)

\* An instruction ahead holds what is to be written to register r.  A float
\* instruction counts as a writer of either file.
Holds(ahead, r, float) ==
  /\ ahead.rd = r /\ r # 0
  /\ IF float THEN IsFloat(ahead) ELSE RegWrite(ahead)

\* mutant: the older value has priority.
ForwardedOldestFirst(r, float, decoded) ==
  IF ~Forwards                           THEN decoded
  ELSE IF Holds(mem_wb.instr, r, float)  THEN mem_wb.value
  ELSE IF Holds(ex_mem.instr, r, float)  THEN ex_mem.value
  ELSE decoded

Forwarded(r, float, decoded) ==
  IF ~Forwards                           THEN decoded
  ELSE IF Holds(ex_mem.instr, r, float)  THEN ex_mem.value
  ELSE IF Holds(mem_wb.instr, r, float)  THEN mem_wb.value
  ELSE decoded

ForwardedA == Forwarded(Executing.instr.rs1, IsFloat(Executing.instr), Executing.a)
ForwardedB == Forwarded(Executing.instr.rs2, IsFloat(Executing.instr), Executing.b)

AluIn1 == IF GprBase(Executing.instr) THEN GprWritten[Executing.instr.rs1] ELSE ForwardedA

\* Variant nh_f loses the immediate of a jalr to a value forwarded for the
\* register that the bits of the immediate name.
ImmediateLost ==
  /\ vm = "nh_f" /\ Executing.instr.op = "jalr"
  /\ \E ahead \in {ex_mem.instr, mem_wb.instr} : Holds(ahead, Executing.instr.rs2, FALSE)

AluIn2 == IF AluSrc(Executing.instr) /\ ~ImmediateLost THEN Imm(Executing.instr) ELSE ForwardedB

AluResult == Compute(Executing.instr, aluOp, AluIn1, AluIn2)

Jumps == Executing.instr.op \in JumpOps

ToExMem ==
  LET i == Executing.instr
  IN [pc |-> Executing.pc, instr |-> i,
      value |-> IF i.op = "jalr" THEN Link[Executing.pc] ELSE AluResult,
      store |-> ForwardedB,
      taken |-> Redirects(i, AluResult)]

\* program_counter_ and IF/ID as the redirections leave them.
PcRedirected == CASE Jumps           -> Successor(Executing.instr, Executing.pc, AluResult)
                  [] BranchRedirects -> ex_mem.instr.to
                  [] OTHER           -> pc

Decoding == IF Jumps \/ BranchRedirects THEN EmptyIfId ELSE if_id

-----------------------------------------------------------------------------
(* check_data_hazard: how many cycles the instruction in IF/ID must wait.  *)

\* The fields of what is decoded name a register that i will write.
ClashesGpr(i) == RegWrite(i) /\ i.rd # 0 /\ i.rd \in {Decoding.instr.rs1, Decoding.instr.rs2}
ClashesFpr(i) ==
  IsFloat(i) /\ i.rd \in {Decoding.instr.rs1, Decoding.instr.rs2, Decoding.instr.rs3}
Clashes(i)    == ClashesGpr(i) \/ ClashesFpr(i)

StallsNeeded ==
  IF Forwards
  THEN IF MemRead(Executing.instr) /\ Clashes(Executing.instr) THEN 1 ELSE 0
  ELSE IF Clashes(ToExMem.instr) THEN 2 ELSE IF Clashes(ex_mem.instr) THEN 1 ELSE 0

Stalling == Detects /\ (stall > 0 \/ StallsNeeded > 0)

\* mutant: a stall does not count down.
StallLeftForever == IF Stalling /\ stall = 0 THEN StallsNeeded - 1 ELSE stall

StallLeft == IF stall > 0 THEN stall - 1 ELSE IF Stalling THEN StallsNeeded - 1 ELSE 0

-----------------------------------------------------------------------------
(* pipeline_decode, pipeline_fetch, and the next program counter.          *)

ToIdEx ==
  LET i == Decoding.instr
  IN IF Stalling THEN EmptyIdEx
     ELSE IF i = Nop THEN [EmptyIdEx EXCEPT !.pc = Decoding.pc]
     ELSE [pc |-> Decoding.pc, instr |-> i,
           a |-> IF IsFloat(i) THEN FprWritten[i.rs1] ELSE GprWritten[i.rs1],
           b |-> IF IsFloat(i) THEN FprWritten[i.rs2] ELSE GprWritten[i.rs2]]

\* A bubble leaves the control unit as it was.
AluOpDecoded == IF Stalling \/ Decoding.instr = Nop THEN aluOp ELSE AluOp(Decoding.instr)

ToIfId ==
  IF Stalling THEN Decoding
  ELSE IF PcRedirected < Size THEN [pc |-> PcRedirected, instr |-> program[PcRedirected]]
  ELSE EmptyIfId

\* The program counter moves on unless a redirection changed it in this Step.
NextPc == IF ~Stalling /\ PcRedirected = pc /\ pc < Size THEN pc + 1 ELSE PcRedirected

-----------------------------------------------------------------------------

\* mutant: what is to be written back is not looked at.
IsDrainedToMemory == \A latch \in {if_id, id_ex, ex_mem} : latch.instr = Nop

IsDrained == \A latch \in {if_id, id_ex, ex_mem, mem_wb} : latch.instr = Nop

\* The condition of the loop in Run.
Running == pc < Size \/ ~IsDrained

Step ==
  /\ Running
  /\ gpr' = GprWritten /\ fpr' = FprWritten /\ mem' = MemWritten
  /\ mem_wb' = ToMemWb /\ ex_mem' = ToExMem /\ id_ex' = ToIdEx /\ if_id' = ToIfId
  /\ aluOp' = AluOpDecoded /\ stall' = StallLeft /\ pc' = NextPc
  /\ UNCHANGED <<program, vm>>

\* Run calls Step again until the program has ended.
Spec    == Init /\ [][Step]_vars /\ WF_vars(Step)
=============================================================================
