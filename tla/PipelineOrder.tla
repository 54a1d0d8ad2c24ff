--------------------------- MODULE PipelineOrder ----------------------------
(***************************************************************************)
(* The pipeline shown to execute the program in order.  An instruction     *)
(* takes effect when it leaves EX: from then on nothing stops it.  The     *)
(* view is the state of the sequential machine at that point: registers    *)
(* and memory when what is in EX/MEM and MEM/WB has completed, and the     *)
(* place of the instruction that will leave EX next.                       *)
(***************************************************************************)
EXTENDS Pipeline

ViewGpr ==
  LET i == ex_mem.instr
  IN IF WritesGpr(i) /\ i.rd # 0
     THEN [GprWritten EXCEPT ![i.rd] = Written(i, ex_mem.pc, ex_mem.value, mem)]
     ELSE GprWritten

ViewFpr ==
  LET i == ex_mem.instr
  IN IF WritesFpr(i) /\ i.rd # 0
     THEN [FprWritten EXCEPT ![i.rd] = Written(i, ex_mem.pc, ex_mem.value, mem)]
     ELSE FprWritten

ViewMem == MemWritten

ViewPc == IF BranchRedirects        THEN ex_mem.instr.to
          ELSE IF id_ex.pc # NoPc  THEN id_ex.pc
          ELSE IF if_id.pc # NoPc  THEN if_id.pc
          ELSE pc

\* The next two instructions to leave EX are of the same place.
ViewFresh == IF BranchRedirects        THEN ex_mem.instr.to < Size /\ ex_mem.instr.to # pc
             ELSE IF id_ex.pc # NoPc  THEN id_ex.pc = if_id.pc
             ELSE if_id.pc # NoPc /\ if_id.pc = pc

Sequential == INSTANCE InOrder WITH
  gpr <- ViewGpr, fpr <- ViewFpr, mem <- ViewMem, pc <- ViewPc, fresh <- ViewFresh

Plain == INSTANCE SingleCycle WITH
  gpr <- ViewGpr, fpr <- ViewFpr, mem <- ViewMem, pc <- ViewPc

-----------------------------------------------------------------------------

\* Registers are words, and what is in the pipeline is of the program.
TypeOK ==
  /\ program \in Programs /\ vm \in Vms
  /\ pc \in Place /\ aluOp \in 0 .. 3 /\ stall \in 0 .. 1
  /\ if_id \in [pc : Place \cup {NoPc}, instr : Instruction]
  /\ id_ex \in [pc : Place \cup {NoPc}, instr : Instruction, a : Word, b : Word]
  /\ ex_mem \in [pc : Place \cup {NoPc}, instr : Instruction,
                 value : Word, store : Word, taken : BOOLEAN]
  /\ mem_wb \in [pc : Place \cup {NoPc}, instr : Instruction, value : Word]
  /\ gpr \in [Register -> Word] /\ fpr \in [Register -> Word] /\ mem \in [Word -> Word]
  /\ gpr[0] = 0

\* Whatever the pipeline overlaps, forwards, holds back and flushes, the
\* instructions take effect one at a time in the order of the program, the
\* target of a redirection once or twice: no instruction on the wrong path
\* takes effect, none is lost, and each has the operands that the ones before
\* it leave.
ExecutesInOrder == Sequential!SpecInOrder

\* The loop of Run ends only when everything the program did has arrived in
\* the registers and in memory: is_pipeline_drained looks at every stage.  It
\* may leave instructions in the pipeline that are no different from bubbles.
NothingLeftBehind ==
  ~Running => /\ gpr = ViewGpr /\ fpr = ViewFpr /\ mem = ViewMem
              /\ \A m \in DOMAIN program : m >= ViewPc => program[m] = Nop

\* A program that only goes forward comes to its end: stalls end, and the
\* pipeline drains.
GoesForward == \A m \in DOMAIN program : program[m].op # "jalr" /\
                                         \A n \in Targets(program[m]) : n > m
Finishes == GoesForward => <>~Running

\* "Control Hazards (JAL/JALR, B-Type) are AUTOMATICALLY handled by
\* flush/redirect" (rv5s_processor_h_f.cpp:8): the pipeline does what the
\* single-cycle processor does.
RunsAsSingleCycle == Plain!Spec

=============================================================================
