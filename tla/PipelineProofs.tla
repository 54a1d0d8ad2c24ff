--------------------------- MODULE PipelineProofs ---------------------------
(***************************************************************************)
(* What holds of the pipeline for every ALU, every number of registers and *)
(* programs of any size, in all four variants: registers keep their types, *)
(* nothing is left behind when Run ends, and the program is executed in    *)
(* order.  The inductive invariant has three parts: what the pipeline      *)
(* registers hold (TypeInv), which instructions follow each other in them  *)
(* (FlowInv), and what the operands are (DataInv).                         *)
(***************************************************************************)
EXTENDS PipelineOrder, TLAPS

\* What a pipeline register holds is the instruction of its place, or a bubble.
Known(latch) == IF latch.pc = NoPc THEN latch.instr = Nop
                ELSE latch.pc \in 0 .. Size - 1 /\ latch.instr = program[latch.pc]
OfProgram == \A latch \in {if_id, id_ex, ex_mem, mem_wb} : Known(latch)

\* Fetch goes on by one, except that the target of a redirection is fetched twice.
InSequence ==
  /\ id_ex.pc # NoPc =>
       IF if_id.pc = NoPc THEN pc = id_ex.pc + 1
       ELSE if_id.pc \in {id_ex.pc, id_ex.pc + 1} /\ pc = if_id.pc + 1
  /\ if_id.pc # NoPc => pc \in {if_id.pc, if_id.pc + 1}

\* A stall that goes on has a bubble in EX and no branch in MEM.
StallsBehind == stall > 0 => id_ex.pc = NoPc /\ ex_mem.instr.op \notin BranchOps

IsTarget(n) == \E m \in DOMAIN program : n \in Targets(program[m])
OnlyTargetsTwice ==
  /\ if_id.pc # NoPc /\ pc = if_id.pc => IsTarget(if_id.pc)
  /\ if_id.pc # NoPc /\ id_ex.pc = if_id.pc => IsTarget(if_id.pc)

\* Without stalls, an instruction follows those ahead of it closely in the
\* program, or is the target of one.
Close(m, n) == n \in {m + 1, m + 2} \/ n \in Targets(program[m])
Near ==
  ~Detects /\ ~BranchRedirects =>
    /\ id_ex.pc # NoPc /\ ex_mem.pc # NoPc =>
         id_ex.pc = ex_mem.pc + 1 \/ (id_ex.pc = ex_mem.pc /\ IsTarget(id_ex.pc))
    /\ id_ex.pc # NoPc /\ mem_wb.pc # NoPc => Close(mem_wb.pc, id_ex.pc)
    /\ if_id.pc # NoPc /\ ex_mem.pc # NoPc => Close(ex_mem.pc, if_id.pc)

FlowInv == InSequence /\ StallsBehind /\ OnlyTargetsTwice /\ Near

\* The operands in ID/EX were read from the registers as they are now.
Decoded ==
  id_ex.instr # Nop =>
    LET i == id_ex.instr
    IN /\ aluOp = AluOp(i)
       /\ id_ex.a = IF IsFloat(i) THEN fpr[i.rs1] ELSE gpr[i.rs1]
       /\ id_ex.b = IF IsFloat(i) THEN fpr[i.rs2] ELSE gpr[i.rs2]

LinkKept == \A latch \in {ex_mem, mem_wb} :
              latch.instr.op = "jalr" => latch.value = Link[latch.pc]

\* What is in EX uses nothing that is still on its way and cannot be forwarded.
Independent ==
  ~BranchRedirects =>
    IF Forwards THEN MemRead(ex_mem.instr) => ~Depends(id_ex.instr, ex_mem.instr)
    ELSE \A ahead \in {ex_mem.instr, mem_wb.instr} : ~Depends(id_ex.instr, ahead)

DataInv == Handled /\ Decoded /\ LinkKept /\ Independent

IfIdType  == [pc : Place \cup {NoPc}, instr : Instruction]
IdExType  == [pc : Place \cup {NoPc}, instr : Instruction, a : Word, b : Word]
ExMemType == [pc : Place \cup {NoPc}, instr : Instruction,
              value : Word, store : Word, taken : BOOLEAN]
MemWbType == [pc : Place \cup {NoPc}, instr : Instruction, value : Word]

TypeInv == TypeOK /\ OfProgram

-----------------------------------------------------------------------------
(* Instructions. *)

\* A bubble is an instruction that neither writes nor redirects.
LEMMA NopIsBubble ==
  /\ Nop \in Instruction
  /\ ~WritesGpr(Nop) /\ ~WritesFpr(Nop) /\ ~MemWrite(Nop) /\ ~MemRead(Nop)
  /\ Nop.op \notin JumpOps \cup BranchOps
<1>1. 0 \in Register /\ 0 \in Place
  BY RegisterAssumption, SizeAssumption DEF Place
<1>2. "nop" \in Ops
  BY DEF Ops
<1> QED BY <1>1, <1>2 DEF Nop, Instruction, WritesGpr, WritesFpr, MemWrite, MemRead, JumpOps,
                          BranchOps, StoreOps, LoadOps

\* An instruction that is no bubble has a place.
LEMMA KnownPlace ==
  ASSUME NEW latch, Known(latch), latch.instr # Nop
  PROVE  latch.pc \in Place
BY SizeAssumption DEF Known, Place

\* The ALU answers with a word, whatever signal it gets.
LEMMA ComputeType ==
  ASSUME NEW i \in Instruction, NEW op, NEW x \in Word, NEW y \in Word
  PROVE  Compute(i, op, x, y) \in Word
<1>1. GetAluSignal(op, i) \in AluSignals
  BY DEF GetAluSignal, AluSignals
<1>2. Alu[GetAluSignal(op, i), x, y] \in Word
  BY <1>1, AluAssumption
<1>3. i.rd \in Register /\ i.rs2 \in Register
  BY DEF Instruction
<1>4. Imm(i) \in Word
  BY <1>3, AddressAssumption DEF Imm
<1> QED BY <1>2, <1>4 DEF Compute

-----------------------------------------------------------------------------
(* The stages, from write-back to fetch. *)

\* Write-back leaves words in the registers, and zero in x0.
LEMMA WritebackType ==
  ASSUME TypeInv
  PROVE  /\ GprWritten \in [Register -> Word] /\ GprWritten[0] = 0
         /\ FprWritten \in [Register -> Word]
<1> DEFINE i == mem_wb.instr
<1>1. /\ i \in Instruction /\ i.rd \in Register /\ mem_wb.value \in Word
      /\ gpr \in [Register -> Word] /\ fpr \in [Register -> Word] /\ gpr[0] = 0
  BY DEF TypeInv, TypeOK, Instruction
<1>2. i.op \in JumpOps => mem_wb.pc \in Place
  BY NopIsBubble, KnownPlace DEF TypeInv, OfProgram
<1>3. i.op \in JumpOps => Link[mem_wb.pc] \in Word
  BY <1>2, AddressAssumption
<1>4. i.rd # 0 => /\ PutGpr(i, mem_wb.pc, mem_wb.value) \in [Register -> Word]
                  /\ PutGpr(i, mem_wb.pc, mem_wb.value)[0] = 0
  BY <1>1, <1>3, RegisterAssumption DEF PutGpr
<1>5. GprWritten \in [Register -> Word] /\ GprWritten[0] = 0
  BY <1>1, <1>4 DEF GprWritten
<1>6. FprWritten \in [Register -> Word]
  BY <1>1 DEF FprWritten
<1> QED BY <1>5, <1>6

\* The memory stage leaves words in memory and in MEM/WB.
LEMMA MemoryType ==
  ASSUME TypeInv
  PROVE  /\ MemWritten \in [Word -> Word]
         /\ ToMemWb \in MemWbType
         /\ Known(ToMemWb)
<1>1. /\ ex_mem \in ExMemType /\ mem \in [Word -> Word]
      /\ Known(ex_mem)
  BY DEF TypeInv, TypeOK, OfProgram, ExMemType
<1> QED BY <1>1 DEF MemWritten, ToMemWb, ExMemType, MemWbType, Known

\* What is in EX after a flush is an instruction or a bubble.
LEMMA ExecutingType ==
  ASSUME TypeInv
  PROVE  /\ Executing \in IdExType
         /\ Known(Executing)
<1>1. id_ex \in IdExType /\ Known(id_ex)
  BY DEF TypeInv, TypeOK, OfProgram, IdExType
<1>2. EmptyIdEx \in IdExType /\ Known(EmptyIdEx)
  BY NopIsBubble, WordAssumption DEF EmptyIdEx, IdExType, Known
<1> QED BY <1>1, <1>2 DEF Executing

\* Operands are words, forwarded or not.
LEMMA OperandType ==
  ASSUME TypeInv
  PROVE  AluIn1 \in Word /\ AluIn2 \in Word /\ ForwardedB \in Word /\ AluResult \in Word
<1>1. /\ Executing.a \in Word /\ Executing.b \in Word /\ Executing.instr \in Instruction
      /\ ex_mem.value \in Word /\ mem_wb.value \in Word
  BY ExecutingType DEF TypeInv, TypeOK, IdExType
<1>2. /\ Executing.instr.rs1 \in Register /\ Executing.instr.rs2 \in Register
      /\ Executing.instr.rd \in Register
  BY <1>1 DEF Instruction
<1>3. ForwardedA \in Word /\ ForwardedB \in Word
  BY <1>1 DEF ForwardedA, ForwardedB, Forwarded
<1>4. AluIn1 \in Word
  BY <1>2, <1>3, WritebackType DEF AluIn1
<1>5. AluIn2 \in Word
  BY <1>2, <1>3, AddressAssumption DEF AluIn2, Imm
<1>6. AluResult \in Word
  BY <1>1, <1>4, <1>5, ComputeType DEF AluResult
<1> QED BY <1>3, <1>4, <1>5, <1>6

\* The execute stage leaves words in EX/MEM.
LEMMA ExecuteType ==
  ASSUME TypeInv
  PROVE  /\ ToExMem \in ExMemType
         /\ Known(ToExMem)
<1>1. Executing.instr.op = "jalr" => Executing.pc \in Place
  BY ExecutingType, NopIsBubble, KnownPlace DEF JumpOps
<1>2. Executing.instr.op = "jalr" => Link[Executing.pc] \in Word
  BY <1>1, AddressAssumption
<1>3. Redirects(Executing.instr, AluResult) \in BOOLEAN
  BY DEF Redirects, BranchTaken
<1> QED BY <1>2, <1>3, ExecutingType, OperandType DEF ToExMem, ExMemType, IdExType, Known

\* Redirections lead to places, and the flush leaves a bubble in IF/ID.
LEMMA RedirectType ==
  ASSUME TypeInv
  PROVE  /\ PcRedirected \in Place
         /\ Decoding \in IfIdType
         /\ Known(Decoding)
<1>1. /\ Executing.instr \in Instruction /\ ex_mem.instr \in Instruction /\ pc \in Place
      /\ if_id \in IfIdType /\ Known(if_id)
  BY ExecutingType DEF TypeInv, TypeOK, OfProgram, IdExType, IfIdType
<1>2. Executing.instr.to \in Place /\ ex_mem.instr.to \in Place
  BY <1>1 DEF Instruction
<1>3. JumpTo[AluResult] \in Place
  BY OperandType, AddressAssumption
<1>4. Jumps => Successor(Executing.instr, Executing.pc, AluResult) \in Place
  BY <1>2, <1>3 DEF Jumps, JumpOps, Successor
<1>5. PcRedirected \in Place
  BY <1>1, <1>2, <1>4 DEF PcRedirected
<1>6. EmptyIfId \in IfIdType /\ Known(EmptyIfId)
  BY NopIsBubble DEF EmptyIfId, IfIdType, Known
<1> QED BY <1>1, <1>5, <1>6 DEF Decoding

\* Decode leaves words in ID/EX.
LEMMA DecodeType ==
  ASSUME TypeInv
  PROVE  /\ ToIdEx \in IdExType
         /\ Known(ToIdEx)
         /\ AluOpDecoded \in 0 .. 3
<1>1. /\ Decoding.pc \in Place \cup {NoPc} /\ Decoding.instr \in Instruction
      /\ Known(Decoding)
  BY RedirectType DEF IfIdType
<1>2. Decoding.instr.rs1 \in Register /\ Decoding.instr.rs2 \in Register
  BY <1>1 DEF Instruction
<1>3. /\ GprWritten \in [Register -> Word] /\ FprWritten \in [Register -> Word]
  BY WritebackType
<1>4. /\ EmptyIdEx \in IdExType /\ Known(EmptyIdEx)
      /\ [EmptyIdEx EXCEPT !.pc = Decoding.pc] \in IdExType
      /\ Decoding.instr = Nop => Known([EmptyIdEx EXCEPT !.pc = Decoding.pc])
  BY <1>1, NopIsBubble, WordAssumption DEF EmptyIdEx, IdExType, Known
<1>5. ToIdEx \in IdExType /\ Known(ToIdEx)
  BY <1>1, <1>2, <1>3, <1>4 DEF ToIdEx, IdExType, Known
<1>6. AluOp(Decoding.instr) \in 0 .. 3
  BY DEF AluOp
<1>7. AluOpDecoded \in 0 .. 3
  BY <1>6 DEF AluOpDecoded, TypeInv, TypeOK
<1> QED BY <1>5, <1>7

\* Fetch leaves an instruction of the program, or a bubble.
LEMMA FetchType ==
  ASSUME TypeInv
  PROVE  /\ ToIfId \in IfIdType
         /\ Known(ToIfId)
         /\ NextPc \in Place
<1>1. /\ PcRedirected \in Place /\ pc \in Place /\ Size \in Nat
      /\ program \in [0 .. Size - 1 -> Instruction]
  BY RedirectType, ProgramsAssumption, SizeAssumption DEF TypeInv, TypeOK
<1>2. PcRedirected < Size => program[PcRedirected] \in Instruction
  BY <1>1 DEF Place
<1>3. EmptyIfId \in IfIdType /\ Known(EmptyIfId)
  BY NopIsBubble DEF EmptyIfId, IfIdType, Known
<1>4. ToIfId \in IfIdType /\ Known(ToIfId)
  BY <1>1, <1>2, <1>3, RedirectType DEF ToIfId, IfIdType, Known, Place, NoPc
<1>5. pc < Size => pc + 1 \in Place
  BY <1>1 DEF Place
<1>6. NextPc \in Place
  BY <1>1, <1>5 DEF NextPc
<1> QED BY <1>4, <1>6

\* A stall lasts two cycles at most.
LEMMA StallType ==
  ASSUME TypeInv
  PROVE  StallLeft \in 0 .. 1
<1>1. stall \in 0 .. 1
  BY DEF TypeInv, TypeOK
<1>2. StallsNeeded \in 0 .. 2
  BY DEF StallsNeeded
<1> QED BY <1>1, <1>2 DEF StallLeft, Stalling

-----------------------------------------------------------------------------

\* Reset leaves bubbles in the pipeline.
LEMMA TypeInit == Init => TypeInv
<1> SUFFICES ASSUME Init PROVE TypeInv
  OBVIOUS
<1>1. /\ 0 \in Place /\ Nop \in Instruction /\ 0 \in Word
  BY NopIsBubble, WordAssumption, SizeAssumption DEF Place
<1>2. /\ gpr \in [Register -> Word] /\ fpr \in [Register -> Word]
      /\ mem \in [Word -> Word] /\ gpr[0] = 0
  BY StartsAssumption DEF Init, InitAny
<1>3. OfProgram
  BY DEF OfProgram, Known, Init, InitAny, EmptyIfId, EmptyIdEx, EmptyExMem, EmptyMemWb
<1>4. TypeOK
  BY <1>1, <1>2 DEF TypeOK, Init, InitAny, EmptyIfId, EmptyIdEx, EmptyExMem, EmptyMemWb
<1> QED BY <1>3, <1>4 DEF TypeInv

\* No Step breaks the types.
LEMMA TypeNext == TypeInv /\ [Step]_vars => TypeInv'
<1> SUFFICES ASSUME TypeInv, [Step]_vars PROVE TypeInv'
  OBVIOUS
<1>1. CASE Step
  <2>1. /\ gpr' = GprWritten /\ fpr' = FprWritten /\ mem' = MemWritten
        /\ mem_wb' = ToMemWb /\ ex_mem' = ToExMem /\ id_ex' = ToIdEx /\ if_id' = ToIfId
        /\ aluOp' = AluOpDecoded /\ stall' = StallLeft /\ pc' = NextPc
        /\ program' = program /\ vm' = vm
    BY <1>1 DEF Step
  <2>2. OfProgram'
    BY <2>1, MemoryType, ExecuteType, DecodeType, FetchType DEF OfProgram, Known
  <2>3. program \in Programs /\ vm \in Vms
    BY DEF TypeInv, TypeOK
  <2>4. TypeOK'
    BY <2>1, <2>3, WritebackType, MemoryType, ExecuteType, DecodeType, FetchType, StallType
    DEF TypeOK, IfIdType, IdExType, ExMemType, MemWbType
  <2> QED BY <2>2, <2>4 DEF TypeInv
<1>2. CASE UNCHANGED vars
  BY <1>2 DEF vars, latches, registers, TypeInv, TypeOK, OfProgram, Known
<1> QED BY <1>1, <1>2

\* The pipeline registers hold instructions and words, and x0 is zero: what
\* pipeline_writeback guards, forwarding and flushing keep.
THEOREM TypeCorrect == Spec => []TypeOK
<1>1. TypeInv => TypeOK
  BY DEF TypeInv
<1> QED BY TypeInit, TypeNext, <1>1, PTL DEF Spec

-----------------------------------------------------------------------------
(* The flow of instructions. *)

\* What a Step computes becomes the next state.
LEMMA StepState ==
  ASSUME TypeInv, Step
  PROVE  /\ gpr' = GprWritten /\ fpr' = FprWritten /\ mem' = MemWritten
         /\ mem_wb' = ToMemWb /\ ex_mem' = ToExMem /\ id_ex' = ToIdEx /\ if_id' = ToIfId
         /\ aluOp' = AluOpDecoded /\ stall' = StallLeft /\ pc' = NextPc
         /\ program' = program /\ vm' = vm
BY DEF Step

\* Where the instructions are after a Step.
LEMMA StepPlaces ==
  ASSUME TypeInv, Step
  PROVE  /\ ex_mem'.pc = Executing.pc /\ ex_mem'.instr = Executing.instr
         /\ mem_wb'.pc = ex_mem.pc /\ mem_wb'.instr = ex_mem.instr
         /\ Stalling => /\ id_ex' = EmptyIdEx /\ id_ex'.pc = NoPc
                        /\ if_id' = Decoding /\ pc' = PcRedirected
         /\ ~Stalling =>
              /\ id_ex'.pc = Decoding.pc /\ id_ex'.instr = Decoding.instr
              /\ if_id'.pc = IF PcRedirected < Size THEN PcRedirected ELSE NoPc
              /\ pc' = IF PcRedirected = pc /\ pc < Size THEN pc + 1 ELSE PcRedirected
<1>1. Step
  OBVIOUS
<1>2. /\ ex_mem'.pc = Executing.pc /\ ex_mem'.instr = Executing.instr
      /\ mem_wb'.pc = ex_mem.pc /\ mem_wb'.instr = ex_mem.instr
  BY StepState DEF ToExMem, ToMemWb
<1>3. CASE Stalling
  BY <1>2, <1>3, StepState DEF ToIdEx, ToIfId, NextPc, EmptyIdEx
<1>4. CASE ~Stalling
  <2>1. id_ex'.pc = Decoding.pc /\ id_ex'.instr = Decoding.instr
    BY <1>4, StepState DEF ToIdEx, EmptyIdEx
  <2>2. if_id'.pc = IF PcRedirected < Size THEN PcRedirected ELSE NoPc
    BY <1>4, StepState DEF ToIfId, EmptyIfId
  <2>3. pc' = IF PcRedirected = pc /\ pc < Size THEN pc + 1 ELSE PcRedirected
    BY <1>4, StepState DEF NextPc
  <2> QED BY <1>2, <1>4, <2>1, <2>2, <2>3
<1> QED BY <1>3, <1>4

\* Types of the places, for arithmetic.
LEMMA PlaceTypes ==
  ASSUME TypeInv
  PROVE  /\ Size \in Nat /\ pc \in 0 .. Size /\ NoPc = -1
         /\ \A latch \in {if_id, id_ex, ex_mem, mem_wb} :
              latch.pc # NoPc => latch.pc \in 0 .. Size - 1
BY SizeAssumption DEF TypeInv, TypeOK, OfProgram, Known, Place, NoPc

\* A taken branch flushes what is behind it, and does not meet a stall.
LEMMA BranchFlow ==
  ASSUME TypeInv, StallsBehind, BranchRedirects
  PROVE  /\ Executing = EmptyIdEx /\ Executing.pc = NoPc /\ Executing.instr = Nop
         /\ Decoding = EmptyIfId /\ Decoding.pc = NoPc
         /\ PcRedirected = ex_mem.instr.to /\ PcRedirected \in 0 .. Size
         /\ ~Stalling /\ ~Jumps
<1>1. /\ Executing = EmptyIdEx /\ Executing.pc = NoPc /\ Executing.instr = Nop
      /\ Decoding = EmptyIfId /\ Decoding.pc = NoPc /\ Decoding.instr = Nop
  BY DEF Executing, Decoding, EmptyIdEx, EmptyIfId
<1>2. ~Jumps
  BY <1>1, NopIsBubble DEF Jumps
<1>3. PcRedirected = ex_mem.instr.to
  BY <1>2 DEF PcRedirected
<1>4. PcRedirected \in 0 .. Size
  BY RedirectType DEF Place
<1>5. stall = 0
  BY DEF StallsBehind, BranchRedirects, TypeInv, TypeOK
<1>6. ~Clashes(Nop)
  BY DEF Clashes, ClashesGpr, ClashesFpr, Nop, RegWrite, IsFloat, FloatOps
<1>7. ~Clashes(ex_mem.instr)
  BY DEF Clashes, ClashesGpr, ClashesFpr, RegWrite, IsFloat, FloatOps, BranchRedirects, BranchOps
<1>8. StallsNeeded = 0
  BY <1>1, <1>6, <1>7 DEF StallsNeeded, ToExMem
<1>9. ~Stalling
  BY <1>5, <1>8 DEF Stalling
<1> QED BY <1>1, <1>2, <1>3, <1>4, <1>9

\* A jump flushes what is behind it, and goes to one of its targets.
LEMMA JumpFlow ==
  ASSUME TypeInv, Jumps
  PROVE  /\ ~BranchRedirects /\ Executing = id_ex /\ id_ex.pc # NoPc
         /\ Decoding = EmptyIfId /\ Decoding.pc = NoPc
         /\ PcRedirected = Successor(id_ex.instr, id_ex.pc, AluResult)
         /\ PcRedirected \in Targets(program[id_ex.pc]) /\ PcRedirected \in 0 .. Size
<1>1. ~BranchRedirects
  BY NopIsBubble DEF Jumps, Executing, EmptyIdEx
<1>2. Executing = id_ex
  BY <1>1 DEF Executing
<1>3. id_ex.instr.op \in JumpOps
  BY <1>2 DEF Jumps
<1>4. id_ex.pc # NoPc /\ id_ex.instr = program[id_ex.pc]
  BY <1>3, NopIsBubble DEF TypeInv, OfProgram, Known
<1>5. Decoding = EmptyIfId /\ Decoding.pc = NoPc
  BY DEF Decoding, EmptyIfId
<1>6. PcRedirected = Successor(id_ex.instr, id_ex.pc, AluResult)
  BY <1>1, <1>2 DEF PcRedirected
<1>7. PcRedirected \in Place
  BY RedirectType
<1>8. PcRedirected \in Targets(id_ex.instr)
  BY <1>3, <1>6, <1>7 DEF JumpOps, BranchOps, Successor, Targets
<1> QED BY <1>1, <1>2, <1>4, <1>5, <1>6, <1>7, <1>8 DEF Place

\* Otherwise nothing is flushed.
LEMMA StraightFlow ==
  ASSUME TypeInv, ~BranchRedirects, ~Jumps
  PROVE  Executing = id_ex /\ Decoding = if_id /\ PcRedirected = pc
BY DEF Executing, Decoding, PcRedirected

\* Reset leaves nothing in flight.
LEMMA FlowInit == Init => FlowInv
BY DEF Init, InitAny, FlowInv, InSequence, StallsBehind, OnlyTargetsTwice, Near,
       EmptyIfId, EmptyIdEx, EmptyExMem, EmptyMemWb

\* InSequence and OnlyTargetsTwice after a Step.
LEMMA SequenceStep ==
  ASSUME TypeInv, FlowInv, Step
  PROVE  InSequence' /\ OnlyTargetsTwice'
<1>1. Step
  OBVIOUS
<1>2. program' = program
  BY StepState
<1>3. CASE BranchRedirects
  <2>1. ex_mem.pc # NoPc /\ ex_mem.instr = program[ex_mem.pc] /\ ex_mem.pc \in DOMAIN program
    BY <1>3, NopIsBubble, ProgramsAssumption
    DEF BranchRedirects, TypeInv, TypeOK, OfProgram, Known
  <2>2. ex_mem.instr.to \in Targets(ex_mem.instr)
    BY <1>3 DEF BranchRedirects, BranchOps, Targets
  <2>3. IsTarget(PcRedirected)
    BY <1>3, <2>1, <2>2, BranchFlow DEF IsTarget, FlowInv
  <2> QED BY <1>3, <2>3, BranchFlow, StepPlaces, PlaceTypes, <1>2
          DEF InSequence, OnlyTargetsTwice, FlowInv, IsTarget
<1>4. CASE Jumps
  <2>1. id_ex.pc \in DOMAIN program
    BY <1>4, JumpFlow, ProgramsAssumption DEF TypeInv, TypeOK, OfProgram, Known
  <2>2. IsTarget(PcRedirected)
    BY <1>4, <2>1, JumpFlow DEF IsTarget
  <2> QED BY <1>4, <2>2, JumpFlow, StepPlaces, PlaceTypes, <1>2
          DEF InSequence, OnlyTargetsTwice, IsTarget
<1>5. CASE ~BranchRedirects /\ ~Jumps
  <2>1. CASE Stalling
    BY <1>5, <2>1, StraightFlow, StepPlaces, PlaceTypes, <1>2
    DEF InSequence, OnlyTargetsTwice, FlowInv, IsTarget
  <2>2. CASE ~Stalling
    BY <1>5, <2>2, StraightFlow, StepPlaces, PlaceTypes, <1>2
    DEF InSequence, OnlyTargetsTwice, FlowInv, IsTarget
  <2> QED BY <2>1, <2>2
<1> QED BY <1>3, <1>4, <1>5

\* A stall of more than a cycle is for an instruction in EX, which no branch is.
LEMMA StallStep ==
  ASSUME TypeInv, FlowInv, Step
  PROVE  StallsBehind'
<1> SUFFICES ASSUME stall' > 0
             PROVE  id_ex'.pc = NoPc /\ ex_mem'.instr.op \notin BranchOps
  BY DEF StallsBehind
<1>1. stall \in 0 .. 1 /\ StallLeft > 0
  BY StepState DEF TypeInv, TypeOK
<1>2. stall = 0 /\ Stalling /\ StallsNeeded = 2
  BY <1>1 DEF StallLeft, StallsNeeded
<1>3. Clashes(ToExMem.instr)
  BY <1>2 DEF StallsNeeded
<1>4. ToExMem.instr.op \notin BranchOps
  BY <1>3 DEF Clashes, ClashesGpr, ClashesFpr, RegWrite, IsFloat, FloatOps, BranchOps
<1> QED BY <1>2, <1>4, StepState, StepPlaces

\* What was close stays close as both move on, and a jump has its target behind it.
LEMMA NearStep ==
  ASSUME TypeInv, FlowInv, Step
  PROVE  Near'
<1> SUFFICES ASSUME (~Detects)', (~BranchRedirects)'
             PROVE /\ id_ex'.pc # NoPc /\ ex_mem'.pc # NoPc =>
                        \/ id_ex'.pc = ex_mem'.pc + 1
                        \/ id_ex'.pc = ex_mem'.pc /\ IsTarget(id_ex'.pc)
                   /\ id_ex'.pc # NoPc /\ mem_wb'.pc # NoPc => Close(mem_wb'.pc, id_ex'.pc)
                   /\ if_id'.pc # NoPc /\ ex_mem'.pc # NoPc => Close(ex_mem'.pc, if_id'.pc)
  BY StepState DEF Near, IsTarget, Close
<1>1. ~Detects /\ ~Stalling
  BY StepState DEF Detects, Stalling
<1>2. CASE BranchRedirects
  BY <1>1, <1>2, BranchFlow, StepPlaces DEF FlowInv
<1>3. CASE Jumps
  BY <1>1, <1>3, JumpFlow, StepPlaces DEF Close
<1>4. CASE ~BranchRedirects /\ ~Jumps
  <2>1. /\ id_ex'.pc = if_id.pc /\ ex_mem'.pc = id_ex.pc /\ mem_wb'.pc = ex_mem.pc
        /\ if_id'.pc = IF pc < Size THEN pc ELSE NoPc
    BY <1>1, <1>4, StraightFlow, StepPlaces
  <2>2. /\ id_ex.pc # NoPc /\ if_id.pc # NoPc => if_id.pc \in {id_ex.pc, id_ex.pc + 1}
        /\ if_id.pc # NoPc /\ id_ex.pc = if_id.pc => IsTarget(if_id.pc)
        /\ if_id.pc # NoPc /\ ex_mem.pc # NoPc => Close(ex_mem.pc, if_id.pc)
    BY <1>1, <1>4 DEF FlowInv, InSequence, OnlyTargetsTwice, Near
  <2>3. id_ex.pc # NoPc => pc \in {id_ex.pc + 1, id_ex.pc + 2}
    BY PlaceTypes DEF FlowInv, InSequence
  <2> QED BY <2>1, <2>2, <2>3 DEF Close
<1> QED BY <1>2, <1>3, <1>4

\* No Step breaks the flow.
LEMMA FlowNext == TypeInv /\ FlowInv /\ [Step]_vars => FlowInv'
<1>1. CASE Step
  BY <1>1, SequenceStep, StallStep, NearStep DEF FlowInv
<1>2. CASE UNCHANGED vars
  BY <1>2 DEF vars, latches, registers, FlowInv, InSequence, StallsBehind, OnlyTargetsTwice,
              Near, IsTarget, Close, BranchRedirects, Detects
<1> QED BY <1>1, <1>2

-----------------------------------------------------------------------------

\* When Run ends, all that the program did is in the registers and in memory,
\* and only bubbles of the program are left to execute: is_pipeline_drained
\* looks at every stage.
THEOREM DrainsCompletely == Spec => []NothingLeftBehind
<1>1. TypeInv /\ FlowInv => NothingLeftBehind
  <2> SUFFICES ASSUME TypeInv, FlowInv, ~Running
               PROVE  /\ gpr = ViewGpr /\ fpr = ViewFpr /\ mem = ViewMem
                      /\ \A m \in DOMAIN program : m >= ViewPc => program[m] = Nop
    BY DEF NothingLeftBehind
  <2>1. /\ if_id.instr = Nop /\ id_ex.instr = Nop /\ ex_mem.instr = Nop /\ mem_wb.instr = Nop
        /\ pc = Size
    BY PlaceTypes DEF Running, IsDrained
  <2>2. gpr = ViewGpr /\ fpr = ViewFpr /\ mem = ViewMem
    BY <2>1, NopIsBubble DEF ViewGpr, ViewFpr, ViewMem, GprWritten, FprWritten, MemWritten
  <2>3. ~BranchRedirects
    BY <2>1, NopIsBubble DEF BranchRedirects
  <2>4. ASSUME NEW m \in DOMAIN program, m >= ViewPc
        PROVE  program[m] = Nop
    <3>1. m \in 0 .. Size - 1
      BY ProgramsAssumption DEF TypeInv, TypeOK
    <3>2. CASE id_ex.pc # NoPc
      BY <2>1, <2>3, <2>4, <3>1, <3>2, PlaceTypes
      DEF ViewPc, FlowInv, InSequence, TypeInv, OfProgram, Known
    <3>3. CASE id_ex.pc = NoPc /\ if_id.pc # NoPc
      BY <2>1, <2>3, <2>4, <3>1, <3>3, PlaceTypes
      DEF ViewPc, FlowInv, InSequence, TypeInv, OfProgram, Known
    <3>4. CASE id_ex.pc = NoPc /\ if_id.pc = NoPc
      BY <2>1, <2>3, <2>4, <3>1, <3>4, PlaceTypes DEF ViewPc
    <3> QED BY <3>2, <3>3, <3>4
  <2> QED BY <2>2, <2>4
<1> QED BY TypeInit, TypeNext, FlowInit, FlowNext, <1>1, PTL DEF Spec

-----------------------------------------------------------------------------
(* Operands: stalls, distances and forwarding. *)

\* A bubble uses and provides nothing.
LEMMA NopDepends ==
  ASSUME NEW i
  PROVE  ~Depends(Nop, i) /\ ~Depends(i, Nop)
BY NopIsBubble DEF Depends, GprSources, FprSources, Nop, GprBase

\* Hazard detection looks at no fewer registers than an instruction uses.
LEMMA DependsClashes ==
  ASSUME NEW i \in Instruction, Depends(Decoding.instr, i)
  PROVE  Clashes(i)
<1>1. /\ GprSources(Decoding.instr) \subseteq {Decoding.instr.rs1, Decoding.instr.rs2}
      /\ FprSources(Decoding.instr) \subseteq {Decoding.instr.rs1, Decoding.instr.rs2}
  BY DEF GprSources, FprSources
<1>2. WritesGpr(i) => RegWrite(i)
  BY DEF WritesGpr, RegWrite, StoreOps, BranchOps, JumpOps
<1>3. WritesFpr(i) => IsFloat(i)
  BY DEF WritesFpr, IsFloat, FloatOps
<1> QED BY <1>1, <1>2, <1>3 DEF Depends, Clashes, ClashesGpr, ClashesFpr

\* A program that keeps its distances: neighbours.
LEMMA NeighboursSpaced ==
  ASSUME NEW d \in {1, 2}, NEW ops, Spaced(d, ops), program \in [0 .. Size - 1 -> Instruction],
         NEW m \in 0 .. Size - 1, NEW n \in 0 .. Size - 1, program[m].op \in ops,
         n = m + 1 \/ (n = m /\ IsTarget(n))
  PROVE  ~Depends(program[n], program[m])
<1>1. CASE n = m + 1
  BY <1>1, SizeAssumption DEF Spaced
<1>2. CASE n = m /\ IsTarget(n)
  BY <1>2 DEF Spaced, IsTarget
<1> QED BY <1>1, <1>2

\* The same, for an instruction and the next but one, or a target.
LEMMA CloseSpaced ==
  ASSUME NEW ops, Spaced(2, ops), program \in [0 .. Size - 1 -> Instruction],
         NEW m \in 0 .. Size - 1, NEW n \in 0 .. Size - 1, program[m].op \in ops, Close(m, n)
  PROVE  ~Depends(program[n], program[m])
<1>1. CASE n \in {m + 1, m + 2}
  BY <1>1, SizeAssumption DEF Spaced
<1>2. CASE n \in Targets(program[m])
  BY <1>2 DEF Spaced
<1> QED BY <1>1, <1>2 DEF Close

\* What Handled says of an instruction in the pipeline.
LEMMA HandledInstr ==
  ASSUME TypeInv, Handled, NEW latch \in {if_id, id_ex, ex_mem, mem_wb}
  PROVE  /\ latch.instr \in Instruction
         /\ WritesFpr(latch.instr) => latch.instr.rd # 0
         /\ Forwards => /\ ~IsFloat(latch.instr) /\ latch.instr.op # "addw"
                        /\ latch.instr.op = "jal" => latch.instr.rd = 0
         /\ vm = "nh_f" /\ latch.instr.op = "jalr" => latch.instr.rs2 = 0
<1>1. latch.instr \in Instruction /\ Known(latch)
  BY DEF TypeInv, TypeOK, OfProgram
<1>2. CASE latch.pc = NoPc
  BY <1>1, <1>2, NopIsBubble DEF Known, Nop, IsFloat, FloatOps
<1>3. CASE latch.pc # NoPc
  <2>1. latch.pc \in DOMAIN program /\ latch.instr = program[latch.pc]
    BY <1>1, <1>3, ProgramsAssumption DEF Known, TypeInv, TypeOK
  <2> QED BY <1>1, <2>1 DEF Handled
<1> QED BY <1>2, <1>3

\* Independent after a Step that decodes with hazard detection.
LEMMA IndependentDetected ==
  ASSUME TypeInv, Detects, ~Stalling, ~BranchRedirects, ~Jumps
  PROVE  IF Forwards THEN MemRead(id_ex.instr) => ~Depends(if_id.instr, id_ex.instr)
         ELSE \A ahead \in {id_ex.instr, ex_mem.instr} : ~Depends(if_id.instr, ahead)
<1>1. StallsNeeded = 0
  BY DEF Stalling, StallsNeeded
<1>2. id_ex.instr \in Instruction /\ ex_mem.instr \in Instruction
  BY DEF TypeInv, TypeOK
<1>3. Executing = id_ex /\ Decoding = if_id
  BY StraightFlow
<1>4. ToExMem.instr = id_ex.instr
  BY <1>3 DEF ToExMem
<1>5. IF Forwards THEN MemRead(id_ex.instr) => ~Clashes(id_ex.instr)
      ELSE ~Clashes(id_ex.instr) /\ ~Clashes(ex_mem.instr)
  BY <1>1, <1>3, <1>4 DEF StallsNeeded
<1> QED BY <1>2, <1>3, <1>5, DependsClashes

\* Independent after a Step that decodes what keeps its distance.
LEMMA IndependentSpaced ==
  ASSUME TypeInv, FlowInv, Handled, vm \in AllVms, ~Detects, ~BranchRedirects
  PROVE  IF Forwards THEN MemRead(id_ex.instr) => ~Depends(if_id.instr, id_ex.instr)
         ELSE \A ahead \in {id_ex.instr, ex_mem.instr} : ~Depends(if_id.instr, ahead)
<1>1. /\ program \in [0 .. Size - 1 -> Instruction]
      /\ Known(if_id) /\ Known(id_ex) /\ Known(ex_mem)
      /\ id_ex.instr \in Instruction /\ ex_mem.instr \in Instruction
  BY ProgramsAssumption DEF TypeInv, TypeOK, OfProgram
<1>2. id_ex.instr.op \in Ops /\ ex_mem.instr.op \in Ops
  BY <1>1 DEF Instruction
<1>3. if_id.pc # NoPc /\ id_ex.pc # NoPc =>
        if_id.pc = id_ex.pc + 1 \/ (if_id.pc = id_ex.pc /\ IsTarget(if_id.pc))
  BY DEF FlowInv, InSequence, OnlyTargetsTwice
<1>4. if_id.pc # NoPc /\ ex_mem.pc # NoPc => Close(ex_mem.pc, if_id.pc)
  BY DEF FlowInv, Near
<1>5. CASE vm = "nh_f"
  <2>1. Forwards /\ Spaced(1, LoadOps)
    BY <1>5 DEF Forwards, Handled
  <2>2. MemRead(id_ex.instr) => ~Depends(if_id.instr, id_ex.instr)
    BY <1>1, <1>3, <2>1, NeighboursSpaced, NopDepends DEF Known, MemRead
  <2> QED BY <2>1, <2>2
<1>6. CASE vm = "nh_nf"
  <2>1. ~Forwards /\ Spaced(2, Ops)
    BY <1>6 DEF Forwards, Handled
  <2>2. ~Depends(if_id.instr, id_ex.instr)
    BY <1>1, <1>2, <1>3, <2>1, NeighboursSpaced, NopDepends DEF Known
  <2>3. ~Depends(if_id.instr, ex_mem.instr)
    BY <1>1, <1>2, <1>4, <2>1, CloseSpaced, NopDepends DEF Known
  <2> QED BY <2>1, <2>2, <2>3
<1> QED BY <1>5, <1>6 DEF AllVms, Detects

\* What is decoded is independent of what is ahead: stalls or distances see to it.
LEMMA IndependentStep ==
  ASSUME TypeInv, FlowInv, DataInv, Step
  PROVE  Independent'
<1>1. /\ Forwards' = Forwards
      /\ ex_mem'.instr = Executing.instr /\ mem_wb'.instr = ex_mem.instr
  BY StepState, StepPlaces DEF Forwards
<1>2. CASE id_ex'.instr = Nop
  BY <1>2, NopDepends DEF Independent
<1>3. CASE id_ex'.instr # Nop
  <2>1. ~Stalling
    BY <1>3, StepPlaces DEF EmptyIdEx
  <2>2. id_ex'.instr = Decoding.instr
    BY <2>1, StepPlaces
  <2>3. ~BranchRedirects /\ ~Jumps
    BY <1>3, <2>2, BranchFlow, JumpFlow DEF EmptyIfId, FlowInv
  <2>4. Executing = id_ex /\ Decoding = if_id
    BY <2>3, StraightFlow
  <2>5. IF Forwards THEN MemRead(id_ex.instr) => ~Depends(if_id.instr, id_ex.instr)
        ELSE \A ahead \in {id_ex.instr, ex_mem.instr} : ~Depends(if_id.instr, ahead)
    BY <2>1, <2>3, IndependentDetected, IndependentSpaced, VmsAssumption
    DEF DataInv, TypeInv, TypeOK
  <2> QED BY <1>1, <2>2, <2>4, <2>5 DEF Independent
<1> QED BY <1>2, <1>3

\* At first nothing is ahead.
LEMMA DataInit == Init => DataInv
<1> SUFFICES ASSUME Init PROVE DataInv
  OBVIOUS
<1>1. /\ id_ex.instr = Nop /\ ex_mem.instr = Nop /\ mem_wb.instr = Nop
  BY DEF Init, InitAny, EmptyIdEx, EmptyExMem, EmptyMemWb
<1>2. Independent
  BY <1>1, NopDepends DEF Independent
<1>3. LinkKept
  BY <1>1 DEF LinkKept, Nop
<1> QED BY <1>1, <1>2, <1>3 DEF DataInv, Decoded, Init

\* No Step breaks what is known of the operands.
LEMMA DataNext == TypeInv /\ FlowInv /\ DataInv /\ [Step]_vars => DataInv'
<1> SUFFICES ASSUME TypeInv, FlowInv, DataInv, [Step]_vars PROVE DataInv'
  OBVIOUS
<1>1. CASE Step
  <2>1. Handled'
    BY <1>1, StepState DEF DataInv, Handled, Spaced, Forwards
  <2>2. Decoded'
    <3>1. CASE Stalling \/ Decoding.instr = Nop
      BY <1>1, <3>1, StepState DEF Decoded, ToIdEx, EmptyIdEx
    <3>2. CASE ~Stalling /\ Decoding.instr # Nop
      BY <1>1, <3>2, StepState DEF Decoded, ToIdEx, AluOpDecoded
    <3> QED BY <3>1, <3>2
  <2>3. LinkKept'
    BY <1>1, StepState DEF LinkKept, DataInv, ToExMem, ToMemWb, MemRead, LoadOps
  <2> QED BY <1>1, <2>1, <2>2, <2>3, IndependentStep DEF DataInv
<1>2. CASE UNCHANGED vars
  BY <1>2 DEF vars, latches, registers, DataInv, Handled, Spaced, Forwards, Decoded, LinkKept,
              Independent, BranchRedirects
<1> QED BY <1>1, <1>2

-----------------------------------------------------------------------------
(* The operators of Instructions are the same seen through Sequential. *)

\* Control signals, operands and successors do not depend on the machine.
LEMMA SameInstructions ==
  ASSUME NEW i
  PROVE  /\ Sequential!WritesGpr(i) = WritesGpr(i) /\ Sequential!WritesFpr(i) = WritesFpr(i)
         /\ Sequential!MemWrite(i) = MemWrite(i) /\ Sequential!IsFloat(i) = IsFloat(i)
         /\ Sequential!GprBase(i) = GprBase(i) /\ Sequential!AluSrc(i) = AluSrc(i)
         /\ Sequential!Imm(i) = Imm(i) /\ Sequential!AluOp(i) = AluOp(i)
         /\ \A op, x, y : Sequential!Compute(i, op, x, y) = Compute(i, op, x, y)
         /\ \A place, result, memory :
              Sequential!Written(i, place, result, memory) = Written(i, place, result, memory)
         /\ \A result : Sequential!Redirects(i, result) = Redirects(i, result)
         /\ \A place, result : Sequential!Successor(i, place, result) = Successor(i, place, result)
<1>1. /\ Sequential!WritesGpr(i) = WritesGpr(i) /\ Sequential!WritesFpr(i) = WritesFpr(i)
      /\ Sequential!MemWrite(i) = MemWrite(i) /\ Sequential!IsFloat(i) = IsFloat(i)
      /\ Sequential!GprBase(i) = GprBase(i) /\ Sequential!AluSrc(i) = AluSrc(i)
      /\ Sequential!AluOp(i) = AluOp(i)
  BY DEF Sequential!WritesGpr, WritesGpr, Sequential!WritesFpr, WritesFpr, Sequential!MemWrite,
         MemWrite, Sequential!IsFloat, IsFloat, Sequential!GprBase, GprBase, Sequential!AluSrc,
         AluSrc, Sequential!AluOp, AluOp, Sequential!JumpOps, JumpOps, Sequential!StoreOps,
         StoreOps, Sequential!LoadOps, LoadOps, Sequential!FloatOps, FloatOps,
         Sequential!BranchOps, BranchOps
<1>2. Sequential!Imm(i) = Imm(i)
  BY <1>1 DEF Sequential!Imm, Imm
<1>3. \A op : Sequential!GetAluSignal(op, i) = GetAluSignal(op, i)
  BY DEF Sequential!GetAluSignal, GetAluSignal, Sequential!BranchOps, BranchOps
<1>4. \A op, x, y : Sequential!Compute(i, op, x, y) = Compute(i, op, x, y)
  BY <1>2, <1>3 DEF Sequential!Compute, Compute
<1>5. \A place, result, memory :
        Sequential!Written(i, place, result, memory) = Written(i, place, result, memory)
  BY DEF Sequential!Written, Written, Sequential!JumpOps, JumpOps, Sequential!MemRead, MemRead,
         Sequential!LoadOps, LoadOps
<1>6. \A result : Sequential!Redirects(i, result) = Redirects(i, result)
  BY DEF Sequential!Redirects, Redirects, Sequential!BranchTaken, BranchTaken,
         Sequential!JumpOps, JumpOps
<1>7. \A place, result :
        Sequential!Successor(i, place, result) = Successor(i, place, result)
  BY DEF Sequential!Successor, Successor, Sequential!BranchTaken, BranchTaken
<1> QED BY <1>1, <1>2, <1>4, <1>5, <1>6, <1>7

-----------------------------------------------------------------------------
(* The operands in EX are those of the sequential machine. *)

\* What is to be written to a register that an instruction in EX reads can be
\* forwarded, or there is nothing to be written.
LEMMA GprSeen ==
  ASSUME TypeInv, DataInv, ~BranchRedirects, NEW r \in GprSources(id_ex.instr)
  PROVE  /\ Forwarded(r, FALSE, gpr[r]) = ViewGpr[r]
         /\ ~Forwards => GprWritten[r] = ViewGpr[r]
<1> DEFINE x == ex_mem.instr
           y == mem_wb.instr
<1>1. /\ x \in Instruction /\ y \in Instruction /\ gpr \in [Register -> Word] /\ gpr[0] = 0
      /\ GprWritten \in [Register -> Word] /\ x.rd \in Register /\ y.rd \in Register
  BY WritebackType DEF TypeInv, TypeOK, Instruction
<1>2. r \in Register
  BY DEF GprSources, TypeInv, TypeOK, Instruction
<1>3. GprWritten[r] = IF WritesGpr(y) /\ y.rd # 0 /\ y.rd = r
                      THEN IF y.op \in JumpOps THEN Link[mem_wb.pc] ELSE mem_wb.value
                      ELSE gpr[r]
  BY <1>1, <1>2 DEF GprWritten, PutGpr
<1>4. ViewGpr[r] = IF WritesGpr(x) /\ x.rd # 0 /\ x.rd = r
                   THEN Written(x, ex_mem.pc, ex_mem.value, mem)
                   ELSE GprWritten[r]
  BY <1>1, <1>2 DEF ViewGpr
<1>5. CASE ~Forwards
  <2>1. ~(WritesGpr(x) /\ x.rd # 0 /\ x.rd = r) /\ ~(WritesGpr(y) /\ y.rd # 0 /\ y.rd = r)
    BY <1>5 DEF DataInv, Independent, Depends
  <2> QED BY <1>3, <1>4, <1>5, <2>1 DEF Forwarded
<1>6. CASE Forwards
  <2>1. /\ ~IsFloat(x) /\ x.op # "addw" /\ (x.op = "jal" => x.rd = 0)
        /\ ~IsFloat(y) /\ y.op # "addw" /\ (y.op = "jal" => y.rd = 0)
    BY <1>6, HandledInstr DEF DataInv
  <2>2. /\ x.op \in Ops /\ y.op \in Ops
    BY <1>1 DEF Instruction
  <2>3. RegWrite(x) = WritesGpr(x) /\ RegWrite(y) = WritesGpr(y)
    BY <2>1, <2>2 DEF RegWrite, WritesGpr, IsFloat, Ops, FloatOps, StoreOps, BranchOps, JumpOps,
                      LoadOps
  <2>4. ~(MemRead(x) /\ WritesGpr(x) /\ x.rd # 0 /\ x.rd = r)
    BY <1>6 DEF DataInv, Independent, Depends
  <2>5. x.op = "jalr" => ex_mem.value = Link[ex_mem.pc]
    BY DEF DataInv, LinkKept
  <2>6. y.op = "jalr" => mem_wb.value = Link[mem_wb.pc]
    BY DEF DataInv, LinkKept
  <2>7. WritesGpr(x) /\ x.rd # 0 /\ x.rd = r =>
          Written(x, ex_mem.pc, ex_mem.value, mem) = ex_mem.value
    BY <2>1, <2>4, <2>5 DEF Written, JumpOps
  <2>8. GprWritten[r] = IF Holds(y, r, FALSE) THEN mem_wb.value ELSE gpr[r]
    BY <1>3, <2>1, <2>3, <2>6 DEF Holds, JumpOps
  <2>9. ViewGpr[r] = IF Holds(x, r, FALSE) THEN ex_mem.value ELSE GprWritten[r]
    BY <1>4, <2>3, <2>7 DEF Holds
  <2> QED BY <1>6, <2>8, <2>9 DEF Forwarded
<1> QED BY <1>5, <1>6

\* The same for floating-point registers, which are not forwarded.
LEMMA FprSeen ==
  ASSUME TypeInv, DataInv, ~BranchRedirects, ~Forwards, NEW r \in FprSources(id_ex.instr)
  PROVE  fpr[r] = ViewFpr[r]
<1>1. /\ fpr \in [Register -> Word] /\ FprWritten \in [Register -> Word]
      /\ ex_mem.instr.rd \in Register /\ mem_wb.instr.rd \in Register
  BY WritebackType DEF TypeInv, TypeOK, Instruction
<1>2. r \in Register
  BY DEF FprSources, TypeInv, TypeOK, Instruction
<1>3. /\ ~(WritesFpr(ex_mem.instr) /\ ex_mem.instr.rd = r)
      /\ ~(WritesFpr(mem_wb.instr) /\ mem_wb.instr.rd = r)
  BY DEF DataInv, Independent, Depends
<1>4. FprWritten[r] = fpr[r]
  BY <1>1, <1>2, <1>3 DEF FprWritten
<1>5. ViewFpr[r] = FprWritten[r]
  BY <1>1, <1>2, <1>3 DEF ViewFpr
<1> QED BY <1>4, <1>5

\* IsFloat is a Boolean, as an argument.
LEMMA FloatOrNot == ASSUME NEW i, ~IsFloat(i) PROVE IsFloat(i) = FALSE
BY DEF IsFloat

\* The first operand, where the ALU looks at it.
LEMMA FirstOperand ==
  ASSUME TypeInv, DataInv, ~BranchRedirects, id_ex.instr.op \notin {"nop", "lui", "jal"}
  PROVE  AluIn1 = Sequential!OperandA(id_ex.instr)
<1> DEFINE i == id_ex.instr
<1>1. Executing = id_ex /\ i \in Instruction /\ i.op \in Ops /\ i # Nop
  BY DEF Executing, TypeInv, TypeOK, Instruction, Nop
<1>2. id_ex.a = IF IsFloat(i) THEN fpr[i.rs1] ELSE gpr[i.rs1]
  BY <1>1 DEF DataInv, Decoded
<1>3. Sequential!OperandA(i) = IF IsFloat(i) /\ ~GprBase(i) THEN ViewFpr[i.rs1]
                                                          ELSE ViewGpr[i.rs1]
  BY SameInstructions DEF Sequential!OperandA
<1>4. IsFloat(i) => ~Forwards
  BY HandledInstr DEF DataInv
<1>5. CASE GprBase(i)
  <2>1. IsFloat(i) /\ i.rs1 \in GprSources(i)
    BY <1>5 DEF GprBase, IsFloat, FloatOps, GprSources
  <2> QED BY <1>1, <1>3, <1>4, <1>5, <2>1, GprSeen DEF AluIn1
<1>6. CASE IsFloat(i) /\ ~GprBase(i)
  <2>1. i.rs1 \in FprSources(i)
    BY <1>6 DEF GprBase, IsFloat, FloatOps, FprSources
  <2>2. AluIn1 = id_ex.a
    BY <1>1, <1>4, <1>6 DEF AluIn1, ForwardedA, Forwarded
  <2> QED BY <1>2, <1>3, <1>4, <1>6, <2>1, <2>2, FprSeen
<1>7. CASE ~IsFloat(i)
  <2>1. i.rs1 \in GprSources(i) /\ ~GprBase(i)
    BY <1>1, <1>7 DEF GprBase, IsFloat, FloatOps, GprSources, Ops, LoadOps, StoreOps, BranchOps,
                      JumpOps
  <2>2. AluIn1 = Forwarded(i.rs1, FALSE, gpr[i.rs1])
    BY <1>1, <1>2, <1>7, <2>1, FloatOrNot DEF AluIn1, ForwardedA
  <2> QED BY <1>3, <1>7, <2>1, <2>2, GprSeen
<1> QED BY <1>5, <1>6, <1>7

\* What comes from rs2, where it is an operand or is stored.
LEMMA SecondSource ==
  ASSUME TypeInv, DataInv, ~BranchRedirects,
         id_ex.instr.op \in {"add", "sub", "addw", "sw", "beq", "bne", "fadd", "fsw"}
  PROVE  ForwardedB = Sequential!StoreData(id_ex.instr)
<1> DEFINE i == id_ex.instr
<1>1. Executing = id_ex /\ i # Nop
  BY DEF Executing, Nop
<1>2. id_ex.b = IF IsFloat(i) THEN fpr[i.rs2] ELSE gpr[i.rs2]
  BY <1>1 DEF DataInv, Decoded
<1>3. Sequential!StoreData(i) = IF IsFloat(i) THEN ViewFpr[i.rs2] ELSE ViewGpr[i.rs2]
  BY SameInstructions DEF Sequential!StoreData
<1>4. CASE IsFloat(i)
  <2>1. i.rs2 \in FprSources(i)
    BY <1>4 DEF IsFloat, FloatOps, FprSources
  <2>2. ~Forwards
    BY <1>4, HandledInstr DEF DataInv
  <2>3. ForwardedB = id_ex.b
    BY <1>1, <2>2 DEF ForwardedB, Forwarded
  <2> QED BY <1>2, <1>3, <1>4, <2>1, <2>2, <2>3, FprSeen
<1>5. CASE ~IsFloat(i)
  <2>1. i.rs2 \in GprSources(i)
    BY <1>5 DEF IsFloat, FloatOps, GprSources, BranchOps
  <2>2. ForwardedB = Forwarded(i.rs2, FALSE, gpr[i.rs2])
    BY <1>1, <1>2, <1>5, FloatOrNot DEF ForwardedB
  <2> QED BY <1>3, <1>5, <2>1, <2>2, GprSeen
<1> QED BY <1>4, <1>5

\* The ALU computes what it computes on the sequential machine.
LEMMA ResultSeen ==
  ASSUME TypeInv, DataInv, ~BranchRedirects, id_ex.instr.op \notin {"nop", "jal"}
  PROVE  AluResult = Sequential!Result(id_ex.instr)
<1> DEFINE i == id_ex.instr
           a == Sequential!OperandA(i)
           b == Sequential!OperandB(i)
<1>1. Executing = id_ex /\ i \in Instruction /\ i.op \in Ops /\ i # Nop
  BY DEF Executing, TypeInv, TypeOK, Instruction, Nop
<1>2. aluOp = AluOp(i)
  BY <1>1 DEF DataInv, Decoded
<1>3. Sequential!Result(i) = Compute(i, aluOp, a, b)
  BY <1>2, SameInstructions DEF Sequential!Result
<1>4. AluResult = Compute(i, aluOp, AluIn1, AluIn2)
  BY <1>1 DEF AluResult
<1>5. b = IF AluSrc(i) THEN Imm(i) ELSE Sequential!StoreData(i)
  BY SameInstructions DEF Sequential!OperandB
<1>6. CASE i.op = "lui"
  BY <1>3, <1>4, <1>6 DEF Compute
<1>7. CASE AluSrc(i) /\ i.op # "lui"
  <2>1. ~ImmediateLost
    BY <1>1, HandledInstr DEF DataInv, ImmediateLost, Holds
  <2>2. AluIn2 = b
    BY <1>1, <1>5, <1>7, <2>1 DEF AluIn2
  <2>3. AluIn1 = a
    BY <1>7, FirstOperand
  <2> QED BY <1>3, <1>4, <2>2, <2>3
<1>8. CASE i.op \in {"fmv_x_w", "fmv_w_x"}
  <2>1. GetAluSignal(aluOp, i) \in {"FMV_X_W", "FMV_W_X"}
    BY <1>2, <1>8 DEF GetAluSignal, AluOp, BranchOps
  <2>2. AluIn1 = a /\ AluIn1 \in Word /\ AluIn2 \in Word
    BY <1>8, FirstOperand, OperandType
  <2>3. ~AluSrc(i) /\ IsFloat(i)
    BY <1>8 DEF AluSrc, LoadOps, StoreOps, IsFloat, FloatOps
  <2>4. b = ViewFpr[i.rs2]
    BY <1>5, <2>3, SameInstructions DEF Sequential!StoreData
  <2>5. ViewFpr[i.rs2] \in Word
    <3>1. /\ FprWritten \in [Register -> Word] /\ mem \in [Word -> Word]
          /\ ex_mem.value \in Word /\ i.rs2 \in Register
      BY <1>1, WritebackType DEF TypeInv, TypeOK, Instruction
    <3>2. WritesFpr(ex_mem.instr) => Written(ex_mem.instr, ex_mem.pc, ex_mem.value, mem) \in Word
      BY <3>1 DEF WritesFpr, Written, JumpOps
    <3> QED BY <3>1, <3>2 DEF ViewFpr
  <2>6. \A signal \in {"FMV_X_W", "FMV_W_X"} : \A x, y, z \in Word :
          Alu[signal, x, y] = Alu[signal, x, z]
    BY MoveAssumption
  <2>7. b \in Word
    BY <2>4, <2>5
  <2>8. Alu[GetAluSignal(aluOp, i), AluIn1, AluIn2] = Alu[GetAluSignal(aluOp, i), AluIn1, b]
    <3> HIDE DEF b
    <3> QED BY <2>1, <2>2, <2>6, <2>7
  <2> QED BY <1>3, <1>4, <1>8, <2>2, <2>8 DEF Compute
<1>9. CASE ~AluSrc(i) /\ i.op \notin {"fmv_x_w", "fmv_w_x"}
  <2>1. i.op \in {"add", "sub", "addw", "beq", "bne", "fadd"}
    BY <1>1, <1>9 DEF AluSrc, Ops, LoadOps, StoreOps, BranchOps, JumpOps, FloatOps
  <2>2. AluIn2 = b
    BY <1>1, <1>5, <1>9, <2>1, SecondSource DEF AluIn2
  <2>3. AluIn1 = a
    BY <2>1, FirstOperand
  <2> QED BY <1>3, <1>4, <2>2, <2>3
<1> QED BY <1>6, <1>7, <1>8, <1>9

-----------------------------------------------------------------------------
(* The refinement. *)

\* What was in EX/MEM is in MEM/WB, with the same effect to come.
LEMMA ViewMoves ==
  ASSUME TypeInv, Step
  PROVE  GprWritten' = ViewGpr /\ FprWritten' = ViewFpr /\ mem' = ViewMem
<1> DEFINE x == ex_mem.instr
<1>1. /\ mem_wb'.instr = x /\ mem_wb'.pc = ex_mem.pc
      /\ mem_wb'.value = IF MemRead(x) THEN mem[ex_mem.value] ELSE ex_mem.value
      /\ gpr' = GprWritten /\ fpr' = FprWritten /\ mem' = MemWritten
  BY StepState DEF ToMemWb
<1>2. x.op \in JumpOps => ~MemRead(x)
  BY DEF JumpOps, MemRead, LoadOps
<1>3. WritesFpr(x) => x.op \notin JumpOps
  BY DEF WritesFpr, JumpOps
<1>4. GprWritten' = ViewGpr
  BY <1>1, <1>2 DEF GprWritten, ViewGpr, PutGpr, Written
<1>5. FprWritten' = ViewFpr
  BY <1>1, <1>3 DEF FprWritten, ViewFpr, Written
<1> QED BY <1>1, <1>4, <1>5 DEF ViewMem

\* A bubble that leaves EX changes nothing.
LEMMA BubbleEffect ==
  ASSUME TypeInv, Step, Executing.instr = Nop
  PROVE  ViewGpr' = ViewGpr /\ ViewFpr' = ViewFpr /\ ViewMem' = ViewMem
<1>1. ex_mem'.instr = Nop
  BY StepPlaces
<1> QED BY <1>1, ViewMoves, NopIsBubble DEF ViewGpr, ViewFpr, ViewMem, MemWritten

\* An instruction that leaves EX has the effect it has on the sequential machine.
LEMMA InstructionEffect ==
  ASSUME TypeInv, DataInv, Step, ~BranchRedirects, id_ex.pc # NoPc
  PROVE  Sequential!Effect(id_ex.instr)
<1> DEFINE i == id_ex.instr
           result == Sequential!Result(i)
<1>1. Executing = id_ex
  BY DEF Executing
<1>2. /\ ex_mem'.instr = i /\ ex_mem'.pc = id_ex.pc /\ ex_mem'.store = ForwardedB
      /\ i.op # "jalr" => ex_mem'.value = AluResult
  BY <1>1, StepState DEF ToExMem
<1>3. ViewPc = id_ex.pc
  BY DEF ViewPc
<1>4. WritesGpr(i) \/ WritesFpr(i) =>
        Written(i, id_ex.pc, ex_mem'.value, ViewMem) = Written(i, ViewPc, result, ViewMem)
  <2>1. CASE i.op \in JumpOps
    BY <1>3, <2>1 DEF Written, MemRead, LoadOps, JumpOps
  <2>2. CASE i.op \notin JumpOps
    <3>1. WritesGpr(i) \/ WritesFpr(i) => ex_mem'.value = result
      BY <1>2, <2>2, ResultSeen DEF WritesGpr, WritesFpr, JumpOps
    <3> QED BY <1>3, <3>1
  <2> QED BY <2>1, <2>2
<1>5. ViewGpr' = IF WritesGpr(i) /\ i.rd # 0
                 THEN [ViewGpr EXCEPT ![i.rd] = Written(i, ViewPc, result, ViewMem)]
                 ELSE ViewGpr
  BY <1>2, <1>4, ViewMoves DEF ViewGpr
<1>6. ViewFpr' = IF WritesFpr(i)
                 THEN [ViewFpr EXCEPT ![i.rd] = Written(i, ViewPc, result, ViewMem)]
                 ELSE ViewFpr
  <2>1. WritesFpr(i) => i.rd # 0
    BY HandledInstr DEF DataInv
  <2> QED BY <1>2, <1>4, <2>1, ViewMoves DEF ViewFpr
<1>7. ViewMem' = IF MemWrite(i) THEN [ViewMem EXCEPT ![result] = Sequential!StoreData(i)]
                 ELSE ViewMem
  <2>1. MemWrite(i) => i.op \in {"sw", "fsw"}
    BY DEF MemWrite, StoreOps
  <2>2. MemWrite(i) => ex_mem'.value = result /\ ex_mem'.store = Sequential!StoreData(i)
    BY <1>2, <2>1, ResultSeen, SecondSource
  <2> QED BY <1>2, <2>2, ViewMoves DEF ViewMem, MemWritten
<1> QED BY <1>5, <1>6, <1>7, SameInstructions DEF Sequential!Effect

\* As long as a bubble is in EX the program does not move.
LEMMA BubblePlace ==
  ASSUME TypeInv, FlowInv, Step, BranchRedirects \/ id_ex.pc = NoPc
  PROVE  ViewPc' = ViewPc /\ ViewFresh' = ViewFresh /\ Executing.instr = Nop
<1>1. /\ Executing.instr = Nop /\ Executing.pc = NoPc /\ ~Jumps
  BY BranchFlow, NopIsBubble DEF Executing, Jumps, TypeInv, OfProgram, Known, FlowInv, EmptyIdEx
<1>2. ~BranchRedirects'
  BY <1>1, StepPlaces, NopIsBubble DEF BranchRedirects
<1>3. CASE BranchRedirects
  <2>1. id_ex'.pc = NoPc /\ PcRedirected = ex_mem.instr.to /\ PcRedirected \in 0 .. Size
    BY <1>3, BranchFlow, StepPlaces DEF FlowInv
  <2>2. /\ if_id'.pc = IF PcRedirected < Size THEN PcRedirected ELSE NoPc
        /\ pc' = IF PcRedirected = pc /\ pc < Size THEN pc + 1 ELSE PcRedirected
    BY <1>3, BranchFlow, StepPlaces DEF FlowInv
  <2> QED BY <1>1, <1>2, <1>3, <2>1, <2>2, PlaceTypes DEF ViewPc, ViewFresh
<1>4. CASE ~BranchRedirects
  <2>1. id_ex.pc = NoPc /\ Decoding = if_id /\ PcRedirected = pc
    BY <1>1, <1>4, StraightFlow
  <2>2. CASE Stalling
    BY <1>1, <1>2, <1>4, <2>1, <2>2, StepPlaces, PlaceTypes DEF ViewPc, ViewFresh
  <2>3. CASE ~Stalling
    BY <1>1, <1>2, <1>4, <2>1, <2>3, StepPlaces, PlaceTypes DEF ViewPc, ViewFresh
  <2> QED BY <2>2, <2>3
<1> QED BY <1>1, <1>3, <1>4

\* When an instruction leaves EX the program moves to its successor, or to its
\* own second copy.
LEMMA InstructionPlace ==
  ASSUME TypeInv, FlowInv, Step, ~BranchRedirects, id_ex.pc # NoPc
  PROVE  /\ Redirects(id_ex.instr, AluResult) =>
              ViewPc' = Successor(id_ex.instr, id_ex.pc, AluResult)
         /\ ~Redirects(id_ex.instr, AluResult) =>
              /\ ViewFresh' = FALSE
              /\ ViewPc' = IF ViewFresh THEN id_ex.pc
                           ELSE Successor(id_ex.instr, id_ex.pc, AluResult)
<1> DEFINE i == id_ex.instr
<1>1. Executing = id_ex
  BY DEF Executing
<1>2. ex_mem'.instr = i /\ ex_mem'.taken = Redirects(i, AluResult)
  BY <1>1, StepState DEF ToExMem
<1>3. BranchRedirects' = BranchTaken(i, AluResult)
  BY <1>2 DEF BranchRedirects, Redirects, BranchTaken, BranchOps, JumpOps
<1>4. CASE BranchTaken(i, AluResult)
  BY <1>2, <1>3, <1>4 DEF ViewPc, Successor, Redirects, BranchTaken
<1>5. CASE i.op \in JumpOps
  <2>1. Jumps /\ ~BranchTaken(i, AluResult) /\ Redirects(i, AluResult)
    BY <1>1, <1>5 DEF Jumps, JumpOps, BranchTaken, Redirects
  <2>2. id_ex'.pc = NoPc
    BY <2>1, JumpFlow, StepPlaces
  <2>3. ViewPc' = PcRedirected
    <3>1. CASE Stalling
      BY <1>3, <2>1, <2>2, <3>1, JumpFlow, StepPlaces DEF ViewPc
    <3>2. CASE ~Stalling
      BY <1>3, <2>1, <2>2, <3>2, JumpFlow, StepPlaces, PlaceTypes DEF ViewPc
    <3> QED BY <3>1, <3>2
  <2> QED BY <2>1, <2>3, JumpFlow
<1>6. CASE ~BranchTaken(i, AluResult) /\ i.op \notin JumpOps
  <2>1. ~Redirects(i, AluResult) /\ Successor(i, id_ex.pc, AluResult) = id_ex.pc + 1
    BY <1>6 DEF Redirects, Successor, JumpOps
  <2>2. ~BranchRedirects' /\ ~Jumps
    BY <1>1, <1>3, <1>6 DEF Jumps
  <2>3. Decoding = if_id /\ PcRedirected = pc
    BY <2>2, StraightFlow
  <2>4. ViewFresh = (id_ex.pc = if_id.pc)
    BY DEF ViewFresh
  <2>5. CASE Stalling
    BY <2>1, <2>2, <2>3, <2>4, <2>5, StepPlaces, PlaceTypes
    DEF ViewPc, ViewFresh, FlowInv, InSequence
  <2>6. CASE ~Stalling
    BY <2>1, <2>2, <2>3, <2>4, <2>6, StepPlaces, PlaceTypes
    DEF ViewPc, ViewFresh, FlowInv, InSequence
  <2> QED BY <2>1, <2>5, <2>6
<1> QED BY <1>4, <1>5, <1>6

\* After a reset the view is the start of the sequential machine.
LEMMA MapsInit == Init => Sequential!InitInOrder
<1> SUFFICES ASSUME Init PROVE Sequential!InitInOrder
  OBVIOUS
<1>1. /\ if_id.pc = NoPc /\ id_ex.pc = NoPc /\ ex_mem.instr = Nop /\ mem_wb.instr = Nop
      /\ pc = 0
  BY DEF Init, InitAny, EmptyIfId, EmptyIdEx, EmptyExMem, EmptyMemWb
<1>2. ViewGpr = gpr /\ ViewFpr = fpr /\ ViewMem = mem
  BY <1>1, NopIsBubble DEF ViewGpr, ViewFpr, ViewMem, GprWritten, FprWritten, MemWritten
<1>3. ViewPc = 0 /\ ViewFresh = FALSE
  BY <1>1, NopIsBubble DEF ViewPc, ViewFresh, BranchRedirects
<1>4. program \in Programs /\ \E st \in Starts : gpr = st.gpr /\ fpr = st.fpr /\ mem = st.mem
  BY DEF Init, InitAny
<1> QED BY <1>2, <1>3, <1>4 DEF Sequential!InitInOrder, Sequential!Init

\* A Step is a step of the sequential machine, or changes nothing it sees.
LEMMA MapsStep ==
  ASSUME TypeInv, FlowInv, DataInv, Step
  PROVE  [Sequential!NextInOrder]_(Sequential!inOrder)
<1>1. program' = program
  BY StepState
<1>2. CASE BranchRedirects \/ id_ex.pc = NoPc
  BY <1>1, <1>2, BubblePlace, BubbleEffect
  DEF Sequential!inOrder, Sequential!single, Sequential!registers
<1>3. CASE ~BranchRedirects /\ id_ex.pc # NoPc
  <2> DEFINE i == id_ex.instr
             result == Sequential!Result(i)
  <2>1. ViewPc = id_ex.pc /\ id_ex.pc < Size /\ i = program[id_ex.pc]
    BY <1>3, PlaceTypes DEF ViewPc, TypeInv, OfProgram, Known
  <2>2. Sequential!Effect(i)
    BY <1>3, InstructionEffect
  <2>3. /\ Redirects(i, AluResult) = Redirects(i, result)
        /\ Successor(i, id_ex.pc, AluResult) = Successor(i, id_ex.pc, result)
    <3>1. CASE i.op \in {"nop", "jal"}
      BY <3>1 DEF Redirects, Successor, BranchTaken, JumpOps
    <3>2. CASE i.op \notin {"nop", "jal"}
      BY <1>3, <3>2, ResultSeen
    <3> QED BY <3>1, <3>2
  <2>4. CASE Redirects(i, result)
    <3>1. ViewPc' = Successor(i, id_ex.pc, result)
      BY <1>3, <2>3, <2>4, InstructionPlace
    <3>2. ViewFresh' \in BOOLEAN
      BY DEF ViewFresh
    <3>3. Sequential!Execute
      BY <1>1, <2>1, <2>2, <2>4, <3>1, <3>2, SameInstructions
      DEF Sequential!Execute, Sequential!Step
    <3> QED BY <3>3 DEF Sequential!NextInOrder
  <2>5. CASE ~Redirects(i, result) /\ ~ViewFresh
    <3>1. ViewPc' = Successor(i, id_ex.pc, result) /\ ViewFresh' = FALSE
      BY <1>3, <2>3, <2>5, InstructionPlace
    <3>2. Sequential!Execute
      BY <1>1, <2>1, <2>2, <2>5, <3>1, SameInstructions
      DEF Sequential!Execute, Sequential!Step
    <3> QED BY <3>2 DEF Sequential!NextInOrder
  <2>6. CASE ~Redirects(i, result) /\ ViewFresh
    <3>1. ViewPc' = ViewPc /\ ViewFresh' = FALSE
      BY <1>3, <2>1, <2>3, <2>6, InstructionPlace
    <3>2. Sequential!Repeat
      BY <1>1, <2>1, <2>2, <2>6, <3>1, SameInstructions DEF Sequential!Repeat
    <3> QED BY <3>2 DEF Sequential!NextInOrder
  <2> QED BY <2>4, <2>5, <2>6
<1> QED BY <1>2, <1>3

\* The view is a function of the state.
LEMMA MapsStutter == UNCHANGED vars => UNCHANGED Sequential!inOrder
<1> SUFFICES ASSUME UNCHANGED vars PROVE UNCHANGED Sequential!inOrder
  OBVIOUS
<1>1. /\ program' = program /\ pc' = pc /\ gpr' = gpr /\ fpr' = fpr /\ mem' = mem
      /\ if_id' = if_id /\ id_ex' = id_ex /\ ex_mem' = ex_mem /\ mem_wb' = mem_wb
  BY DEF vars, latches, registers
<1>2. /\ GprWritten' = GprWritten /\ FprWritten' = FprWritten /\ MemWritten' = MemWritten
      /\ BranchRedirects' = BranchRedirects
  BY <1>1 DEF GprWritten, FprWritten, MemWritten, BranchRedirects, PutGpr
<1>3. ViewGpr' = ViewGpr /\ ViewFpr' = ViewFpr /\ ViewMem' = ViewMem
  BY <1>1, <1>2 DEF ViewGpr, ViewFpr, ViewMem
<1>4. ViewPc' = ViewPc /\ ViewFresh' = ViewFresh
  BY <1>1, <1>2 DEF ViewPc, ViewFresh
<1> QED BY <1>1, <1>3, <1>4 DEF Sequential!inOrder, Sequential!single, Sequential!registers

\* The pipeline, in all four variants and for every program it can be given,
\* makes the instructions take effect one at a time in the order of the
\* program, but for the second copy of the target of a redirection.
THEOREM PipelineExecutesInOrder == Spec => ExecutesInOrder
<1>1. TypeInv /\ FlowInv /\ DataInv /\ [Step]_vars
        => [Sequential!NextInOrder]_(Sequential!inOrder)
  BY MapsStep, MapsStutter
<1> QED BY TypeInit, TypeNext, FlowInit, FlowNext, DataInit, DataNext, MapsInit, <1>1, PTL
        DEF Spec, ExecutesInOrder, Sequential!SpecInOrder
=============================================================================
