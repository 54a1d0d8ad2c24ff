---------------------------- MODULE StepHistory -----------------------------
(***************************************************************************)
(* Undo and redo of the single-cycle processor ("rvss") and of the four    *)
(* pipelined ones: two stacks of step deltas, each of which lists what one *)
(* Step changed.  A delta is put together in many places of a Step, beside *)
(* the writes themselves, and the two can disagree.                        *)
(*                                                                         *)
(* Memory is what the processors read; that the undo of the pipelined ones *)
(* bypasses the caches is in MemoryHierarchy.  Control and status          *)
(* registers are left out: the flags of fcsr are in no delta.              *)
(***************************************************************************)
EXTENDS Pipeline, Sequences, SequencesExt

CONSTANT MaxHistory   \* bound on the steps that can be undone

ASSUME MaxHistoryAssumption == MaxHistory \in Nat

VARIABLES
  cycle, retired,   \* cycle_s_, instructions_retired_
  undo, redo        \* undo_stack_, redo_stack_: the top is last

history     == <<cycle, retired, undo, redo>>
historyVars == <<vars, history>>

IsSingle == vm = "rvss"

Single == INSTANCE SingleCycle

-----------------------------------------------------------------------------
(* What a step delta restores. *)

\* What a delta keeps whole, before the step and after it.  Only pc is kept by
\* the single-cycle processor.
Kept == [pc |-> pc, cycle |-> cycle, retired |-> retired, stall |-> stall,
         latches |-> latches]

State == [kept |-> Kept, gpr |-> gpr, fpr |-> fpr, mem |-> mem]

\* What it lists: a change of a register or a cell of memory, unless there was none.
Change(place, at, old, new) ==
  IF old = new THEN <<>> ELSE <<[place |-> place, at |-> at, old |-> old, new |-> new]>>

\* WriteGpr, WriteFpr, writeByte: what is written to x0 is dropped.
Put(s, place, at, value) ==
  CASE place = "gpr" -> IF at = 0 THEN s ELSE [s EXCEPT !.gpr[at] = value]
    [] place = "fpr" -> [s EXCEPT !.fpr[at] = value]
    [] place = "mem" -> [s EXCEPT !.mem[at] = value]

OldPut(s, change) == Put(s, change.place, change.at, change.old)
NewPut(s, change) == Put(s, change.place, change.at, change.new)

\* The pipelined processors take the changes back from the last to the first.
ChangesUndone(s, changes) ==
  FoldLeft(OldPut, s, IF IsSingle THEN changes ELSE Reverse(changes))

\* The single-cycle processor counts back.
CountedBack(kept, d) ==
  [kept EXCEPT !.pc = d.old.pc, !.cycle = @ - 1, !.retired = @ - 1]
CountedOn(kept, d) ==
  [kept EXCEPT !.pc = d.new.pc, !.cycle = @ + 1, !.retired = @ + 1]

\* mutant: the stall that was going on is forgotten.
UndoneWithoutStall(s, d) ==
  [ChangesUndone(s, d.changes) EXCEPT
     !.kept = IF IsSingle THEN CountedBack(s.kept, d) ELSE [d.old EXCEPT !.stall = s.kept.stall]]

\* Undo and Redo of each kind of processor.
Undone(s, d) ==
  [ChangesUndone(s, d.changes) EXCEPT !.kept = IF IsSingle THEN CountedBack(s.kept, d) ELSE d.old]

Redone(s, d) ==
  [FoldLeft(NewPut, s, d.changes) EXCEPT !.kept = IF IsSingle THEN CountedOn(s.kept, d) ELSE d.new]

-----------------------------------------------------------------------------
(* What a Step writes into its delta. *)

\* WriteBack, WriteBackFloat and WriteMemory of the single-cycle processor look
\* at what the write left behind.
SingleChanges(i) ==
  (IF IsFloat(i) /\ WritesFpr(i) THEN Change("fpr", i.rd, fpr[i.rd], fpr'[i.rd])
                                 ELSE Change("gpr", i.rd, gpr[i.rd], gpr'[i.rd]))
    \o (IF MemWrite(i) THEN Change("mem", Single!Result(i), mem[Single!Result(i)],
                                   mem'[Single!Result(i)]) ELSE <<>>)

Retires == RegWrite(mem_wb.instr) /\ mem_wb.instr.rd # 0

\* pipeline_writeback lists the change of a general register before it knows
\* what will be written, and to which file.
IntegerChange ==
  IF Retires THEN Change("gpr", mem_wb.instr.rd, gpr[mem_wb.instr.rd], mem_wb.value) ELSE <<>>

\* pipeline_writeback_float and _double then list their own.
FloatChange ==
  LET i == mem_wb.instr
  IN IF ~Retires \/ ~IsFloat(i) THEN <<>>
     ELSE IF WritesGpr(i) THEN Change("gpr", i.rd, gpr[i.rd], mem_wb.value)
     ELSE Change("fpr", i.rd, fpr[i.rd], mem_wb.value)

\* mutant: the old bytes of a store are read when they have been written.
MemoryChangeTooLate ==
  IF MemWrite(ex_mem.instr)
  THEN Change("mem", ex_mem.value, mem'[ex_mem.value], mem'[ex_mem.value]) ELSE <<>>

\* memory_writeback reads the cell before and after.
MemoryChange ==
  IF MemWrite(ex_mem.instr)
  THEN Change("mem", ex_mem.value, mem[ex_mem.value], mem'[ex_mem.value]) ELSE <<>>

\* begin_step_delta, finalize_step_delta.  History: decoded is the signal of the
\* control unit at the time of the step, which no delta of the code keeps.
Delta(changes) == [old |-> Kept, new |-> Kept', changes |-> changes, decoded |-> aluOp]

Push(changes) == undo' = Append(undo, Delta(changes)) /\ redo' = <<>>

-----------------------------------------------------------------------------
(* The operations. *)

StepSingle ==
  /\ IsSingle /\ Len(undo) < MaxHistory
  /\ Single!Step
  /\ cycle' = cycle + 1 /\ retired' = retired + 1
  /\ UNCHANGED <<vm, latches, aluOp, stall>>
  /\ Push(SingleChanges(program[pc]))

StepPipelined ==
  /\ ~IsSingle /\ Len(undo) < MaxHistory
  /\ Step
  /\ cycle' = cycle + 1 /\ retired' = IF Retires THEN retired + 1 ELSE retired
  /\ Push(IntegerChange \o FloatChange \o MemoryChange)

\* The processor becomes s; the control unit is left as it is.
Become(s) ==
  /\ gpr' = s.gpr /\ fpr' = s.fpr /\ mem' = s.mem
  /\ pc' = s.kept.pc /\ cycle' = s.kept.cycle /\ retired' = s.kept.retired
  /\ stall' = s.kept.stall
  /\ if_id' = s.kept.latches[1] /\ id_ex' = s.kept.latches[2]
  /\ ex_mem' = s.kept.latches[3] /\ mem_wb' = s.kept.latches[4]
  /\ UNCHANGED <<program, vm, aluOp>>

Undo ==
  /\ undo # <<>>
  /\ Become(Undone(State, Last(undo)))
  /\ undo' = Front(undo) /\ redo' = Append(redo, Last(undo))

Redo ==
  /\ redo # <<>>
  /\ Become(Redone(State, Last(redo)))
  /\ redo' = Front(redo) /\ undo' = Append(undo, Last(redo))

\* Reset, and the program is loaded again.
Reload ==
  /\ \E s \in Starts : gpr' = s.gpr /\ fpr' = s.fpr /\ mem' = s.mem
  /\ pc' = 0 /\ aluOp' = 0 /\ stall' = 0 /\ cycle' = 0 /\ retired' = 0
  /\ if_id' = EmptyIfId /\ id_ex' = EmptyIdEx /\ ex_mem' = EmptyExMem /\ mem_wb' = EmptyMemWb
  /\ undo' = <<>> /\ redo' = <<>>
  /\ UNCHANGED <<program, vm>>

\* The delta of a jal that links is made from what the ALU left, not from the
\* link: when that happens to be the old value, the write is not listed at all.
Undoable == IsSingle \/ \A m \in DOMAIN program : program[m].op = "jal" => program[m].rd = 0

\* The general register that IntegerChange lists for a floating-point result
\* or for addw is not written by the step, but it is by Redo: the steps of such a program are
\* taken back, and not redone.
Repeatable ==
  IsSingle \/ \A m \in DOMAIN program : ~WritesFpr(program[m]) /\ program[m].op # "addw"

InitHistory ==
  /\ program \in Programs /\ vm \in Vms \cup {"rvss"}
  /\ \E s \in Starts : gpr = s.gpr /\ fpr = s.fpr /\ mem = s.mem
  /\ pc = 0 /\ aluOp = 0 /\ stall = 0 /\ cycle = 0 /\ retired = 0
  /\ if_id = EmptyIfId /\ id_ex = EmptyIdEx /\ ex_mem = EmptyExMem /\ mem_wb = EmptyMemWb
  /\ undo = <<>> /\ redo = <<>>
  /\ Undoable /\ (~IsSingle => Handled)

NextHistory == StepSingle \/ StepPipelined \/ Undo \/ (Repeatable /\ Redo) \/ Reload

SpecHistory == InitHistory /\ [][NextHistory]_historyVars

-----------------------------------------------------------------------------
(* Properties. *)

\* The states that Undo and Redo would lead to, one after another.
Past ==
  LET before[k \in 0 .. Len(undo)] ==
        IF k = Len(undo) THEN State ELSE Undone(before[k + 1], undo[k + 1])
  IN [k \in 1 .. Len(undo) |-> before[k - 1]]

Future ==
  LET after[k \in 0 .. Len(redo)] ==
        IF k = 0 THEN State ELSE Redone(after[k - 1], redo[Len(redo) - k + 1])
  IN [k \in 1 .. Len(redo) |-> after[k]]

\* What the user is shown, which "captureSnapshot" of the tests looks at.
Shown(s) == [pc |-> s.kept.pc, cycle |-> s.kept.cycle, retired |-> s.kept.retired,
             gpr |-> s.gpr, fpr |-> s.fpr, mem |-> s.mem]
ShownAll(states) == [k \in DOMAIN states |-> Shown(states[k])]

\* Undo returns to what was shown before the step, "expectSnapshotsEqual(after_undo,
\* before_step)", as often as there was a step, and Redo to what was shown after it, unless
\* the program is one whose steps cannot be repeated; a new step cuts the future off.
Walk == INSTANCE Timeline WITH
  past <- ShownAll(Past), now <- Shown(State),
  future <- IF Repeatable THEN ShownAll(Future) ELSE <<>>, forgetful <- ~Repeatable
ImplementsTimeline == Walk!Spec

\* The signal with which the next step would execute is the one it had before.
SameSignal ==
  GetAluSignal(aluOp, Executing.instr) = GetAluSignal(Last(redo).decoded, Executing.instr)

\* Undo also restores what is not shown: a step that is taken again instead of
\* redone does the same, unless the control unit, which Undo leaves alone, has
\* decoded an instruction of another kind in the meantime.
StepsAgainTheSame ==
  [][(StepSingle \/ StepPipelined) /\ redo # <<>> /\ Repeatable /\ SameSignal
       => State' = Redone(State, Last(redo))]_historyVars
=============================================================================
