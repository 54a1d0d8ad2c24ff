# Kites in TLA+

Kites is a RISC-V assembler and simulator with a Qt front end.  A user writes a
program, the assembler translates it, and one of five processors runs it: a
single-cycle one, or a five-stage pipeline with or without hazard detection and
with or without forwarding.  Loads, stores and fetches go through a
configurable hierarchy of caches.  The program can be paused, stopped, stepped
back and forth, and profiled.

This directory holds specifications of the parts of Kites whose behaviour over
time is hard to test, the model-checking runs over them, and machine-checked
proofs.  Paths below are relative to the repository (`src/src/...` is its
source tree, `src/test`, `src/docs` its tests and documents).

## 1. The system

| component | state | operations | talks to | what is hard | what makes it correct |
|---|---|---|---|---|---|
| Cache, one level (`processor/cache`) | lines (valid, dirty, tag, data), LRU and FIFO times, settings, a loaded script | byte to double-word reads and writes, `readLine`/`writeLine` for the level above, `reconfigure`, `flush`, `reset`, `loadCustomPolicyScript` | the device below, through `MemoryDevice` | evictions inside an access; accesses over two lines; settings changed under dirty lines; scripts that fail half way | the program sees flat memory; no line twice; clean lines equal memory |
| Replacement policies (`processor/cache/policies`, `custom_policy_engine`) | the times of the lines; a Lua state | `onAccess`, `onInsert`, `onEvict`, `chooseVictim` | the cache, Lua | the index a script answers with; errors in callbacks | LRU and FIFO replace in the order they teach |
| Main memory | blocks of 1024 bytes, allocated on first use | reads, writes, lines, `Reset` | caches, loader, undo, memory view | the end of the address space | cells hold the last byte written |
| Memory controller | L1, L2, an instruction cache, main memory | cached and direct (`_d`) accesses, `readInstruction`, `reset` | processors, loader, cache tab, memory tab | direct accesses under the caches; two paths into L2; settings of one level changed under another | the program sees flat memory; fetches find what was loaded; undo restores what a load reads |
| Pipeline (`processor/rv5s`) | pc, four pipeline registers, registers, pending redirects and stalls | `Step`: five stages in reverse order | memory controller, control unit, hazard unit | stalls, forwarding, flushes after a branch, draining | the architectural state is that of the sequential program |
| Step history (`rv5s_processor_base`, `rvss_processor`) | undo and redo stacks of step deltas | `Undo`, `Redo`, a new step | registers, memory, pipeline registers | memory undone below the caches; a step that throws | undo then redo is the identity; undo restores the state of the step before |
| Single-cycle processor (`processor/rvss`) | pc, registers, CSRs, step deltas | `Step`: fetch to write-back; system calls | memory controller, control unit, ALU | seven hand-written tables that must agree; the rounding mode of the host | an instruction does what its text says |
| ALU (`processor/alu.cpp`), `li` | none, but the rounding mode of the thread | an operation on two or three words | processors | limits, NaN, undefined C++ | the answers of the architecture |
| Run control (`processor_base`, `processor_manager`, `mainwindow`) | request flags, a mutex and a condition variable, the breakpoint paused at, two event queues, the toolbar | run, stop, pause, resume, undo, change of processor, closing the window | GUI thread and processor thread | every interleaving of the two | requests take hold; no lost wake-up; the toolbar follows the run |
| Profiler | counts per instruction and line | one slot per clocked step | processor thread writes, GUI reads | read while written | counts are of the steps done |
| Assembler (`assembler`), instruction tables | tokens, symbols, data buffer, intermediate code, back-patch list, errors | two passes, back-patching, code generation; loading | files, processors, disassembly | addresses computed at different times and twice; lines that become several instructions | a label is the address of what follows it; an error for every wrong program and for no other |
| Custom pseudo instructions | a JSON file | define, update, expand a text | assembler, editor | lines before and after expansion | an expansion means its lines |
| User interface, settings, language service, ELF output, Lua | widgets, files, tables | -- | all | -- | not modelled: text, tables and drawing |

`PROJECT.json` lists the same components with their files and status, and the
hazards of the code, each at its line.

Behaviour that is hard in this code comes in three kinds.  *Hidden state*: a
byte has up to four copies (L1, L2, instruction cache, memory), and accesses
that bypass some of them.  *Two threads*: the GUI thread writes flags, resets
the processor, undoes steps and replaces the processor while the other thread
is inside `Run`.  *Partial failure*: scripts, policies, system calls and
assembling throw in the middle of an operation.

## 2. Plan

In the order of importance; all but the last are built.

1. **One cache level** (`CacheLevel`, `Cache`, `CacheOrder`; abstract
   specification `FlatMemory`): coherence, replacement order, refinement; proofs
   (section 3).
2. **Run control** (`RunControl`): threads, requests, signals; proofs (section 4).
3. **Pipeline** (`Instructions`, `Pipeline`, `PipelineOrder`; abstract
   specifications `SingleCycle` and `InOrder`): the five stages in the four
   variants execute a program in order; proofs (section 5).
4. **MemoryHierarchy** over `CacheLevel`, again against `FlatMemory` (section 6).
5. **StepHistory** over `Pipeline`, against `Timeline`; proofs (section 7).
6. **InstructionSet**, with `Syntax`, `Encoding`, `Decoding`, `Execution` and
   `Disassembly`: an instruction from its text to its effect (section 8).
7. **Arithmetic**, with `Alu` and `LoadImmediate` (section 9).
8. **Assembler**: labels, layout, lines; proofs (section 10).
9. **LevelProofs**, **HierarchyProofs**: the proofs for 4 (section 6).
10. **System calls** of the single-cycle processor, the definition and the file of
    **custom pseudo instructions**, the **profiler**.

Modules are written to be proved about: parameters are CONSTANTS with named
assumptions, an operation is an action, invariants are conjunctions of named
parts.  RECURSIVE operators stand only in modules that TLC alone uses.

## 3. One cache level

### Modules

* `CacheLevel` -- the data of one `Cache` and its operations as operators on a
  record `[c, n, err, script]`: the level, the device below, the exception
  raised so far, and the script of this access.  The device below is a
  parameter (`NextReadLine`, `NextWriteLine`, `NextWrite`, `NextOk`), as
  `MemoryDevice` is in the code.  An operator follows one function of
  `cache.cpp`: `FindWay`, `Evict`, `BringIn`, `BringInLines`, `TouchLines`,
  `ReadGeneric`, `WriteGeneric`, `ReadLine`, `WriteLine`, `Reconfigure`.  What
  follows an exception does not happen, and what came before it stays.
* `Cache` -- one level over main memory: the variables, and an action for every
  operation.  An access is one action: caches are used by the processor thread
  alone, and a read changes no state between its bytes.
* `FlatMemory` -- the abstract specification: memory is a function; a read answers
  the cells it asks for, a write changes those it names to the bytes it brings,
  management leaves memory alone, refusals do nothing.  What was asked for is in
  `request`, operation and arguments, which the actions of the implementations set
  from their own parameters: a store that is dropped, one that lands elsewhere, or a
  read of other cells cannot pass for another operation.
* `CacheOrder` -- the lists of blocks, newest first, that LRU and FIFO are taught
  with, and what a use of a block does to them, to be compared with `Cache`.
* `MCCache` -- the instances for TLC.

### Correspondence

| code | model |
|---|---|
| `m_sets[set].ways[way]` | `cache.line[set][way]`, a record `[valid, dirty, tag, data]` |
| time stamps of LRU and FIFO (64 bit, growing) | their order: `recency` and `arrival`, ranks within the set |
| a custom Lua policy | `script`: the integer `chooseVictim` answers, and the callback that raises an error, chosen anew in each access |
| an exception of the policy | `err = "script"`, and the reply `"script"`; the level keeps what the call had done |
| the assertion in `getByteFromCache` | `err = "absent"`; the program ends there |
| hits, misses, write-backs, signals to views | left out |

The level is created with the settings of a configuration, and the user changes
them between accesses as `CacheTab` lets him; a custom policy can be chosen
with a script that was loaded, or that fails to load (`Paths`).  A failing
`createPolicy` leaves the level with the new write settings and the old
geometry, as `reconfigure` does; in the program nothing catches it.

### Runs

| run | checks | instance |
|---|---|---|
| `coherence` | `TypeOK`, `UniqueTags`, `CleanLinesMatchMemory`, `DirtyOnlyUnderWriteBack`, `ImplementsFlatMemory` | six cells of two values; three lines for one set of two ways and for two sets of one way; all pairs of write settings; any change of them |
| `custom` | `ImplementsFlatMemory`, `NoEarlyReplacement` | one set of two ways, three lines; scripts that answer each way, the first by its other name, or beyond the last way, and that fail in either callback |
| `order` | `ReplacementOrder` | four lines for three ways (LRU, and FIFO without write-allocate) and for two sets of one way |
| `span_corrupt` | `NearbyCellsUntouched`, violated, see Findings | accesses over two lines |

Bounds: one line more than the ways is the least number that evicts; two values
tell old bytes from new; two cells per line give an access inside a line, one
that fills it and one that would span.  The state spaces are complete within
these constants; nothing else is bounded.  The `VIEW` of the runs leaves out
`request` and the data of the reply, on which no action depends: they do not
multiply the states to explore, and the steps to them are all checked, since TLC
evaluates action properties on every step.  There is no fairness: all properties
are safety.

### Proofs

`CacheProofs` proves, for every memory
size, set of values, configurations, accesses and behaviour of scripts that
the ASSUMEs of `Cache` allow:

* `TypeCorrect`: `Spec => []TypeOK`.
* `SafetyCorrect`: `UniqueTags`, `CleanLinesMatchMemory`,
  `DirtyOnlyUnderWriteBack` and `NeverAbsent` are invariants.
* `NoLineTwice` and `DirtyLinesAreWrittenBack`, two of these on their own.
* `CacheIsInvisible`: `Spec => ImplementsFlatMemory`: the read, write or change
  of settings that was requested, and no other, is what the program sees done.
* `ReplacementFollowsThePolicy`: `Spec => ReplacementOrder`.
* `ReplacementWastesNoWay`: `Spec => NoEarlyReplacement`.

All but the first assume `NoSpanning`, that no access covers cells of two lines in
any configuration.  The hypothesis is needed: the code is wrong without it (run
`span_corrupt`, and section 11).  The invariant is `TypeOK` with `Coherent` (a tag matches one
valid way of its set, clean lines equal memory, only a write-back cache has
dirty lines).  An access goes through several intermediate states, so the
argument is about them: `ReplaceLine` says that replacing one line keeps
coherence and the view of every cell, if the new line holds what memory holds,
or the old one's bytes; eviction, write-back, filling and storing are instances
of it.  `Prepared` is what a hit or a miss leaves for the access proper: same
view, the line resident, or a script error.  `SafeNext` puts these together,
and the refinement follows since every step's effect on the view is known.
The mapping is `mem <- View`: a cell is its cached byte if resident, memory's
otherwise.

The two theorems on replacement relate what the code keeps, ranks of ways, to
what it teaches, lists of blocks.  Their invariant is `RanksDiffer`: the ranks of a
set are different, valid ways or not, so a policy never has a choice
(`RanksAlwaysDiffer`).  Then the valid ways stand in exactly one order
(`DescendingExists`, `DescendingIsRanked`), and `Held` is that list, as blocks.
`RenewedList` and `ExtendedList` say what it is to the list when one way becomes
the newest and the others keep their order: its entry moves to the front, or,
for a way that was not valid, is put there.  `TouchedHeld` and `InstalledHeld` bring
this to blocks: a hit moves its own, a miss puts its own in front and drops the
last one only when no way is free, because the way evicted is the oldest
(`OldestIsLast`).  `ReadMoves` and `WriteMoves` say that every access is such a hit
or miss (`Hit`, `Miss`), or goes past the cache, or is broken off by a script with
nothing moved; write-backs and stored bytes move nothing (`Still`).  That a block
is not listed twice is `UniqueTags` again.  For `NoEarlyReplacement` it is enough
that a set holds the blocks of its valid ways (`HeldBlocks`) and that a miss
takes a free way if there is one, whatever the policy.

## 4. Run control

### Module

`RunControl` has the two threads.  The GUI thread has an action for each click
(`ClickRun`, `ClickStop`, `ClickPause`, `ClickResume`, `ClickUndo`,
`ChangeProcessor`, `Close`) and one for a signal that arrives (`HandleEvent`).
The processor thread has `RunSlot`, the steps of the loop in `Run` in their
order, and `EndRunSlot`.  `RVSSProcessor::Run` and `RV5StageVM_Base::Run` have
the same loop; it is modelled once.

| code | model |
|---|---|
| `stop_requested_`, `pause_requested_` | `stop`, `pause` |
| `program_counter_` (and a drained pipeline) | `at`, a place; `Size` is the end.  `Step` may go to any place, or throw |
| `last_breakpoint_pc_` | `lastBreak` |
| a part of `Run` under `pause_mutex_` | one action (`PassGate`, `BeginDelay`) |
| `wait` on the condition variable | the locations `"waiting"` and `"delay"`; `wakeAll` moves the worker on in the same action as the click; a spurious wake-up and the end of the delay do, too |
| `Step`, outside the mutex | `BeginStep`, then `EndStep` or `FailStep`, anything in between |
| the `read` system call in `Step`: a wait on `input_cv_` | `AwaitInput`; no action leaves `"reading"`, because no file calls `PushInput` and `RequestStop` wakes another condition variable |
| the queued connections | `queued` (to the worker) and `events` (to the GUI), in order |
| the actions of the toolbar | `toolbar`: two texts and three enabled states |

`RequestStop` resets the processor on the GUI thread, also in the middle of a
`Step`: the step then leaves the program anywhere, which covers what the data
race on the program counter can produce.  Destroying the processor under its
own `Run` is undefined; the model ends there (`"gone"`).  `late` and `overlap`
are histories: how many steps began since a request stands, and whether Run was
clicked before the toolbar knew the last run to be over.

Left out: `debugRun` and the Step button, which the toolbar never offers;
`setStepDelay` (a delay may end at any time anyway); the views that the clocked
signal updates; the `exit` system call, which ends the whole process inside a
`Step`.

### Runs

| run | checks |
|---|---|
| `control` | `TypeOK`, `NoLostWakeup`, `AtMostOneLateStep`, `QuietIsReady`, `RunKeepsProcessor`, `PausedOffersResume`; `StopEndsRun`, `PauseTakesHold` under fairness |

Bounds: a program of two places and its end, with one breakpoint (a place
that is one, one that is not, a step that stays, moves or ends); at most
`MaxQueued` runs queued, at most `MaxEvents` signals outstanding when the user
starts or resumes a run.  Two of each let a second run be queued behind the
first with signals of both under way.  The bounds restrain the user only, never
the worker.  Deadlock is not checked, because the program may really stop: the
window is closed, or the processor gone.

Fairness: the worker thread is scheduled (`WF(RunLoop)`), its event loop
delivers the queued run unless the window is closing, and the GUI's event loop
delivers signals.  Nothing is assumed of the user, of spurious wake-ups, or of
the program ending, and nothing brings a `Step` back from a read.  So
`StopEndsRun` and `PauseTakesHold` say what becomes of a request *unless the
program waits for input*: such a run neither stops nor pauses, and closing the
window then waits for ever.  Both begin once `ClearStop` has been executed:
a stop or pause clicked between the click on Run and that moment is lost, and no
property says otherwise.

### Proofs

`RunControlProofs` proves, for every `Size`, every set of breakpoints and any
values of the bounds, one theorem for each invariant of the run: `TypeCorrect`,
`WakeupsArrive`, `RequestsTakeHold`, `ToolbarFollowsRun`, `ProcessorOutlivesRun`
and `PausedRunCanResume`.  The inductive invariant adds what
these need: a worker past the gate has begun no late step, and none is late
when no request stands (`LateSteps`); when no run is left, the last signal
outstanding is the `"finished"` that makes the toolbar ready (`LastWord`); and a
run that overlaps no other has nothing outstanding but breakpoints, and its
pause shows in the toolbar or in a signal on its way (`SoleRun`).

The liveness properties are model-checked only: proofs under fairness are out
of the provers' reach.

## 5. The pipeline

### Modules

* `Instructions` -- one operation for each combination of control signals,
  operands and destination that the processors tell apart: 17 of them stand for
  the instruction set.  The ALU, and how words and places correspond, are
  parameters, so that nothing depends on 64-bit arithmetic.
* `SingleCycle` -- `RVSSProcessor::Step`: what a program means.
* `InOrder` -- `SingleCycle`, except that the target of a redirection may take
  effect twice.  That is the most the pipeline can be said to promise, because of
  the finding `target_twice`; everything else about the order is as it should be.
* `Pipeline` -- `Step` of the four variants.  A `Step` is one action, since
  nothing else runs between its stages; each stage is a few state functions,
  which build on those of the stages called before it.
* `PipelineOrder` -- the refinement mapping and the properties; `PipelineProofs`, their proofs.
* `MCPipeline` -- the instances for TLC.

### Correspondence

| code | model |
|---|---|
| `program_counter_`, in bytes | `pc`, counting instructions; `Size` is anything beyond the program |
| `if_id_reg_` ... `mem_wb_reg_` | `if_id` ... `mem_wb`; control signals, register numbers and flags in them are functions of the instruction, which the registers carry along |
| `alu_op_` of the control unit | `aluOp`: it is not in ID/EX, and a bubble leaves it |
| `stall_cycles_` | `stall` |
| `pipeline_writeback` | `GprWritten`, `FprWritten` |
| `pipeline_memory` | `BranchRedirects`, `MemWritten`, `ToMemWb`; the flush of ID/EX is `Executing` |
| `pipeline_execute` and its forwarding | `Forwarded`, `AluIn1`, `AluIn2`, `ToExMem`; a jump is `PcRedirected`, its flush `Decoding` |
| `check_data_hazard` | `StallsNeeded` |
| `pipeline_decode`, `pipeline_fetch` | `ToIdEx`, `AluOpDecoded`, `ToIfId` |
| the end of `Step` | `NextPc` |
| the loop of `Run` | `Running`, the guard of `Step`, and its fairness |

The mapping lets an instruction take effect when it leaves EX, for from then on
nothing stops it.  Registers and memory are seen as they will be when EX/MEM and
MEM/WB have completed (`ViewGpr`, `ViewFpr`, `ViewMem`), and the next place is
that of the oldest instruction not yet in EX/MEM (`ViewPc`).

### Which programs

The variants without hazard detection require of the program that it keep its
distances; `Handled` says which, with `Depends`, the registers an instruction
really uses.  `Handled` also excludes what goes wrong in the code, and only
that: without any of its conjuncts `ExecutesInOrder` fails.

* Results for `f0` (all variants): write-back drops them (section 11).
* Floating-point instructions, with forwarding: the first operand of `flw`,
  `fsw` and `fmv.w.x` is read in EX from the register file, not forwarded, and a
  floating-point result is forwarded to an integer register of its number.
* `addw` and the other 32-bit operations, with forwarding: write-back has no
  case for them, so that their result is seen by the next two instructions and
  by none after.  (`SingleCycle` has the same gap, and no such difference.)
* `jal` that links, with forwarding: the link is made in write-back, and what
  is forwarded before is the ALU's output.
* `jalr` in `nh_f` with an immediate whose bits name a register: a value
  forwarded for that register replaces the immediate.

### Runs

| run | checks |
|---|---|
| `pipeline` | `TypeOK`, `NothingLeftBehind`, `ExecutesInOrder`; `Finishes` under fairness |
| `target_twice` | `RunsAsSingleCycle`, violated by `h_f` |

Bounds: every program of three instructions that the variant can be given, out
of 23 instructions (each operation, with operands that do and do not depend,
and immediates whose bits name a register).  A value is forwarded over at most
two instructions, and a redirection flushes at most two, so three instructions
show each pair of stages at work, and a jump back runs them again in the
pipeline; the runs end by looping or by leaving the program, and their state
spaces are complete.  Seven words and start values that differ tell a wrong
operand from the right one; the operands of `sub` and `fadd` do not commute.
Deadlock is not checked: a program comes to its end.

Fairness is `WF(Step)`: `Run` calls `Step` as long as its condition holds.  That
the user may stop or pause it is the subject of section 4.

### Proofs

`PipelineProofs` proves `TypeCorrect`, `DrainsCompletely` (`NothingLeftBehind`)
and `PipelineExecutesInOrder` (`Spec => ExecutesInOrder`) for the four variants,
programs of any size, any number of registers and any ALU.  Of the ALU it
assumes that the answers are words, and that a move ignores the second operand
(`AluAssumption`, `MoveAssumption`); of the program, `Handled`.

The inductive invariant has three parts.  `TypeInv`: a pipeline register holds
the instruction of its place, or a bubble.  `FlowInv`: fetch goes on by one
except at the target of a redirection, a stall that goes on has no branch ahead
of it, and without stalls the instructions in the pipeline are at most two
apart or the target of one another.  `DataInv`: the operands in ID/EX are those
in the register files now, and the instruction in EX uses nothing that is on its
way and cannot be forwarded (`Independent`) -- with hazard detection because
`check_data_hazard` looks at no fewer registers than an instruction uses
(`DependsClashes`), without it by `Near` and `Handled`.  Then forwarding finds
the value that the sequential machine has (`GprSeen`), the ALU computes its
result (`ResultSeen`), and a Step is a step of it, a second copy of a target, or
a stutter (`MapsStep`).

`Finishes` is model-checked only, as it needs fairness.

## 6. The memory hierarchy

`MemoryHierarchy` instantiates `CacheLevel` twice: `Lower` is an L2 over main
memory, `Upper` an L1 or an instruction cache over `Lower`.  Its actions are
those of `MemoryController` and of who calls it.

| code | model |
|---|---|
| `readX`, `writeX` of the processor | `Load`, `Store`, with the delta of the store pushed on `undo` |
| `readInstruction` | `Fetch`, through the instruction cache and L2 |
| `ProcessorBase::LoadProgram` and the reset before it | one action that writes memory under emptied caches |
| `Undo`, `Redo` of the processors | `Undo`, `Redo`: through L1, or, with `UndoBypassesCaches`, straight to memory |
| the widgets of the cache tab | `reconfigure` of one level after the other, in the order in which the tab calls it |
| addresses of 64 bits, whose sum with a line size wraps around | `AddressSpace`; the memory is one cell short of it by default |

Run `hierarchy`: `ImplementsFlatMemory` (the module `FlatMemory` of section 3,
with loading; an undo or a redo is a request to write the recorded bytes, a fetch
requests nothing of it), `FetchesWhatWasLoaded`, `UndoRestoresMemory`.  Bounds: three cells and lines of one or two, so that a
line is evicted from each level by the next access and the last line reaches
past the memory; one step of history; settings that shrink the lines of L1
and that change the write policy of L1 and of L2; a `VIEW` as in section 3.  There
is no fairness.  What the run leaves out: accesses over two lines
(section 3), scripts that fail, an L2 whose lines are shorter than those of L1,
and the undo of the pipelined processors; the last two break the properties
(section 11).

### Proofs

`HierarchyProofs` proves, for every size of the address space and of memory, every
geometry and policy of the three caches, all accesses, programs and settings that
the ASSUMEs of `MemoryHierarchy` allow:

* `AlwaysConsistent`: the inductive invariant `Consistent` holds for ever; part of it
  is that the program never ends on a line that is too long for L2.
* `FetchesLoaded`: `Spec => []FetchesWhatWasLoaded`.
* `UndoRestores`: `Spec => UndoRestoresMemory`.
* `HierarchyIsFlat`: `Spec => ImplementsFlatMemory`, with `mem <- View`.

Each has hypotheses about constants, and each of them stands for a place where the
code is wrong (section 11), not for a convenience of the proof:

* `NoSpanning`: no access covers cells of two lines of L1, as in section 3.  Lines
  have at least four bytes and their sizes are powers of two
  (`cacheconfigwidget.cpp:76`), so an aligned access covers two lines only when it is a
  double word and lines have four bytes.
* `LinesNest`: the lines of L2, default or chosen, are made of whole lines of the two
  caches above, and lines divide the memory.  As sizes are powers of two this says that
  L2 never has the shorter lines.  `enforceL2AtLeastL1` does not see to it: the user may
  shrink those of L2 afterwards, and after a change of processor the widgets no longer
  show the settings in force, so that L2 does not follow when L1 grows.
* `~UndoBypassesCaches`, in the last two: the processor is the single-cycle one.  The
  first two hold for the pipelined ones as well.

Run `hierarchy` satisfies all three, with lines of one and of two cells above an L2 of
two, and with a reconfiguration between any two steps.

The argument is about one level at a time.  `LevelProofs` states what a level asks of
the device below (`Device`): it is always ready, has lines of one length, answers
a line with what it holds (`Answers`), and takes what is written (`Obeys`).  What a
device holds is known only at some addresses (`Sound`): after an undo below the
caches, L1 is wrong about the cells undone, and right about all others.  So `Coherent(s,
A)` is relative to a set `A` of addresses: a tag is valid in one way only, a dirty line is
one of a write-back cache, and a clean line equals the device at the addresses of `A`,
where alone the view is known.  The theorems `LevelAnswersLine`, `LevelObeysLine` and
`LevelObeysWrite` say that a level over such a device is one again.  `HierarchyProofs`
instantiates the module twice.  Memory is a device, up to its last line, the end of
which wraps around to 0 (`Extent`); `L2IsDevice` then needs no more than the three
theorems, and the same lemmas hold of L1 and of the instruction cache over L2.

A level that is read, flushed or reconfigured is `Harmless`: its view stays, and what
comes down from it is what it showed.  That is not yet enough for the other
cache, which sits on the same L2 and must not become stale by it.  `Consistent` has what
makes the two compatible:

* the instruction cache is clean (`AllClean`), so nothing ever comes down from it;
* at the addresses not stored to since the program was loaded (`Loaded`), L1 shows what
  L2 holds (`Settled`), so whatever comes down from L1 changes nothing there, and what
  the instruction cache holds stays right;
* what L1 shows is known at `Trust`: everywhere, or, with `UndoBypassesCaches`, at `Loaded`;
* the changes on the stacks of undo and redo lie within `stored`, so undoing them, above
  or below the caches, does not touch `Loaded`;
* the settings of each level are among those the user can choose, so that lines keep
  nesting when any of the three is changed.

Then every action has a lemma of its own (`LoadStep`, `StoreStep`, `UndoStep`, ...): the
invariant is kept, and the view is as it was (`Unseen`), or overwritten by the
data (`Wrote`), or a load's answer is what was seen (`Answered`).  `FlatStep` maps each
to its action of `FlatMemory`; a fetch is a stutter.  TLC checked the invariant on the
instance of the run before it was proved.

Loops over the ways of a cache and over the bytes of a delta are folds.  `FoldFacts` says
once what they need: a fold is the last of a row of results, each one step from the
one before.

## 7. Undo and redo

`StepHistory` extends `Pipeline` by the two stacks of step deltas, for the four
pipelined processors and, over the same programs, the single-cycle one.  A
delta is built where the code builds it, apart from the write that it is to
take back: `IntegerChange` and `FloatChange` in write-back, `MemoryChange` in
the memory stage, the pipeline registers and counters before and after
(`Kept`).  `Undone` and `Redone` replay it.

`Timeline` says what is promised: a line of states along which the user walks
back and forth, cut off by a new step.  Run `history` checks that `StepHistory`
implements it (`ImplementsTimeline`), with the contents of the stacks replayed
as the mapping, and `StepsAgainTheSame`: taking a step again does what redo
would have done.  The second is about what is not shown: Undo leaves the ALU
signal of the control unit alone, and the property holds only when that does
not matter (`SameSignal`).

Bounds: every program of two instructions out of ten, one for each kind of
result, and seven steps, enough for two instructions to pass the five stages.
`Undoable` and `Repeatable` say for which programs the promise is kept.

### Proofs

`HistoryProofs` proves both for all five processors, every program, ALU, start
and number of steps: `HistoryImplementsTimeline` (`SpecHistory =>
ImplementsTimeline`) and `StepsAgainTheSameHolds`.

First comes what one delta does.  `FoldFacts` has the facts about folding a
sequence that the replay rests on: the result with one more element, and for
an empty list (tlapm has no theorem about `FoldLeft`).  From them, a list of at
most three changes is taken back or done again one by one (`ChangesBack`,
`ChangesOn`), and a change of one register or cell leads from the array after
the write to the one before, or back (`ArrayBack`).  `PipelinedJoins` and
`SingleJoins` put this together for a `Step`: its delta `Joins` the state before to
the state after.  This is where `Undoable` and `Repeatable` are needed, and
where the two halves of a delta could disagree: `WrittenIsListed` says that what
write-back writes is what was listed before the write, and `LinkKept` that the
link of a `jalr` is.

The inductive invariant `HistoryInv` says that there is a line: a sequence of
states (`Behind`) that ends in the present one, consecutive states joined by
the deltas on the undo stack, and one (`Ahead`) that starts there, joined by
those on the redo stack.  Every state of it is `Sound`, that is typed, with only
instructions of the program in its pipeline registers -- the states that Undo
returns to must be known to be states a Step may be taken from.  The recursive
functions `Past` and `Future` are then equal to the two sequences (`PastIs`,
`FutureIs`), and each operation moves the present along the line or
cuts it off.

For the second theorem, `Joins` also says that the state after is a function of
the state before and of the signal decoded at the time (`After`, made from
instances of `Pipeline` and `SingleCycle` in which the state is a parameter),
so that a step taken again can be compared with one taken long ago.

## 8. The instruction set

One line of assembly goes through `Syntax` (the operand formats of the parser),
`Encoding` (the code generator), `Disassembly`, and `Decoding` and `Execution`
(control unit, operands, ALU signal, memory access, write-back) of `rvss` or of
`rv5s`, one instruction at a time.  A word is cut into its six fields, and what
an instruction computes is a term over its operands, so that the bits of the
immediates are exact and the arithmetic is left to section 9.  The tables
of `instructions.cpp` are written row by row, as what the functions find there.
The state is one thread's: what one instruction leaves in the rounding mode of
the host is there for the next.

Run `isa`, over every name and syntax, with immediates at and around every
limit: `AcceptsExactly` (a line becomes a word if and only if the instruction
set has it), `ReadsBack` (its disassembly is the line again) and
`ExecutesExactly` (its effect is the one that `Meaning` gives it from the text
alone).  Each names the lines for which the code does something else
(`AcceptedByMistake`, `RefusedByMistake`, `Misshown`, `Misexecuted`) and is an
equivalence: those lines do go wrong, and no other does.  The run is complete for
these lines; every line is followed by every other only in what is left in the
rounding mode (`host`, `frm`).

## 9. Arithmetic

`Alu` has the operations of `Alu::execute`, `fpexecute` and `dfpexecute` for
integers of `Width` bits and a floating-point format of a few bits with zeros,
subnormal numbers, infinities and NaNs: signaling, quiet, and quiet with a
payload.  An operator returns the set of answers: more than one where C++ leaves
the behaviour undefined or the library a choice, as for the minimum of two NaNs.
Signed sums and products that overflow, formally undefined, wrap as on every host.
Addition, multiplication and roots of floating-point numbers are the host's.
`LoadImmediate` has `li`: the instructions it becomes, and what they leave.

Run `arithmetic`, with eight bits and words of four: `IntegersAsSpecified` and
`FloatsAsSpecified` compare with the architecture's answer,
`ConversionsSaturate` with the nearest integer in the direction of the rounding
mode, `LoadsItsConstant` with the number asked for -- `li` and conversions for
every number there is.  As in section 8 the exceptions are named and exact.
The limits of eight-bit numbers lie to one another as those of 64-bit ones do:
halves, signs, and a chunk of `lui` and `addi` that is shorter than a half.  What
only the true widths have is not covered (which doubles are exact in a float).

## 10. The assembler

`Assembler` follows one assembly from the editor to memory.  It is sequential; the
steps are those of the loops: a line of the editor (`ExpandLine`), a line of the first
pass (`DataLabel`, `DataDirective`), a line of the second (`TextLabel`,
`LabelledInstruction`, `AddressInstruction`, `UnlabelledInstruction`), an entry of
`back_patch_` (`BackPatch`), `Generate`, an instruction whose lines are mapped
(`MapLines`), the text (`LoadText`), an element of the data (`LoadElement`) and
`SetBreakpoints`.

| code | model |
|---|---|
| tokens of a line | one record with its kind, label, width and number of elements |
| `symbol_table_`, `data_index_`, `data_buffer_`, `back_patch_` | variables of these names |
| `intermediate_code_` and the map from instructions to lines | `code`; an immediate that was not set is the empty set |
| `li`, one to eight instructions under one line (`pseudo_formats.cpp:111`) | a plain line with its number of instructions, `UnitsOf`; which ones they are is `LoadImmediate`, section 9 |
| `la`, a load of a label | `AddressPair`, with the split into 20 and 12 bits exact |
| `.zero` with a 0 among its numbers: an error, the other numbers are taken (`parser.cpp:255`) | a line of its own kind, `"zero"` |
| `jal` without a register (`pseudo_formats.cpp:932`) | `"malformed"`: `jal` has no pseudo syntax (`instructions.cpp:808`), so `parse_pseudo` is never asked and the line is a syntax error |
| two layouts of the data, by parser and loader | `dataIndex` with `LabelAddress`; `dataCounter` in `LoadElement` |
| an exception of `stoi` in the code generator | the phase `"thrown"` |
| an exception of `stoull`, `stof` or `stod` on a number out of range, in a directive or in `li` | not modelled: numbers are abstract, and such a text is in no program |

Run `assembler`: `JumpsReachTheirLabels`, `DataLabelsNameTheirData`,
`BreakpointsStopAtTheirLine` and `RefusesExactlyTheIllFormed`, each against what
the lines alone say (`StartOf`, which counts the machine instructions of the
lines above, and `WellFormed`).  Bounds: texts of up to four
lines and data of up to four, both sections in both orders; two data labels and
a text label, one of whose names is in both sections; elements of one, four and
eight bytes; a branch that reaches one instruction ahead and two back, so that
its range matters; plain lines of one instruction and of three, over which such
a branch does not reach in either direction; data at 2044, where the address
changes its upper part; and pseudo instructions of one line, of two, and one
that uses another.  The runs end, so deadlock is not checked.  The names of labels are abstract: what the parser
does with a text label called `data` is in section 11.

### Proofs

`AssemblerProofs` has the lemmas about lines and about each loop, and the
theorems.  They hold for every text, all pseudo instructions and any reach of branches
and jumps: `AssemblerTyped` (`Spec => []TypeInv`), and one theorem for each of the four
invariants of the run.

The argument is an arithmetic of lines, each of which becomes any number of machine
instructions.  `StartOf` counts what stands above a line, as the cardinality of a set of
pairs of a line and a number, and the assembler appends to a list: `UnitsNext` says how
that set grows, `IndexNext` and `IndexApart` that the index of a line grows by what the
line becomes, so that lines have disjoint places in `code`, whatever `la` and `li` take.
On this rests `CodeInv`, which every step of every phase keeps:

* `Bounded`, `Untouched`: a loop stays within what it goes through, and what a phase has
  not begun to fill is empty.
* `InSection`: both passes are in the section in which the text puts their line, so that
  they share the lines between them.
* `TableKept`: the table of symbols has the labels passed so far and no others, and
  knows which are of data.  It holds after errors too; the reasons for an error need it.
* `Clean`: as long as there is no error, every line passed is one that the section may
  have (`DataSound`, `TextSound`), every text label stands once in the text and has its
  address (`LabelsOnce`), every instruction passed is in `code` at its index, a reference
  either with its offset or in the list to be back-patched, and `code` and that list have
  nothing else (`CodeSound`).

After an error the indices are those of the lines that were taken, not of the text;
`CodeSound` cannot hold then, and the proofs show that nothing relies on it.  Each
theorem adds one part of its own:

* `TextLoaded`, for `JumpsReachTheirLabels`: the text in memory is `code`.
* `LinesMapped` and `OriginKept`, for `BreakpointsStopAtTheirLine`: a line of the map goes
  to the next instruction at or below it, and up to the first expansion to more or less
  than one line, the lines of the editor are those of the text.
* `LaidOut`, for `DataLabelsNameTheirData`: there is one function `pos` from elements to
  places that both layouts follow -- the index of the parser, the labels placed so far and
  what the loader has written are all given by it.  In between stands
  `JustLabelled`: the parser has already aligned for an element it has not yet counted.
* `Blamed`, for `RefusesExactlyTheIllFormed`: an error has its reason in the text.  The
  other direction needs no more than `Clean` (`CleanIsWellFormed`).

TLC checked each part as an invariant of the instance above, with shorter texts, before
it was proved; for `LaidOut` it was given the function.  The assumptions are those
declared in `Assembler`: texts and expansions are sequences of lines, the numbers are
natural.

## 11. Findings

Two runs show a property, stated by the repository, violated:

* `span_corrupt`: an access over two lines brings in both, resident or not.  A
  resident dirty line gets a second, older copy, and bytes outside the access
  change; `src/test/cache_test.cpp:249` says they do not.
* `target_twice`: after a redirection the target is fetched twice, because
  `Step` moves the program counter on only if no stage changed it.  Both copies
  take effect.

The other places where the code does not do what it should were met while
modelling.  They are left out of the properties by name, and those of sections 8
and 9 are shown to be exactly the exceptions.

*Caches.*  With one way, an access over two lines evicts the first with the
second, and the assertion of `getByteFromCache` fails (`cache.cpp:287`, `:354`).
Within the range that `docs/CUSTOM_REPLACEMENT_POLICY.md:110` and `:126` give
for a script's answer, the last way cannot be named
(`custom_policy_engine.cpp:259`).  L2 may be given shorter lines than L1, which an assertion
(`cache.cpp:89`) then ends; a line of more than 1024 bytes is read past its block
(`main_memory.cpp:94`).  A store reads the old bytes through L1 first
(`rvss_processor.cpp:696`), so that no-write-allocate never shows.  A script of
L2 that fails while L1 is filled leaves a valid line with old data in L1
(`cache.cpp:260`) until the next reset.

*Run control.*  `Run` starts with `ClearStop` (`rv5s_processor_base.cpp:10`),
which also clears a stop clicked after the run was queued; closing the window in
that moment waits for ever.  The signals of a run that was stopped arrive
during the next and enable the toolbar under it (`mainwindow.cpp:515`); the
processor can then be replaced while it runs (`processor_manager.cpp:55`).  The
`read` system call waits for an input that no file sends, and a stop does not
wake it (`rvss_processor.cpp:529`).

*Pipeline.*  Write-back guards both register files with the same `rd != 0`, and
drops results for `f0` (`rv5s_processor_base.cpp:540`).  `Handled` (section 5)
names the cases in which forwarding is wrong.

*Undo and redo.*  The pipelined processors undo memory below the caches, which
keep the undone bytes (`rv5s_processor_base.cpp:812`).  The change of a register
is recorded before the step knows its file (`:547`): redo of a floating-point
result or of `addw` writes a general register, and a linking `jal` may be listed
with the ALU's output or not at all.  The ALU signal of the control unit and the
flags of `fcsr` are in no delta.

*Instruction set.*  `fclass` cannot be encoded (a comma is missing,
`instructions.cpp:489`); the rounding-mode syntaxes of eight conversions are
exchanged; `ebreak` encodes as `csrrw`; `jal` takes an even immediate; `flw`
and `fld` write a general register for some offsets; `jalr` keeps bit 0 in
`rvss`; the word multiplications and divisions are not written back; `remu`,
`auipc`, `ecall` and the CSR instructions go wrong in `rv5s`; `fcvt.d.lu` and the
fused operations do nothing; the dynamic mode of doubles is not looked up
(`rvss_processor.cpp:369`), and there is no rounding to nearest with ties away.

*Arithmetic.*  Division by zero answers 0, the smallest number over -1 the
largest; `divuw`, `remw` and `remuw` test one register and divide by another
(undefined behaviour); a division of floating-point numbers by zero is NaN; the
minimum and maximum of two NaNs are one of them, signaling or with its payload
(`std::fmin`), not the canonical NaN; NaN becomes the smallest word; limits are
compared after rounding; `li` is wrong for 0x7ffff800 to 0x7fffffff.

*Assembler.*  A text label named `data`, `bss` or `section` makes the first pass
loop for ever (`parser.cpp:602`).  `beqz` and the other pseudo-branches to a
label throw in the code generator, because no immediate is ever set.  The case of
`jal` without a register is never reached.  A jump to
a data label is taken, with the offset of the label in its section for an
address.  A label before a directive without elements moves the parser's
addresses and not the loader's.  A breakpoint below the last instruction goes to
address 0, and setting breakpoints drops the one at the program's end.  The
line numbers of breakpoints are the editor's and those of the program the
expanded text's (`mainwindow.cpp:431` discards the mapping).

*Custom pseudo instructions.*  A file that cannot be read counts as empty, and
the next definition then overwrites it; it is truncated before it is written;
validation passes lines that never assemble; expansions are not expanded again.

## 12. What is not modelled

In the pipeline, `auipc`, system calls, CSRs and the fused multiply-adds; their
effects as single instructions are in section 8.  System calls of the
single-cycle processor: input, output and `exit` of the host.  The blocks of
main memory.  The definition, validation and file of custom pseudo
instructions, and the profiler's counts, are sequential and left for later.  Out
of scope are lexing and formatting, the rounding of the host's floating-point
arithmetic, files, drawing, the language service, and the vendored Lua
interpreter.  `UndoBuffer` is declared in two classes, and no operation of it is
ever called.  Two threads that touch the same field without a lock -- a change of
the caches, an undo or a reset during a `Step` -- are a data race: the model has
the interleavings of `RunControl`, and no property says what they leave.

Only model-checked are the liveness properties, and all of sections 8 and 9.  `InstructionSet` and `Arithmetic` use
RECURSIVE operators or tables over strings, which the provers do not have.

## 13. Running

    tlc -workers 2 -config MCCache_coherence.cfg MCCache
    tlc -workers 2 -config MCRunControl_control.cfg MCRunControl
    tlc -workers 2 -config MCPipeline_pipeline.cfg MCPipeline
    tlc -workers 2 -config MCHierarchy_hierarchy.cfg MCHierarchy
    tlc -workers 2 -config MCAssembler_assembler.cfg MCAssembler
    tlapm CacheProofs.tla
    tlapm RunControlProofs.tla
    tlapm PipelineProofs.tla
    tlapm FoldFacts.tla
    tlapm LevelProofs.tla
    tlapm HierarchyProofs.tla
    tlapm HistoryProofs.tla
    tlapm AssemblerProofs.tla

`PROJECT.json` names the module and configuration of every run, the mutant of
the code that breaks each property, and for every definition the source lines
it translates.  The mutants stand beside the definitions they change, each
marked `mutant:`.
