-------------------------- MODULE MemoryHierarchy ---------------------------
(***************************************************************************)
(* MemoryController (src/src/processor/memory_controller.cpp): main memory *)
(* under an L2 cache, under an L1 cache for data and another cache for     *)
(* instructions.  The processor loads, stores and fetches through L1 and   *)
(* the instruction cache; the loader writes main memory directly; an undo  *)
(* writes the old bytes back through L1 or, in the pipelined processors,   *)
(* directly; the user chooses the settings of each cache in CacheTab.      *)
(*                                                                         *)
(* An address has 2^64 values in the code and AddressSpace values here;    *)
(* the memory has one cell less by default.  An instruction is one cell.   *)
(* Custom replacement scripts are left to Cache.                           *)
(***************************************************************************)
EXTENDS Integers, Sequences, SequencesExt

CONSTANTS
  AddressSpace,   \* 2^64
  MemSize,        \* vm_config memory_size
  Values,         \* the values of a cell
  Accesses,       \* the pairs <<address, length>> a program loads
  Stores,         \* the pairs of such an access and the data it stores
  Code,           \* the addresses it fetches instructions from
  Images,         \* the memories that loading a program may leave
  DefaultConfig,  \* default_cache_config, of all three caches
  L1Configs, InstructionConfigs, L2Configs,   \* what the user can choose
  UndoBypassesCaches,   \* is the processor one of the pipelined ones?
  MaxHistory      \* bound: the steps that can be undone

Addresses == 0 .. MemSize - 1

CacheConfigs == [sets : Nat \ {0}, ways : Nat \ {0}, size : Nat \ {0},
                 write : {"WriteThrough", "WriteBack"},
                 alloc : {"WriteAllocate", "NoWriteAllocate"},
                 repl  : {"LRU", "FIFO"}]

ASSUME SizeAssumption ==
  AddressSpace \in Nat \ {0} /\ MemSize \in 1 .. AddressSpace - 1
ASSUME ConfigsAssumption ==
  /\ {DefaultConfig} \cup L1Configs \cup InstructionConfigs \cup L2Configs
       \subseteq CacheConfigs
  /\ \A cfg \in L2Configs \cup {DefaultConfig} : AddressSpace % cfg.size = 0
ASSUME AccessesAssumption == Accesses \subseteq Nat \X (Nat \ {0}) /\ Code \subseteq Addresses
ASSUME StoresAssumption ==
  \A store \in Stores :
    store[1] \in Accesses /\ store[2] \in [0 .. store[1][2] - 1 -> Values]
ASSUME ImagesAssumption == 0 \in Values /\ Images \subseteq [Addresses -> Values]
ASSUME HistoryAssumption == UndoBypassesCaches \in BOOLEAN /\ MaxHistory \in Nat

VARIABLES
  l1, instruction, l2,   \* the caches, records of CacheLevel
  mem,         \* the cells of memory_
  widgets,     \* the settings CacheTab shows: l1, instruction, l2
  undo, redo,  \* the memory changes of the steps done and of those undone
  stored,      \* the addresses written since the program was loaded
  request,     \* history: the last operation but fetches, and its arguments
  reply        \* what it returned

caches == <<l1, instruction, l2>>
vars   == <<caches, mem, widgets, undo, redo, stored, request, reply>>

-----------------------------------------------------------------------------
(* MainMemory: its cells, and whether it has not thrown.  Sums of addresses *)
(* wrap around.                                                              *)

Sum(a, n) == (a + n) % AddressSpace

Throw(m) == [m EXCEPT !.ok = FALSE]

LineInRange(a, len) == Sum(a, len) <= MemSize

MemReadLine(m, a, len) ==
  IF LineInRange(a, len) THEN [n |-> m, data |-> [i \in 0 .. len - 1 |-> m.cell[a + i]]]
                         ELSE [n |-> Throw(m), data |-> <<>>]

Overwritten(cells, a, data) ==
  [b \in DOMAIN cells |-> IF b - a \in DOMAIN data THEN data[b - a] ELSE cells[b]]

Length(data) == Max({i + 1 : i \in DOMAIN data})

MemWriteLine(m, a, data) ==
  IF LineInRange(a, Length(data)) THEN [m EXCEPT !.cell = Overwritten(@, a, data)]
                                  ELSE Throw(m)

\* writeByte .. writeDoubleWord
OutOfRange(a, len) == a >= MemSize - (len - 1)

MemWrite(m, a, data) ==
  IF OutOfRange(a, Length(data)) THEN Throw(m) ELSE [m EXCEPT !.cell = Overwritten(@, a, data)]

MemOk(m) == m.ok

Lower == INSTANCE CacheLevel
           WITH NextReadLine <- MemReadLine, NextWriteLine <- MemWriteLine,
                NextWrite <- MemWrite, NextOk <- MemOk

-----------------------------------------------------------------------------
(* L2 as the device below L1 and the instruction cache.  A line longer than *)
(* those of L2 fails the assertion of readLine, and in writeLine it would   *)
(* be copied past the end of one: either ends the program.                  *)

TooLong(s, len) == len > s.c.cfg.size

L2ReadLine(s, a, len) ==
  IF TooLong(s, len) THEN [n |-> [s EXCEPT !.err = "oversized"], data |-> <<>>]
                     ELSE Lower!ReadLine(s, a, len)

L2WriteLine(s, a, data) ==
  IF TooLong(s, Length(data)) THEN [s EXCEPT !.err = "oversized"]
                              ELSE Lower!WriteLine(s, a, data, Length(data))

\* mutant: L1 writes through, but L2 does not take the bytes.
L2WriteDropped(s, a, data) == s

L2Write(s, a, data) == Lower!WriteGeneric(s, a, data, Length(data))

Upper == INSTANCE CacheLevel
           WITH NextReadLine <- L2ReadLine, NextWriteLine <- L2WriteLine,
                NextWrite <- L2Write, NextOk <- Lower!Ok

-----------------------------------------------------------------------------
(* The operations start from a record: of L2 with memory below it, or of a  *)
(* cache with that record below it.                                         *)

Quiet == [answer |-> 0, fails |-> "never"]

Over(c, n) == [c |-> c, n |-> n, err |-> "none", script |-> Quiet]

L2State          == Over(l2, [cell |-> mem, ok |-> TRUE])
DataState        == Over(l1, L2State)
InstructionState == Over(instruction, L2State)

\* The ways of a level in the order flush visits them.
WayOrder(c) ==
  [i \in 1 .. c.cfg.sets * c.cfg.ways |-> <<(i - 1) \div c.cfg.ways, (i - 1) % c.cfg.ways>>]

FlushLower(s) ==
  [FoldLeft(LAMBDA t, at : Lower!WriteBack(t, at[1], at[2]), s, WayOrder(s.c))
     EXCEPT !.c = Lower!Reset(@)]

FlushUpper(s) ==
  [FoldLeft(LAMBDA t, at : Upper!WriteBack(t, at[1], at[2]), s, WayOrder(s.c))
     EXCEPT !.c = Upper!Reset(@)]

ReconfigureLower(s, cfg) == Lower!Reconfigure(FlushLower(s), cfg)
ReconfigureUpper(s, cfg) == Upper!Reconfigure(FlushUpper(s), cfg)

\* readByte, one byte of an access after the other: a step records for undo and
\* redo what it finds.
Joined(data, got) ==
  [s |-> got.s, data |-> IF Upper!Ok(got.s) THEN Append(data, got.data[0]) ELSE <<>>]

ReadByte(r, a) ==
  IF ~Upper!Ok(r.s) THEN r
  ELSE IF OutOfRange(a, 1) THEN [r EXCEPT !.s.err = "range"]
  ELSE Joined(r.data, Upper!ReadGeneric(r.s, a, 1))

Bytes(acc) == [i \in 1 .. acc[2] |-> acc[1] + i - 1]

ReadBytes(s, acc) == FoldLeft(ReadByte, [s |-> s, data |-> <<>>], Bytes(acc))

\* writeByte, of the bytes a step delta holds.
WriteBytes(s, acc, data) ==
  FoldLeft(LAMBDA t, a : IF Upper!Ok(t) THEN Upper!WriteGeneric(t, a, [i \in {0} |-> data[a - acc[1]]], 1)
                                        ELSE t,
           s, Bytes(acc))

-----------------------------------------------------------------------------
(* Actions. *)

Running == reply.status # "oversized"

\* The outcome of an operation on a cache over L2 over memory.
Status(s) ==
  IF s.err # "none" THEN s.err
  ELSE IF s.n.err # "none" THEN s.n.err
  ELSE IF ~s.n.n.ok THEN "range" ELSE "ok"

Below(s) == l2' = s.n.c /\ mem' = s.n.n.cell

Reply(status, data) == reply' = [status |-> status, data |-> data]

Requested(asked) == request' = asked

\* An access of the program, or an undo or redo, leaves the state s.
FinishData(s, data) ==
  /\ l1' = s.c
  /\ Below(s)
  /\ Reply(Status(s), IF Status(s) = "ok" THEN data ELSE <<>>)
  /\ UNCHANGED <<instruction, widgets>>

FinishLoad(r) == FinishData(r.s, r.data) /\ UNCHANGED <<undo, redo, stored>>

\* memory_controller_.readByte .. readDoubleWord
Load(acc) ==
  /\ Running
  /\ ~OutOfRange(acc[1], acc[2])
  /\ Requested(<<"read", acc>>)
  /\ FinishLoad(Upper!ReadGeneric(DataState, acc[1], acc[2]))

RefuseLoad(acc) ==
  /\ Running
  /\ OutOfRange(acc[1], acc[2])
  /\ Requested(<<"read", acc>>)
  /\ Reply("range", <<>>)
  /\ UNCHANGED <<caches, mem, widgets, undo, redo, stored>>

FromZero(data) == [i \in 0 .. Len(data) - 1 |-> data[i + 1]]

Recent(stack) == SubSeq(stack, Max({1, Len(stack) - MaxHistory + 1}), Len(stack))

\* The rest of a store, once the bytes at acc have been read before and after it.
FinishStore(acc, old, new) ==
  /\ FinishData(new.s, <<>>)
  /\ IF Status(new.s) = "ok"
     THEN /\ undo' = IF old.data = new.data THEN undo
                     ELSE Recent(Append(undo, [acc |-> acc, old |-> FromZero(old.data),
                                                            new |-> FromZero(new.data)]))
          /\ redo' = <<>>
          /\ stored' = stored \cup (acc[1] .. acc[1] + acc[2] - 1)
     ELSE UNCHANGED <<undo, redo, stored>>

Written(s, acc, data) ==
  IF Upper!Ok(s) THEN Upper!WriteGeneric(s, acc[1], data, acc[2]) ELSE s

StoreAfter(acc, data, old) == FinishStore(acc, old, ReadBytes(Written(old.s, acc, data), acc))

\* A store reads the old bytes, writes, and reads the new ones; when they
\* differ the change is recorded.  A store that throws records nothing.
Store(acc, data) ==
  /\ Running
  /\ Requested(<<"write", acc, data>>)
  /\ StoreAfter(acc, data, ReadBytes(DataState, acc))

FinishFetch(a, s) ==
  /\ instruction' = s.c
  /\ Below(s)
  /\ IF Status(s) = "ok" THEN UNCHANGED <<request, reply>>
                         ELSE Requested(<<"read", <<a, 1>>>>) /\ Reply(Status(s), <<>>)
  /\ UNCHANGED <<l1, widgets, undo, redo, stored>>

\* readInstruction
Fetch(a) ==
  /\ Running
  /\ FinishFetch(a, Upper!ReadGeneric(InstructionState, a, 1).s)

\* The pipelined processors write the old bytes to memory.
UndoneBelowCaches(change) ==
  /\ mem' = Overwritten(mem, change.acc[1], change.old)
  /\ Reply("ok", <<>>)
  /\ UNCHANGED <<caches, widgets>>

Undone(change) ==
  IF UndoBypassesCaches THEN UndoneBelowCaches(change)
  ELSE FinishData(WriteBytes(DataState, change.acc, change.old), <<>>)

Undo ==
  /\ Running
  /\ undo # <<>>
  /\ Requested(<<"write", Last(undo).acc, Last(undo).old>>)
  /\ Undone(Last(undo))
  /\ undo' = Front(undo)
  /\ redo' = Append(redo, Last(undo))
  /\ UNCHANGED stored

Redo ==
  /\ Running
  /\ redo # <<>>
  /\ Requested(<<"write", Last(redo).acc, Last(redo).new>>)
  /\ FinishData(WriteBytes(DataState, Last(redo).acc, Last(redo).new), <<>>)
  /\ undo' = Recent(Append(undo, Last(redo)))
  /\ redo' = Front(redo)
  /\ UNCHANGED stored

-----------------------------------------------------------------------------
(* Settings and programs. *)

\* enforceL2AtLeastL1: the settings of L2 grow to those of the other two.
Larger(field, w) == Max({w.l1[field], w.instruction[field], w.l2[field]})

Enforced(w) ==
  [w EXCEPT !.l2.sets = Larger("sets", w), !.l2.ways = Larger("ways", w),
            !.l2.size = Larger("size", w)]

\* The user has changed the settings of an upper cache to those of w: L2
\* follows when they outgrow its settings, and then the cache itself.
Follow(w) == IF Enforced(w) = w THEN L2State ELSE ReconfigureLower(L2State, Enforced(w).l2)

\* An upper cache has been reconfigured, which leaves the state s.
FinishUpper(s, w) ==
  /\ Below(s)
  /\ widgets' = Enforced(w)
  /\ Requested(<<"manage">>)
  /\ Reply(Status(s), <<>>)
  /\ UNCHANGED <<undo, redo, stored>>

FinishL1(s, w)          == l1' = s.c /\ FinishUpper(s, w) /\ UNCHANGED instruction
FinishInstruction(s, w) == instruction' = s.c /\ FinishUpper(s, w) /\ UNCHANGED l1

WithL1(cfg)          == [widgets EXCEPT !.l1 = cfg]
WithInstruction(cfg) == [widgets EXCEPT !.instruction = cfg]

ReconfigureL1(cfg) ==
  /\ Running
  /\ FinishL1(ReconfigureUpper(Over(l1, Follow(WithL1(cfg))), cfg), WithL1(cfg))

ReconfigureInstruction(cfg) ==
  /\ Running
  /\ FinishInstruction(ReconfigureUpper(Over(instruction, Follow(WithInstruction(cfg))), cfg),
                       WithInstruction(cfg))

ReconfigureL2(cfg) ==
  LET s == ReconfigureLower(L2State, cfg)
  IN  /\ Running
      /\ l2' = s.c
      /\ mem' = s.n.cell
      /\ widgets' = [widgets EXCEPT !.l2 = cfg]
      /\ Requested(<<"manage">>)
      /\ Reply("ok", <<>>)
      /\ UNCHANGED <<l1, instruction, undo, redo, stored>>

Cleared == [a \in 0 .. AddressSpace - 1 |-> 0]

\* mutant: a reset leaves the instruction cache alone.
EmptiedButInstructions ==
  /\ l1' = Upper!Reset(l1)
  /\ l2' = Lower!Reset(l2)
  /\ UNCHANGED <<instruction, widgets>>

\* MemoryController::reset, and the step history in ProcessorManager::reset.
Emptied ==
  /\ l1' = Upper!Reset(l1)
  /\ instruction' = Upper!Reset(instruction)
  /\ l2' = Lower!Reset(l2)
  /\ UNCHANGED widgets

Fresh == undo' = <<>> /\ redo' = <<>> /\ stored' = {}

\* A stop, or a run whose program does not assemble.
ResetAll ==
  /\ Running
  /\ Emptied
  /\ mem' = Cleared
  /\ Fresh
  /\ Requested(<<"reset">>)
  /\ Reply("ok", <<>>)

\* tryParseAndLoadProgram: the reset and the direct writes of LoadProgram.
LoadProgram(image) ==
  /\ Running
  /\ Emptied
  /\ mem' = [a \in DOMAIN mem |-> IF a \in Addresses THEN image[a] ELSE 0]
  /\ Fresh
  /\ Requested(<<"load", image>>)
  /\ Reply("ok", <<>>)

\* changeProcessor: the new one has caches of its own, CacheTab its settings.
ChangeProcessor ==
  /\ Running
  /\ l1' = Upper!Setup(DefaultConfig)
  /\ instruction' = Upper!Setup(DefaultConfig)
  /\ l2' = Lower!Setup(DefaultConfig)
  /\ mem' = Cleared
  /\ Fresh
  /\ Requested(<<"reset">>)
  /\ Reply("ok", <<>>)
  /\ UNCHANGED widgets

Init ==
  /\ l1 = Upper!Setup(DefaultConfig)
  /\ instruction = Upper!Setup(DefaultConfig)
  /\ l2 = Lower!Setup(DefaultConfig)
  /\ mem = Cleared
  /\ widgets = [l1 |-> DefaultConfig, instruction |-> DefaultConfig, l2 |-> DefaultConfig]
  /\ undo = <<>> /\ redo = <<>> /\ stored = {}
  /\ request = <<"reset">>
  /\ reply = [status |-> "ok", data |-> <<>>]

Next ==
  \/ \E acc \in Accesses : Load(acc) \/ RefuseLoad(acc)
  \/ \E store \in Stores : Store(store[1], store[2])
  \/ \E a \in Code : Fetch(a)
  \/ Undo
  \/ Redo
  \/ \E cfg \in L1Configs : ReconfigureL1(cfg)
  \/ \E cfg \in InstructionConfigs : ReconfigureInstruction(cfg)
  \/ \E cfg \in L2Configs : ReconfigureL2(cfg)
  \/ ResetAll
  \/ \E image \in Images : LoadProgram(image)
  \/ ChangeProcessor

Spec == Init /\ [][Next]_vars

-----------------------------------------------------------------------------
(* Properties. *)

\* What a cell holds below L1 and the instruction cache, and what a load and
\* a fetch of it find.
SharedView(a) == IF Lower!Resident(l2, a) THEN Lower!Cell(l2, a) ELSE mem[a]
Through(c, a) == IF Upper!Resident(c, a) THEN Upper!Cell(c, a) ELSE SharedView(a)

View == [a \in Addresses |-> Through(l1, a)]

\* The hierarchy is invisible to loads and stores: a load returns the bytes of
\* the cells it asks for, a store, an undo and a redo change those they are
\* given to the bytes they are given, and nothing else does, at every address of the
\* default memory, whose last line ends at address 2^64 and is only accepted
\* because that sum wraps around, whatever the levels are configured to, and
\* across undo, redo, loading and changes of processor.
Flat == INSTANCE FlatMemory WITH mem <- View
ImplementsFlatMemory == Flat!Spec

\* The loader writes below the caches and the stores of a program never reach
\* the instruction cache; still a fetch finds what loads find, unless the
\* program has written over its own instruction.
FetchesWhatWasLoaded ==
  \A a \in Addresses \ stored : Through(instruction, a) = View[a]

\* After an undo a program reads the bytes of before the store:
\* "expectSnapshotsEqual(after_undo, before_step)".
UndoRestoresMemory ==
  [][Undo => View' = Overwritten(View, Last(undo).acc[1], Last(undo).old)]_vars

=============================================================================
