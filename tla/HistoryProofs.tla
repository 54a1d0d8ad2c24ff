--------------------------- MODULE HistoryProofs ----------------------------
(***************************************************************************)
(* Undo and redo lead along the line of states that was walked, for every  *)
(* ALU, every program and every number of steps, in the single-cycle       *)
(* processor and in the four pipelined ones.  First, what one delta takes  *)
(* back and does again; then, by an invariant that joins the deltas on     *)
(* both stacks to the states between them, the timeline.                   *)
(***************************************************************************)
EXTENDS StepHistory, PipelineProofs, SequenceTheorems

Back == INSTANCE FoldFacts WITH Op <- OldPut
On   == INSTANCE FoldFacts WITH Op <- NewPut

KeptType == [pc : Place, cycle : Int, retired : Int, stall : 0 .. 1,
             latches : IfIdType \X IdExType \X ExMemType \X MemWbType]

StateType == [kept : KeptType, gpr : [Register -> Word], fpr : [Register -> Word],
              mem : [Word -> Word]]

ChangeType == [place : {"gpr", "fpr", "mem"}, at : Register \cup Word, old : Word, new : Word]

DeltaType == [old : KeptType, new : KeptType, changes : Seq(ChangeType), decoded : 0 .. 3]

\* A change, or that there was none.
Optional == {c \in Seq(ChangeType) : c = <<>> \/ \E e \in ChangeType : c = <<e>>}

KeptOf(p, c, r, s, l) == [pc |-> p, cycle |-> c, retired |-> r, stall |-> s, latches |-> l]

Assembled(k, g, f, m) == [kept |-> k, gpr |-> g, fpr |-> f, mem |-> m]

\* What a state on the line is known to be: typed, with instructions of the
\* program and the links of jumps in the pipeline registers.
Sound(s) ==
  /\ s \in StateType /\ s.gpr[0] = 0
  /\ \A k \in 1 .. 4 : Known(s.kept.latches[k])
  /\ \A k \in {3, 4} :
       LET latch == s.kept.latches[k]
       IN latch.instr.op = "jalr" => latch.value = Link[latch.pc]

\* The same of the processor as it is now.
Machine ==
  /\ pc \in Place /\ stall \in 0 .. 1 /\ cycle \in Int /\ retired \in Int
  /\ if_id \in IfIdType /\ id_ex \in IdExType /\ ex_mem \in ExMemType /\ mem_wb \in MemWbType
  /\ gpr \in [Register -> Word] /\ fpr \in [Register -> Word] /\ mem \in [Word -> Word]
  /\ gpr[0] = 0
  /\ OfProgram /\ LinkKept

\* What stays, and the signal of the control unit.
Setting ==
  /\ program \in Programs /\ vm \in Vms \cup {"rvss"} /\ aluOp \in 0 .. 3
  /\ Undoable

\* A Step as a function of the state it is taken in, so that two steps can be compared: the
\* processors in the state s with the program p, the variant v and the signal a.
Staged(p, v, s, a) == INSTANCE Pipeline WITH
  program <- p, vm <- v, aluOp <- a, pc <- s.kept.pc, stall <- s.kept.stall,
  if_id <- s.kept.latches[1], id_ex <- s.kept.latches[2], ex_mem <- s.kept.latches[3],
  mem_wb <- s.kept.latches[4], gpr <- s.gpr, fpr <- s.fpr, mem <- s.mem

SingleIn(p, s) == INSTANCE SingleCycle WITH
  program <- p, pc <- s.kept.pc, gpr <- s.gpr, fpr <- s.fpr, mem <- s.mem

AfterPipelined(p, v, s, a) ==
  LET i == s.kept.latches[4].instr
      k == KeptOf(Staged(p, v, s, a)!NextPc, s.kept.cycle + 1,
                  IF RegWrite(i) /\ i.rd # 0 THEN s.kept.retired + 1 ELSE s.kept.retired,
                  Staged(p, v, s, a)!StallLeft,
                  <<Staged(p, v, s, a)!ToIfId, Staged(p, v, s, a)!ToIdEx,
                    Staged(p, v, s, a)!ToExMem, Staged(p, v, s, a)!ToMemWb>>)
  IN Assembled(k, Staged(p, v, s, a)!GprWritten, Staged(p, v, s, a)!FprWritten,
               Staged(p, v, s, a)!MemWritten)

AfterSingle(p, s) ==
  LET i == p[s.kept.pc]
      result == SingleIn(p, s)!Result(i)
      value == Written(i, s.kept.pc, result, s.mem)
      k == KeptOf(Successor(i, s.kept.pc, result), s.kept.cycle + 1, s.kept.retired + 1,
                  s.kept.stall, s.kept.latches)
  IN Assembled(k,
       IF WritesGpr(i) /\ i.rd # 0 THEN [s.gpr EXCEPT ![i.rd] = value] ELSE s.gpr,
       IF WritesFpr(i) THEN [s.fpr EXCEPT ![i.rd] = value] ELSE s.fpr,
       IF MemWrite(i) THEN [s.mem EXCEPT ![result] = SingleIn(p, s)!StoreData(i)] ELSE s.mem)

After == [x \in Programs \X (Vms \cup {"rvss"}) \X StateType \X (0 .. 3) |->
           IF x[2] = "rvss" THEN AfterSingle(x[1], x[3])
           ELSE AfterPipelined(x[1], x[2], x[3], x[4])]

\* Undo leads by d from t to s, and Redo back to t, and so does a Step with the signal at the time.
Joins(s, d, t) ==
  /\ s = Undone(t, d)
  /\ Repeatable => t = Redone(s, d) /\ t = After[<<program, vm, s, d.decoded>>]

\* A state with other registers, or another memory.
Replaced(s, place, f) ==
  CASE place = "gpr" -> Assembled(s.kept, f, s.fpr, s.mem)
    [] place = "fpr" -> Assembled(s.kept, s.gpr, f, s.mem)
    [] place = "mem" -> Assembled(s.kept, s.gpr, s.fpr, f)

\* One element of an array of words has been written.
Overwritten(S, f, at, value, w) ==
  f \in [S -> Word] /\ at \in S /\ w = [f EXCEPT ![at] = value]

\* A change is taken back, or done.
OneBack(s, c) == IF c = <<>> THEN s ELSE OldPut(s, c[1])
OneOn(s, c)   == IF c = <<>> THEN s ELSE NewPut(s, c[1])

-----------------------------------------------------------------------------
(* Lists of changes. *)

\* Taking back, and doing, a list of changes is a fold.
LEMMA BackIsFold ==
  ASSUME NEW base, NEW seq \in Seq(ChangeType)
  PROVE  FoldLeft(OldPut, base, seq) = Back!Folded(base, seq)
<1>1. DOMAIN seq = 1 .. Len(seq)
  OBVIOUS
<1> QED BY <1>1, Zenon DEF FoldLeft, MapThenFoldSet, Back!Folded, Back!Folds, Back!At,
                           Back!Latest, Max

\* And as FoldLeft does with what they do again.
LEMMA OnIsFold ==
  ASSUME NEW base, NEW seq \in Seq(ChangeType)
  PROVE  FoldLeft(NewPut, base, seq) = On!Folded(base, seq)
<1>1. DOMAIN seq = 1 .. Len(seq)
  OBVIOUS
<1> QED BY <1>1, Zenon DEF FoldLeft, MapThenFoldSet, On!Folded, On!Folds, On!At,
                           On!Latest, Max

\* A list of changes, one after another.
LEMMA ChangesBack ==
  ASSUME NEW c1 \in Optional, NEW c2 \in Optional, NEW c3 \in Optional, NEW base
  PROVE  /\ FoldLeft(OldPut, base, c1 \o c2) = OneBack(OneBack(base, c1), c2)
         /\ FoldLeft(OldPut, base, c1 \o c2 \o c3) =
              OneBack(OneBack(OneBack(base, c1), c2), c3)
<1>1. ASSUME NEW seq \in Seq(ChangeType), NEW opt \in Optional
      PROVE  /\ seq \o opt \in Seq(ChangeType)
             /\ Back!Folded(base, seq \o opt) = OneBack(Back!Folded(base, seq), opt)
  <2>1. opt = <<>> \/ \E e \in ChangeType : opt = <<e>>
    BY DEF Optional
  <2>2. /\ seq \o opt \in Seq(ChangeType)
        /\ Back!Folded(base, seq \o opt) =
             IF opt = <<>> THEN Back!Folded(base, seq) ELSE OldPut(Back!Folded(base, seq), opt[1])
    BY <2>1, Back!FoldedOptional
  <2> QED BY <2>2 DEF OneBack
<1>2. c1 \in Seq(ChangeType) /\ <<>> \in Seq(ChangeType) /\ <<>> \o c1 = c1
  BY DEF Optional
<1>3. Back!Folded(base, c1) = OneBack(base, c1)
  <2>1. Back!Folded(base, <<>>) = base
    BY Back!FoldedEmpty
  <2>2. Back!Folded(base, <<>> \o c1) = OneBack(Back!Folded(base, <<>>), c1)
    BY <1>1, <1>2
  <2> QED BY <1>2, <2>1, <2>2
<1>4. c1 \o c2 \in Seq(ChangeType) /\ Back!Folded(base, c1 \o c2) = OneBack(OneBack(base, c1), c2)
  BY <1>1, <1>2, <1>3
<1>5. /\ c1 \o c2 \o c3 \in Seq(ChangeType)
      /\ Back!Folded(base, c1 \o c2 \o c3) = OneBack(OneBack(OneBack(base, c1), c2), c3)
  <2>1. Back!Folded(base, c1 \o c2 \o c3) = OneBack(Back!Folded(base, c1 \o c2), c3)
    BY <1>1, <1>4
  <2>2. c1 \o c2 \o c3 \in Seq(ChangeType)
    BY <1>1, <1>4
  <2> QED BY <1>4, <2>1, <2>2
<1> QED BY <1>4, <1>5, BackIsFold

\* And of doing them again, from the first to the last.
LEMMA ChangesOn ==
  ASSUME NEW c1 \in Optional, NEW c2 \in Optional, NEW c3 \in Optional, NEW base
  PROVE  /\ c1 \o c2 \in Seq(ChangeType) /\ c1 \o c2 \o c3 \in Seq(ChangeType)
         /\ FoldLeft(NewPut, base, c1 \o c2) = OneOn(OneOn(base, c1), c2)
         /\ FoldLeft(NewPut, base, c1 \o c2 \o c3) =
              OneOn(OneOn(OneOn(base, c1), c2), c3)
<1>1. ASSUME NEW seq \in Seq(ChangeType), NEW opt \in Optional
      PROVE  /\ seq \o opt \in Seq(ChangeType)
             /\ On!Folded(base, seq \o opt) = OneOn(On!Folded(base, seq), opt)
  <2>1. opt = <<>> \/ \E e \in ChangeType : opt = <<e>>
    BY DEF Optional
  <2>2. /\ seq \o opt \in Seq(ChangeType)
        /\ On!Folded(base, seq \o opt) =
             IF opt = <<>> THEN On!Folded(base, seq) ELSE NewPut(On!Folded(base, seq), opt[1])
    BY <2>1, On!FoldedOptional
  <2> QED BY <2>2 DEF OneOn
<1>2. c1 \in Seq(ChangeType) /\ <<>> \in Seq(ChangeType) /\ <<>> \o c1 = c1
  BY DEF Optional
<1>3. On!Folded(base, c1) = OneOn(base, c1)
  <2>1. On!Folded(base, <<>>) = base
    BY On!FoldedEmpty
  <2>2. On!Folded(base, <<>> \o c1) = OneOn(On!Folded(base, <<>>), c1)
    BY <1>1, <1>2
  <2> QED BY <1>2, <2>1, <2>2
<1>4. c1 \o c2 \in Seq(ChangeType) /\ On!Folded(base, c1 \o c2) = OneOn(OneOn(base, c1), c2)
  BY <1>1, <1>2, <1>3
<1>5. /\ c1 \o c2 \o c3 \in Seq(ChangeType)
      /\ On!Folded(base, c1 \o c2 \o c3) = OneOn(OneOn(OneOn(base, c1), c2), c3)
  <2>1. On!Folded(base, c1 \o c2 \o c3) = OneOn(On!Folded(base, c1 \o c2), c3)
    BY <1>1, <1>4
  <2>2. c1 \o c2 \o c3 \in Seq(ChangeType)
    BY <1>1, <1>4
  <2> QED BY <1>4, <2>1, <2>2
<1> QED BY <1>4, <1>5, OnIsFold

\* Where an element of such a list is in the reverse.
LEMMA Mirrored ==
  ASSUME NEW p \in 0 .. 1, NEW q \in 0 .. 1, NEW r \in 0 .. 1, NEW k \in 1 .. p + q + r
  PROVE  LET j == p + q + r - k + 1
         IN /\ j \in 1 .. p + q + r
            /\ \/ k <= r /\ k = 1 /\ j > p + q /\ j - p - q = 1
               \/ k > r /\ k <= r + q /\ k - r = 1 /\ j > p /\ j <= p + q /\ j - p = 1
               \/ k > r + q /\ k - r - q = 1 /\ j <= p /\ j = 1
OBVIOUS

\* The reverse of a list of at most three changes.
LEMMA ChangesReversed ==
  ASSUME NEW c1 \in Optional, NEW c2 \in Optional, NEW c3 \in Optional
  PROVE  Reverse(c1 \o c2 \o c3) = c3 \o c2 \o c1
<1>1. /\ c1 = <<>> \/ \E e \in ChangeType : c1 = <<e>>
      /\ c2 = <<>> \/ \E e \in ChangeType : c2 = <<e>>
      /\ c3 = <<>> \/ \E e \in ChangeType : c3 = <<e>>
      /\ c1 \in Seq(ChangeType) /\ c2 \in Seq(ChangeType) /\ c3 \in Seq(ChangeType)
  BY DEF Optional
<1> DEFINE s == c1 \o c2 \o c3
           t == c3 \o c2 \o c1
<1>2. Len(c1) \in 0 .. 1 /\ Len(c2) \in 0 .. 1 /\ Len(c3) \in 0 .. 1
  BY <1>1
<1>3. PICK p \in 0 .. 1, q \in 0 .. 1, r \in 0 .. 1 : p = Len(c1) /\ q = Len(c2) /\ r = Len(c3)
  BY <1>2
<1>4. /\ s \in Seq(ChangeType) /\ t \in Seq(ChangeType)
      /\ Len(s) = p + q + r /\ Len(t) = p + q + r
  BY <1>1, <1>3
<1>5. ASSUME NEW k \in 1 .. p + q + r PROVE s[p + q + r - k + 1] = t[k]
  <2> DEFINE j == p + q + r - k + 1
  <2>1. \A m \in 1 .. p + q + r :
          /\ m <= p => s[m] = c1[m]
          /\ m > p /\ m <= p + q => s[m] = c2[m - p]
          /\ m > p + q => s[m] = c3[m - p - q]
    BY <1>1, <1>3
  <2>2. \A m \in 1 .. p + q + r :
          /\ m <= r => t[m] = c3[m]
          /\ m > r /\ m <= r + q => t[m] = c2[m - r]
          /\ m > r + q => t[m] = c1[m - r - q]
    BY <1>1, <1>3
  <2>3. /\ j \in 1 .. p + q + r
        /\ \/ k <= r /\ k = 1 /\ j > p + q /\ j - p - q = 1
           \/ k > r /\ k <= r + q /\ k - r = 1 /\ j > p /\ j <= p + q /\ j - p = 1
           \/ k > r + q /\ k - r - q = 1 /\ j <= p /\ j = 1
    BY Mirrored
  <2> HIDE DEF s, t, j
  <2>4. CASE k <= r /\ k = 1 /\ j > p + q /\ j - p - q = 1
    <3>1. s[j] = c3[1] /\ t[k] = c3[1]
      BY <2>1, <2>2, <2>3, <2>4
    <3> QED BY <3>1 DEF j
  <2>5. CASE k > r /\ k <= r + q /\ k - r = 1 /\ j > p /\ j <= p + q /\ j - p = 1
    <3>1. s[j] = c2[1] /\ t[k] = c2[1]
      BY <2>1, <2>2, <2>3, <2>5
    <3> QED BY <3>1 DEF j
  <2>6. CASE k > r + q /\ k - r - q = 1 /\ j <= p /\ j = 1
    <3>1. s[j] = c1[1] /\ t[k] = c1[1]
      BY <2>1, <2>2, <2>3, <2>6
    <3> QED BY <3>1 DEF j
  <2> QED BY <2>3, <2>4, <2>5, <2>6
<1> HIDE DEF s, t
<1>6. t = [k \in 1 .. p + q + r |-> t[k]]
  BY <1>4
<1>7. Reverse(s) = [k \in 1 .. p + q + r |-> s[p + q + r - k + 1]]
  BY <1>4 DEF Reverse
<1>8. Reverse(s) = t
  BY <1>5, <1>6, <1>7
<1> QED BY <1>8 DEF s, t

\* What one change takes back and does.
LEMMA ChangeBack ==
  ASSUME NEW s, NEW place, NEW at, NEW old, NEW new
  PROVE  /\ OneBack(s, Change(place, at, old, new)) =
              IF old = new THEN s ELSE Put(s, place, at, old)
         /\ OneOn(s, Change(place, at, old, new)) =
              IF old = new THEN s ELSE Put(s, place, at, new)
<1>1. CASE old = new
  BY <1>1 DEF OneBack, OneOn, Change
<1>2. CASE old # new
  <2> DEFINE c == [place |-> place, at |-> at, old |-> old, new |-> new]
  <2>1. Change(place, at, old, new) = <<c>> /\ <<c>> # <<>> /\ <<c>>[1] = c
    BY <1>2 DEF Change
  <2>2. c.place = place /\ c.at = at /\ c.old = old /\ c.new = new
    OBVIOUS
  <2> HIDE DEF c
  <2> QED BY <1>2, <2>1, <2>2 DEF OneBack, OneOn, OldPut, NewPut
<1> QED BY <1>1, <1>2

\* An empty list changes nothing.
LEMMA NothingBack ==
  ASSUME NEW s
  PROVE  OneBack(s, <<>>) = s /\ OneOn(s, <<>>) = s
BY DEF OneBack, OneOn

\* A change of words, and the absence of one, can be listed.
LEMMA ChangeListed ==
  ASSUME NEW place \in {"gpr", "fpr", "mem"}, NEW at \in Register \cup Word,
         NEW old \in Word, NEW new \in Word
  PROVE  Change(place, at, old, new) \in Optional
<1> DEFINE c == [place |-> place, at |-> at, old |-> old, new |-> new]
<1>1. c \in ChangeType
  BY DEF ChangeType
<1> HIDE DEF c
<1>2. <<c>> \in Optional /\ <<>> \in Optional
  BY <1>1 DEF Optional
<1> QED BY <1>2 DEF Change, c

\* A write is taken back, and done again, by the change that lists it; where the
\* write is already undone, or done, nothing more happens.
LEMMA ArrayBack ==
  ASSUME NEW s, NEW place \in {"gpr", "fpr", "mem"}, NEW S, NEW f, NEW at, NEW value, NEW w,
         Overwritten(S, f, at, value, w), place = "gpr" => at # 0, NEW h, h = f \/ h = w
  PROVE  /\ OneBack(Replaced(s, place, h), Change(place, at, f[at], value)) = Replaced(s, place, f)
         /\ OneOn(Replaced(s, place, h), Change(place, at, f[at], value)) = Replaced(s, place, w)
<1> DEFINE c == Change(place, at, f[at], value)
<1>1. f \in [S -> Word] /\ at \in S /\ w = [f EXCEPT ![at] = value]
  BY DEF Overwritten
<1>2. /\ [w EXCEPT ![at] = f[at]] = f /\ [f EXCEPT ![at] = f[at]] = f
      /\ [w EXCEPT ![at] = value] = w
  BY <1>1
<1>3. [h EXCEPT ![at] = f[at]] = f /\ [h EXCEPT ![at] = value] = w
  BY <1>1, <1>2
<1>4. f[at] = value => w = f
  BY <1>1, <1>2
<1>5. /\ OneBack(Replaced(s, place, h), c) =
           IF f[at] = value THEN Replaced(s, place, h)
           ELSE Put(Replaced(s, place, h), place, at, f[at])
      /\ OneOn(Replaced(s, place, h), c) =
           IF f[at] = value THEN Replaced(s, place, h)
           ELSE Put(Replaced(s, place, h), place, at, value)
  BY ChangeBack
<1>6. /\ Put(Replaced(s, place, h), place, at, f[at]) =
           Replaced(s, place, [h EXCEPT ![at] = f[at]])
      /\ Put(Replaced(s, place, h), place, at, value) =
           Replaced(s, place, [h EXCEPT ![at] = value])
  BY DEF Put, Replaced, Assembled
<1> QED BY <1>3, <1>4, <1>5, <1>6

-----------------------------------------------------------------------------
(* States. *)

\* The parts of the state of the processor.
LEMMA StateParts ==
  /\ State = Assembled(Kept, gpr, fpr, mem)
  /\ State.kept = Kept /\ State.gpr = gpr /\ State.fpr = fpr /\ State.mem = mem
  /\ Kept.pc = pc /\ Kept.cycle = cycle /\ Kept.retired = retired /\ Kept.stall = stall
  /\ Kept.latches = <<if_id, id_ex, ex_mem, mem_wb>>
BY DEF State, Kept, Assembled, latches

\* The same after a step.
LEMMA StatePartsNext ==
  (/\ State = Assembled(Kept, gpr, fpr, mem)
   /\ State.kept = Kept /\ State.gpr = gpr /\ State.fpr = fpr /\ State.mem = mem
   /\ Kept.pc = pc /\ Kept.cycle = cycle /\ Kept.retired = retired /\ Kept.stall = stall
   /\ Kept.latches = <<if_id, id_ex, ex_mem, mem_wb>>)'
BY StateParts, PTL

\* The processor is sound as a state on the line if it is as it is now.
LEMMA SoundState == Sound(State) <=> Machine
<1>1. /\ State.kept = Kept /\ State.gpr = gpr /\ State.fpr = fpr /\ State.mem = mem
      /\ Kept.latches = <<if_id, id_ex, ex_mem, mem_wb>>
  BY StateParts
<1>2. State \in StateType <=>
        /\ Kept \in KeptType
        /\ gpr \in [Register -> Word] /\ fpr \in [Register -> Word] /\ mem \in [Word -> Word]
  BY DEF State, StateType
<1>3. Kept \in KeptType <=>
        /\ pc \in Place /\ stall \in 0 .. 1 /\ cycle \in Int /\ retired \in Int
        /\ if_id \in IfIdType /\ id_ex \in IdExType /\ ex_mem \in ExMemType /\ mem_wb \in MemWbType
  BY DEF Kept, KeptType, latches
<1>4. (\A k \in 1 .. 4 : Known(Kept.latches[k])) <=> OfProgram
  BY <1>1 DEF OfProgram
<1>5. (\A k \in {3, 4} :
         LET latch == Kept.latches[k]
         IN latch.instr.op = "jalr" => latch.value = Link[latch.pc]) <=> LinkKept
  BY <1>1 DEF LinkKept
<1> QED BY <1>1, <1>2, <1>3, <1>4, <1>5 DEF Sound, Machine

\* The same after a step.
LEMMA SoundStateNext == (Sound(State) <=> Machine)'
BY SoundState, PTL

-----------------------------------------------------------------------------
(* A Step of the pipelined processors. *)

\* A Step of the pipelined processors leaves types and links as they should be.
LEMMA PipelinedMachine ==
  ASSUME Setting, Machine, StepPipelined
  PROVE  /\ TypeInv /\ Step /\ ~IsSingle
         /\ Machine'
<1>1. ~IsSingle /\ Step
  BY DEF StepPipelined
<1>2. TypeInv
  BY <1>1 DEF TypeInv, TypeOK, Machine, Setting, IsSingle, IfIdType, IdExType, ExMemType, MemWbType
<1>3. TypeInv'
  BY <1>1, <1>2, TypeNext
<1>4. LinkKept'
  BY <1>1, <1>2, StepState DEF Machine, LinkKept, ToExMem, ToMemWb, MemRead, LoadOps
<1>5. cycle' \in Int /\ retired' \in Int
  BY DEF StepPipelined, Machine
<1> QED BY <1>1, <1>2, <1>3, <1>4, <1>5
        DEF TypeInv, TypeOK, Machine, IfIdType, IdExType, ExMemType, MemWbType

\* Every instruction that retires is seen by one of the write-backs, but addw.
LEMMA RetiringOps ==
  ASSUME NEW i \in Instruction
  PROVE  /\ RegWrite(i) <=> WritesGpr(i) \/ WritesFpr(i) \/ i.op = "addw"
         /\ WritesFpr(i) => ~WritesGpr(i) /\ IsFloat(i)
         /\ i.op = "addw" => ~WritesGpr(i) /\ ~WritesFpr(i) /\ ~IsFloat(i)
<1>1. i.op \in Ops
  BY DEF Instruction
<1> QED BY <1>1 DEF Ops, RegWrite, WritesGpr, WritesFpr, IsFloat, FloatOps, LoadOps, StoreOps,
                    BranchOps, JumpOps

\* The undo of a jal that links nothing: what is written is what is listed.
LEMMA WrittenIsListed ==
  ASSUME Setting, Machine, ~IsSingle, WritesGpr(mem_wb.instr), mem_wb.instr.rd # 0
  PROVE  GprWritten = [gpr EXCEPT ![mem_wb.instr.rd] = mem_wb.value]
<1> DEFINE i == mem_wb.instr
<1>1. i.op = "jalr" => mem_wb.value = Link[mem_wb.pc]
  BY DEF Machine, LinkKept
<1>2. i.op # "jal"
  <2> SUFFICES ASSUME i.op = "jal" PROVE FALSE
    OBVIOUS
  <2>1. i # Nop
    BY DEF Nop
  <2>2. mem_wb.pc \in 0 .. Size - 1 /\ i = program[mem_wb.pc]
    BY <2>1 DEF Machine, OfProgram, Known
  <2>3. DOMAIN program = 0 .. Size - 1
    BY ProgramsAssumption DEF Setting
  <2> QED BY <2>2, <2>3 DEF Setting, Undoable
<1> QED BY <1>1, <1>2 DEF GprWritten, PutGpr, JumpOps

\* Where the write-back lists a register it does not write, the program is not
\* one whose steps can be repeated.
LEMMA NotRepeatable ==
  ASSUME Setting, Machine, ~IsSingle, WritesFpr(mem_wb.instr) \/ mem_wb.instr.op = "addw"
  PROVE  ~Repeatable
<1> DEFINE i == mem_wb.instr
<1>1. i # Nop
  BY NopIsBubble DEF Nop
<1>2. mem_wb.pc \in 0 .. Size - 1 /\ i = program[mem_wb.pc]
  BY <1>1 DEF Machine, OfProgram, Known
<1>3. DOMAIN program = 0 .. Size - 1
  BY ProgramsAssumption DEF Setting
<1> QED BY <1>2, <1>3 DEF Repeatable

\* The lists a Step makes, and what it makes of the registers and memory.
LEMMA PipelinedLists ==
  ASSUME Setting, Machine, StepPipelined
  PROVE  /\ IntegerChange \in Optional /\ FloatChange \in Optional /\ MemoryChange \in Optional
         /\ gpr' = GprWritten /\ fpr' = FprWritten /\ mem' = MemWritten
         /\ mem_wb.instr \in Instruction /\ mem_wb.instr.rd \in Register /\ mem_wb.value \in Word
         /\ gpr[mem_wb.instr.rd] \in Word /\ fpr[mem_wb.instr.rd] \in Word
         /\ ex_mem.value \in Word /\ ex_mem.store \in Word
<1>1. /\ TypeInv /\ Step
  BY PipelinedMachine
<1>2. gpr' = GprWritten /\ fpr' = FprWritten /\ mem' = MemWritten
  BY <1>1, StepState
<1>3. /\ mem_wb.instr \in Instruction /\ mem_wb.instr.rd \in Register /\ mem_wb.value \in Word
      /\ gpr[mem_wb.instr.rd] \in Word /\ fpr[mem_wb.instr.rd] \in Word
      /\ ex_mem.value \in Word /\ ex_mem.store \in Word
  BY DEF Machine, MemWbType, ExMemType, Instruction
<1>4. mem[ex_mem.value] \in Word /\ mem'[ex_mem.value] \in Word
  BY <1>1, <1>2, <1>3, MemoryType DEF Machine
<1>5. <<>> \in Optional
  BY DEF Optional
<1>6. IntegerChange \in Optional
  BY <1>3, <1>5, ChangeListed DEF IntegerChange
<1>7. FloatChange \in Optional
  BY <1>3, <1>5, ChangeListed DEF FloatChange
<1>8. MemoryChange \in Optional
  BY <1>3, <1>4, <1>5, ChangeListed DEF MemoryChange
<1> QED BY <1>2, <1>3, <1>6, <1>7, <1>8

\* The store is taken back and done again.
LEMMA StoreBack ==
  ASSUME Setting, Machine, StepPipelined, NEW k, NEW g, NEW f
  PROVE  /\ OneBack(Assembled(k, g, f, mem'), MemoryChange) = Assembled(k, g, f, mem)
         /\ OneOn(Assembled(k, g, f, mem), MemoryChange) = Assembled(k, g, f, mem')
<1> DEFINE v == ex_mem.value
<1>1. mem \in [Word -> Word] /\ v \in Word /\ mem' = MemWritten
  BY PipelinedLists DEF Machine
<1>2. CASE ~MemWrite(ex_mem.instr)
  <2>1. mem' = mem /\ MemoryChange = <<>>
    BY <1>1, <1>2 DEF MemWritten, MemoryChange
  <2> QED BY <2>1, NothingBack
<1>3. CASE MemWrite(ex_mem.instr)
  <2>1. mem' = [mem EXCEPT ![v] = ex_mem.store] /\ MemoryChange = Change("mem", v, mem[v], mem'[v])
    BY <1>1, <1>3 DEF MemWritten, MemoryChange
  <2>2. Overwritten(Word, mem, v, mem'[v], mem')
    BY <1>1, <2>1 DEF Overwritten
  <2>3. \A x : Assembled(k, g, f, x) = Replaced(Assembled(k, g, f, mem), "mem", x)
    BY DEF Replaced, Assembled
  <2> HIDE DEF v
  <2> QED BY <2>1, <2>2, <2>3, ArrayBack
<1> QED BY <1>2, <1>3

\* What write-back does to the registers is taken back and, when no more is
\* listed than was written, done again.
LEMMA RegistersBack ==
  ASSUME Setting, Machine, StepPipelined, NEW k, NEW m
  PROVE  /\ OneBack(OneBack(Assembled(k, gpr', fpr', m), FloatChange), IntegerChange) =
              Assembled(k, gpr, fpr, m)
         /\ Repeatable =>
              OneOn(OneOn(Assembled(k, gpr, fpr, m), IntegerChange), FloatChange) =
                Assembled(k, gpr', fpr', m)
<1> DEFINE i == mem_wb.instr
           v == mem_wb.value
           rd == mem_wb.instr.rd
           c == Change("gpr", rd, gpr[rd], v)
<1>1. /\ gpr \in [Register -> Word] /\ fpr \in [Register -> Word] /\ rd \in Register
      /\ gpr' = GprWritten /\ fpr' = FprWritten /\ i \in Instruction /\ ~IsSingle
  BY PipelinedLists, PipelinedMachine DEF Machine
<1>2. /\ RegWrite(i) <=> WritesGpr(i) \/ WritesFpr(i) \/ i.op = "addw"
      /\ WritesFpr(i) => ~WritesGpr(i) /\ IsFloat(i)
      /\ i.op = "addw" => ~WritesGpr(i) /\ ~WritesFpr(i) /\ ~IsFloat(i)
  BY <1>1, RetiringOps
<1>3. CASE ~Retires
  <2>1. rd = 0 \/ (~WritesGpr(i) /\ ~WritesFpr(i))
    BY <1>2, <1>3 DEF Retires
  <2>2. gpr' = gpr /\ fpr' = fpr
    BY <1>1, <2>1 DEF GprWritten, FprWritten
  <2>3. IntegerChange = <<>> /\ FloatChange = <<>>
    BY <1>3 DEF IntegerChange, FloatChange
  <2> QED BY <2>2, <2>3, NothingBack
<1>4. CASE Retires /\ WritesGpr(i)
  <2>1. gpr' = [gpr EXCEPT ![rd] = v] /\ fpr' = fpr /\ rd # 0
    BY <1>1, <1>2, <1>4, WrittenIsListed DEF FprWritten, Retires
  <2>2. IntegerChange = c /\ (FloatChange = c \/ FloatChange = <<>>)
    BY <1>2, <1>4 DEF IntegerChange, FloatChange
  <2>3. \A x : Assembled(k, x, fpr, m) = Replaced(Assembled(k, gpr, fpr, m), "gpr", x)
    BY DEF Replaced, Assembled
  <2>4. \A x \in {gpr, gpr'} : /\ OneBack(Assembled(k, x, fpr, m), c) = Assembled(k, gpr, fpr, m)
                               /\ OneOn(Assembled(k, x, fpr, m), c) = Assembled(k, gpr', fpr, m)
    <3>1. Overwritten(Register, gpr, rd, v, gpr')
      BY <1>1, <2>1 DEF Overwritten
    <3>2. rd # 0
      BY <2>1
    <3> HIDE DEF v, rd
    <3>3. ASSUME NEW x, x = gpr \/ x = gpr'
          PROVE  /\ OneBack(Replaced(Assembled(k, gpr, fpr, m), "gpr", x), c) =
                      Replaced(Assembled(k, gpr, fpr, m), "gpr", gpr)
                 /\ OneOn(Replaced(Assembled(k, gpr, fpr, m), "gpr", x), c) =
                      Replaced(Assembled(k, gpr, fpr, m), "gpr", gpr')
      BY <3>1, <3>2, <3>3, ArrayBack DEF c
    <3> HIDE DEF c
    <3> QED BY <2>3, <3>3
  <2> HIDE DEF c
  <2> QED BY <2>1, <2>2, <2>4, NothingBack
<1>5. CASE Retires /\ WritesFpr(i)
  <2> DEFINE e == Change("fpr", rd, fpr[rd], v)
  <2>1. fpr' = [fpr EXCEPT ![rd] = v] /\ gpr' = gpr /\ rd # 0
    BY <1>1, <1>2, <1>5 DEF GprWritten, FprWritten, Retires
  <2>2. IntegerChange = c /\ FloatChange = e
    BY <1>2, <1>5 DEF IntegerChange, FloatChange
  <2>3. /\ \A x : Assembled(k, x, fpr, m) = Replaced(Assembled(k, gpr, fpr, m), "gpr", x)
        /\ \A x : Assembled(k, gpr, x, m) = Replaced(Assembled(k, gpr, fpr, m), "fpr", x)
    BY DEF Replaced, Assembled
  <2>4. OneBack(Assembled(k, gpr, fpr', m), e) = Assembled(k, gpr, fpr, m)
    <3>1. Overwritten(Register, fpr, rd, v, fpr')
      BY <1>1, <2>1 DEF Overwritten
    <3> HIDE DEF v, rd
    <3> QED BY <2>1, <2>3, <3>1, ArrayBack DEF e
  <2>5. OneBack(Assembled(k, gpr, fpr, m), c) = Assembled(k, gpr, fpr, m)
    <3>1. Overwritten(Register, gpr, rd, v, [gpr EXCEPT ![rd] = v])
      BY <1>1 DEF Overwritten
    <3> HIDE DEF v, rd
    <3> QED BY <2>1, <2>3, <3>1, ArrayBack DEF c
  <2>6. ~Repeatable
    BY <1>1, <1>5, NotRepeatable
  <2> HIDE DEF c, e
  <2> QED BY <2>1, <2>2, <2>4, <2>5, <2>6
<1>6. CASE Retires /\ i.op = "addw"
  <2>1. fpr' = fpr /\ gpr' = gpr /\ rd # 0
    BY <1>1, <1>2, <1>6 DEF GprWritten, FprWritten, Retires
  <2>2. IntegerChange = c /\ FloatChange = <<>>
    BY <1>2, <1>6 DEF IntegerChange, FloatChange
  <2>3. \A x : Assembled(k, x, fpr, m) = Replaced(Assembled(k, gpr, fpr, m), "gpr", x)
    BY DEF Replaced, Assembled
  <2>4. OneBack(Assembled(k, gpr, fpr, m), c) = Assembled(k, gpr, fpr, m)
    <3>1. Overwritten(Register, gpr, rd, v, [gpr EXCEPT ![rd] = v])
      BY <1>1 DEF Overwritten
    <3> HIDE DEF v, rd
    <3> QED BY <2>1, <2>3, <3>1, ArrayBack DEF c
  <2>5. ~Repeatable
    BY <1>1, <1>6, NotRepeatable
  <2> HIDE DEF c
  <2> QED BY <2>1, <2>2, <2>4, <2>5, NothingBack
<1> QED BY <1>2, <1>3, <1>4, <1>5, <1>6 DEF Retires

\* What a Step records is typed.
LEMMA DeltaTyped ==
  ASSUME Setting, Machine, Machine', NEW changes \in Seq(ChangeType)
  PROVE  Delta(changes) \in DeltaType
<1>1. Kept \in KeptType
  BY SoundState, StateParts DEF Sound, StateType
<1>2. Kept' \in KeptType
  BY SoundStateNext, StatePartsNext DEF Sound, StateType
<1> QED BY <1>1, <1>2 DEF Delta, DeltaType, Setting

\* The operators of Instructions are the same in them.
LEMMA StagedInstructions ==
  ASSUME NEW p, NEW v, NEW s, NEW a, NEW i
  PROVE  /\ Staged(p, v, s, a)!IsFloat(i) = IsFloat(i)
         /\ Staged(p, v, s, a)!RegWrite(i) = RegWrite(i)
         /\ Staged(p, v, s, a)!MemRead(i) = MemRead(i)
         /\ Staged(p, v, s, a)!MemWrite(i) = MemWrite(i)
         /\ Staged(p, v, s, a)!AluSrc(i) = AluSrc(i)
         /\ Staged(p, v, s, a)!GprBase(i) = GprBase(i)
         /\ Staged(p, v, s, a)!WritesGpr(i) = WritesGpr(i)
         /\ Staged(p, v, s, a)!WritesFpr(i) = WritesFpr(i)
         /\ Staged(p, v, s, a)!Imm(i) = Imm(i)
         /\ \A op, x, y : Staged(p, v, s, a)!Compute(i, op, x, y) = Compute(i, op, x, y)
         /\ \A r : Staged(p, v, s, a)!Redirects(i, r) <=> Redirects(i, r)
         /\ \A q, r : Staged(p, v, s, a)!Successor(i, q, r) = Successor(i, q, r)
         /\ Staged(p, v, s, a)!JumpOps = JumpOps /\ Staged(p, v, s, a)!BranchOps = BranchOps
         /\ Staged(p, v, s, a)!Nop = Nop
<1>1. /\ Staged(p, v, s, a)!JumpOps = JumpOps /\ Staged(p, v, s, a)!BranchOps = BranchOps
      /\ Staged(p, v, s, a)!StoreOps = StoreOps /\ Staged(p, v, s, a)!LoadOps = LoadOps
      /\ Staged(p, v, s, a)!FloatOps = FloatOps /\ Staged(p, v, s, a)!Nop = Nop
  BY DEF Staged!JumpOps, JumpOps, Staged!BranchOps, BranchOps, Staged!StoreOps, StoreOps,
         Staged!LoadOps, LoadOps, Staged!FloatOps, FloatOps, Staged!Nop, Nop
<1>2. /\ Staged(p, v, s, a)!IsFloat(i) = IsFloat(i)
      /\ Staged(p, v, s, a)!RegWrite(i) = RegWrite(i)
      /\ Staged(p, v, s, a)!MemRead(i) = MemRead(i)
      /\ Staged(p, v, s, a)!MemWrite(i) = MemWrite(i)
      /\ Staged(p, v, s, a)!AluSrc(i) = AluSrc(i)
      /\ Staged(p, v, s, a)!GprBase(i) = GprBase(i)
      /\ Staged(p, v, s, a)!WritesGpr(i) = WritesGpr(i)
      /\ Staged(p, v, s, a)!WritesFpr(i) = WritesFpr(i)
  BY <1>1 DEF Staged!IsFloat, IsFloat, Staged!RegWrite, RegWrite, Staged!MemRead, MemRead,
     Staged!MemWrite, MemWrite, Staged!AluSrc, AluSrc, Staged!GprBase, GprBase,
     Staged!WritesGpr, WritesGpr, Staged!WritesFpr, WritesFpr
<1>3. Staged(p, v, s, a)!Imm(i) = Imm(i)
  BY <1>2 DEF Staged!Imm, Imm
<1>4. \A op : Staged(p, v, s, a)!GetAluSignal(op, i) = GetAluSignal(op, i)
  BY <1>1 DEF Staged!GetAluSignal, GetAluSignal
<1>5. \A op, x, y : Staged(p, v, s, a)!Compute(i, op, x, y) = Compute(i, op, x, y)
  BY <1>3, <1>4 DEF Staged!Compute, Compute
<1>6. \A r : Staged(p, v, s, a)!BranchTaken(i, r) <=> BranchTaken(i, r)
  BY DEF Staged!BranchTaken, BranchTaken
<1>7. \A r : Staged(p, v, s, a)!Redirects(i, r) <=> Redirects(i, r)
  BY <1>1, <1>6 DEF Staged!Redirects, Redirects
<1>8. \A q, r : Staged(p, v, s, a)!Successor(i, q, r) = Successor(i, q, r)
  BY <1>6 DEF Staged!Successor, Successor
<1> QED BY <1>1, <1>2, <1>3, <1>5, <1>7, <1>8

\* In the present state, what a Step computes is what it is there, whatever the signal
\* is set to, if it makes the ALU do the same.
LEMMA StagedNow ==
  ASSUME NEW p, NEW v, NEW s, NEW a, p = program, v = vm, s = State,
         GetAluSignal(a, Executing.instr) = GetAluSignal(aluOp, Executing.instr)
  PROVE  /\ Staged(p, v, s, a)!GprWritten = GprWritten
         /\ Staged(p, v, s, a)!FprWritten = FprWritten
         /\ Staged(p, v, s, a)!MemWritten = MemWritten
         /\ Staged(p, v, s, a)!ToMemWb = ToMemWb /\ Staged(p, v, s, a)!ToExMem = ToExMem
         /\ Staged(p, v, s, a)!ToIdEx = ToIdEx /\ Staged(p, v, s, a)!ToIfId = ToIfId
         /\ Staged(p, v, s, a)!StallLeft = StallLeft /\ Staged(p, v, s, a)!NextPc = NextPc
<1>1. /\ s.kept.pc = pc /\ s.kept.stall = stall /\ s.kept.latches = <<if_id, id_ex, ex_mem, mem_wb>>
      /\ s.gpr = gpr /\ s.fpr = fpr /\ s.mem = mem
  BY StateParts
<1>2. /\ s.kept.latches[1] = if_id /\ s.kept.latches[2] = id_ex
      /\ s.kept.latches[3] = ex_mem /\ s.kept.latches[4] = mem_wb
  BY <1>1
<1>3. /\ Staged(p, v, s, a)!JumpOps = JumpOps /\ Staged(p, v, s, a)!BranchOps = BranchOps
      /\ Staged(p, v, s, a)!Nop = Nop
  BY StagedInstructions
<1>4. /\ Staged(p, v, s, a)!EmptyIfId = EmptyIfId /\ Staged(p, v, s, a)!EmptyIdEx = EmptyIdEx
  BY <1>3 DEF Staged!EmptyIfId, EmptyIfId, Staged!EmptyIdEx, EmptyIdEx, Staged!NoPc, NoPc
<1>5. Staged(p, v, s, a)!GprWritten = GprWritten
  <2>1. \A i, q, x : Staged(p, v, s, a)!PutGpr(i, q, x) = PutGpr(i, q, x)
    BY <1>1, <1>3 DEF Staged!PutGpr, PutGpr
  <2> QED BY <1>1, <1>2, <2>1, StagedInstructions DEF Staged!GprWritten, GprWritten
<1>6. Staged(p, v, s, a)!FprWritten = FprWritten
  BY <1>1, <1>2, StagedInstructions DEF Staged!FprWritten, FprWritten
<1>7. Staged(p, v, s, a)!MemWritten = MemWritten
  BY <1>1, <1>2, StagedInstructions DEF Staged!MemWritten, MemWritten
<1>8. Staged(p, v, s, a)!ToMemWb = ToMemWb
  BY <1>1, <1>2, StagedInstructions DEF Staged!ToMemWb, ToMemWb
<1>9. /\ Staged(p, v, s, a)!BranchRedirects <=> BranchRedirects
      /\ Staged(p, v, s, a)!Executing = Executing
  <2>1. Staged(p, v, s, a)!BranchRedirects <=> BranchRedirects
    BY <1>2, <1>3 DEF Staged!BranchRedirects, BranchRedirects
  <2> QED BY <1>2, <1>4, <2>1 DEF Staged!Executing, Executing
<1>10. /\ Staged(p, v, s, a)!Forwards <=> Forwards
       /\ Staged(p, v, s, a)!Detects <=> Detects
  BY DEF Staged!Forwards, Forwards, Staged!Detects, Detects
<1>11. /\ \A i, r, f : Staged(p, v, s, a)!Holds(i, r, f) <=> Holds(i, r, f)
  BY StagedInstructions, Zenon DEF Staged!Holds, Holds
<1>12. \A r, f, x : Staged(p, v, s, a)!Forwarded(r, f, x) = Forwarded(r, f, x)
  BY <1>2, <1>10, <1>11 DEF Staged!Forwarded, Forwarded
<1>13. /\ Staged(p, v, s, a)!ForwardedA = ForwardedA
       /\ Staged(p, v, s, a)!ForwardedB = ForwardedB
  <2>1. Staged(p, v, s, a)!IsFloat(Executing.instr) = IsFloat(Executing.instr)
    BY StagedInstructions
  <2> QED BY <1>9, <1>12, <2>1 DEF Staged!ForwardedA, ForwardedA, Staged!ForwardedB, ForwardedB
<1>14. /\ Staged(p, v, s, a)!AluIn1 = AluIn1
       /\ Staged(p, v, s, a)!AluIn2 = AluIn2
  <2>1. Staged(p, v, s, a)!AluIn1 = AluIn1
    BY <1>5, <1>9, <1>13, StagedInstructions DEF Staged!AluIn1, AluIn1
  <2>2. Staged(p, v, s, a)!ImmediateLost <=> ImmediateLost
    BY <1>2, <1>9, <1>11 DEF Staged!ImmediateLost, ImmediateLost
  <2> QED BY <1>9, <1>13, <2>1, <2>2, StagedInstructions DEF Staged!AluIn2, AluIn2
<1>15. Staged(p, v, s, a)!AluResult = AluResult
  <2>1. \A i, x, y : Staged(p, v, s, a)!Compute(i, a, x, y) = Compute(i, a, x, y)
    BY StagedInstructions
  <2>2. Staged(p, v, s, a)!AluResult = Compute(Executing.instr, a, AluIn1, AluIn2)
    BY <1>9, <1>14, <2>1 DEF Staged!AluResult
  <2> QED BY <2>2 DEF AluResult, Compute
<1>16. /\ Staged(p, v, s, a)!Jumps <=> Jumps
       /\ Staged(p, v, s, a)!ToExMem = ToExMem
  <2>1. Staged(p, v, s, a)!Jumps <=> Jumps
    BY <1>3, <1>9 DEF Staged!Jumps, Jumps
  <2>2. \A i, r : Staged(p, v, s, a)!Redirects(i, r) <=> Redirects(i, r)
    BY StagedInstructions
  <2>3. Staged(p, v, s, a)!Redirects(Executing.instr, AluResult) = Redirects(Executing.instr, AluResult)
    BY <2>2 DEF Staged!Redirects, Redirects
  <2>4. Staged(p, v, s, a)!ToExMem = ToExMem
    BY <1>9, <1>13, <1>15, <2>3 DEF Staged!ToExMem, ToExMem
  <2> QED BY <2>1, <2>4
<1>17. /\ Staged(p, v, s, a)!PcRedirected = PcRedirected
       /\ Staged(p, v, s, a)!Decoding = Decoding
  <2>1. \A i, q, r : Staged(p, v, s, a)!Successor(i, q, r) = Successor(i, q, r)
    BY StagedInstructions
  <2> QED BY <1>1, <1>2, <1>4, <1>9, <1>15, <1>16, <2>1
       DEF Staged!PcRedirected, PcRedirected, Staged!Decoding, Decoding
<1>18. /\ Staged(p, v, s, a)!StallsNeeded = StallsNeeded
       /\ Staged(p, v, s, a)!Stalling <=> Stalling
  <2>1. \A i : Staged(p, v, s, a)!Clashes(i) <=> Clashes(i)
    <3> TAKE i
    <3>1. /\ Staged(p, v, s, a)!RegWrite(i) = RegWrite(i)
          /\ Staged(p, v, s, a)!IsFloat(i) = IsFloat(i)
      BY StagedInstructions
    <3> QED BY <1>17, <3>1
         DEF Staged!Clashes, Clashes, Staged!ClashesGpr, ClashesGpr, Staged!ClashesFpr, ClashesFpr
  <2>2. Staged(p, v, s, a)!StallsNeeded = StallsNeeded
    <3>1. Staged(p, v, s, a)!MemRead(Executing.instr) = MemRead(Executing.instr)
      BY StagedInstructions
    <3> QED BY <1>2, <1>9, <1>10, <1>16, <2>1, <3>1 DEF Staged!StallsNeeded, StallsNeeded
  <2>3. Staged(p, v, s, a)!Stalling <=> Stalling
    BY <1>1, <1>10, <2>2 DEF Staged!Stalling, Stalling
  <2> QED BY <2>2, <2>3
<1>19. Staged(p, v, s, a)!StallLeft = StallLeft
  BY <1>1, <1>18 DEF Staged!StallLeft, StallLeft
<1>20. Staged(p, v, s, a)!ToIdEx = ToIdEx
  <2>1. Staged(p, v, s, a)!IsFloat(Decoding.instr) = IsFloat(Decoding.instr)
    BY StagedInstructions
  <2> QED BY <1>3, <1>4, <1>5, <1>6, <1>17, <1>18, <2>1 DEF Staged!ToIdEx, ToIdEx
<1>21. Staged(p, v, s, a)!ToIfId = ToIfId
  BY <1>4, <1>17, <1>18 DEF Staged!ToIfId, ToIfId
<1>22. Staged(p, v, s, a)!NextPc = NextPc
  BY <1>1, <1>17, <1>18 DEF Staged!NextPc, NextPc
<1> QED BY <1>5, <1>6, <1>7, <1>8, <1>16, <1>19, <1>20, <1>21, <1>22

\* A Step of the pipelined processors leads there.
LEMMA StepsAfterPipelined ==
  ASSUME Setting, Machine, StepPipelined, NEW a \in 0 .. 3,
         GetAluSignal(a, Executing.instr) = GetAluSignal(aluOp, Executing.instr)
  PROVE  State' = After[<<program, vm, State, a>>]
<1>1. PICK p, v, s : p = program /\ v = vm /\ s = State
  OBVIOUS
<1>2. TypeInv /\ Step /\ ~IsSingle
  BY PipelinedMachine
<1>3. /\ gpr' = GprWritten /\ fpr' = FprWritten /\ mem' = MemWritten
      /\ mem_wb' = ToMemWb /\ ex_mem' = ToExMem /\ id_ex' = ToIdEx /\ if_id' = ToIfId
      /\ stall' = StallLeft /\ pc' = NextPc
  BY <1>2, StepState
<1>4. cycle' = cycle + 1 /\ retired' = IF Retires THEN retired + 1 ELSE retired
  BY DEF StepPipelined
<1>5. State' = Assembled(KeptOf(pc', cycle', retired', stall', <<if_id', id_ex', ex_mem', mem_wb'>>),
                         gpr', fpr', mem')
  BY StatePartsNext DEF Kept, KeptOf, latches
<1>6. s.kept.latches[4] = mem_wb /\ s.kept.cycle = cycle /\ s.kept.retired = retired
  BY <1>1, StateParts
<1>7. /\ Staged(p, v, s, a)!GprWritten = GprWritten
      /\ Staged(p, v, s, a)!FprWritten = FprWritten
      /\ Staged(p, v, s, a)!MemWritten = MemWritten
      /\ Staged(p, v, s, a)!ToMemWb = ToMemWb /\ Staged(p, v, s, a)!ToExMem = ToExMem
      /\ Staged(p, v, s, a)!ToIdEx = ToIdEx /\ Staged(p, v, s, a)!ToIfId = ToIfId
      /\ Staged(p, v, s, a)!StallLeft = StallLeft /\ Staged(p, v, s, a)!NextPc = NextPc
  BY <1>1, StagedNow
<1>8. AfterPipelined(p, v, s, a) = State'
  BY <1>3, <1>4, <1>5, <1>6, <1>7 DEF AfterPipelined, Retires
<1>9. State \in StateType
  BY SoundState DEF Sound
<1>10. After[<<p, v, s, a>>] = AfterPipelined(p, v, s, a)
  BY <1>1, <1>2, <1>9 DEF After, Setting, IsSingle
<1> QED BY <1>1, <1>8, <1>10

\* Its delta joins the state before a Step of a pipelined processor to the one after.
LEMMA PipelinedJoins ==
  ASSUME Setting, Machine, StepPipelined
  PROVE  LET d == Delta(IntegerChange \o FloatChange \o MemoryChange)
         IN d \in DeltaType /\ Joins(State, d, State')
<1> DEFINE changes == IntegerChange \o FloatChange \o MemoryChange
           d == Delta(changes)
<1>1. ~IsSingle /\ Machine'
  BY PipelinedMachine
<1>2. /\ IntegerChange \in Optional /\ FloatChange \in Optional /\ MemoryChange \in Optional
  BY PipelinedLists
<1>3. changes \in Seq(ChangeType) /\ d \in DeltaType
  BY <1>1, <1>2, ChangesOn, DeltaTyped
<1>4. d.old = Kept /\ d.new = Kept' /\ d.changes = changes /\ d.decoded = aluOp
  BY DEF Delta
<1>5. State = Assembled(Kept, gpr, fpr, mem) /\ State' = Assembled(Kept', gpr', fpr', mem')
  BY StateParts, StatePartsNext DEF Assembled
<1>6. State = Undone(State', d)
  <2>1. ChangesUndone(State', changes) =
          OneBack(OneBack(OneBack(State', MemoryChange), FloatChange), IntegerChange)
    <3>1. Reverse(changes) = MemoryChange \o FloatChange \o IntegerChange
      BY <1>2, ChangesReversed
    <3>2. ChangesUndone(State', changes) =
            FoldLeft(OldPut, State', MemoryChange \o FloatChange \o IntegerChange)
      BY <1>1, <3>1 DEF ChangesUndone
    <3>3. FoldLeft(OldPut, State', MemoryChange \o FloatChange \o IntegerChange) =
            OneBack(OneBack(OneBack(State', MemoryChange), FloatChange), IntegerChange)
      BY <1>2, ChangesBack
    <3> QED BY <3>2, <3>3
  <2>2. OneBack(State', MemoryChange) = Assembled(Kept', gpr', fpr', mem)
    BY <1>5, StoreBack
  <2>3. ChangesUndone(State', changes) = Assembled(Kept', gpr, fpr, mem)
    BY <2>1, <2>2, RegistersBack
  <2>4. Undone(State', d) = [ChangesUndone(State', changes) EXCEPT !.kept = Kept]
    BY <1>1, <1>4 DEF Undone
  <2> QED BY <1>5, <2>3, <2>4 DEF Assembled
<1>7. ASSUME Repeatable PROVE State' = Redone(State, d)
  <2>1. FoldLeft(NewPut, State, changes) =
          OneOn(OneOn(OneOn(State, IntegerChange), FloatChange), MemoryChange)
    BY <1>2, ChangesOn
  <2>2. OneOn(OneOn(State, IntegerChange), FloatChange) = Assembled(Kept, gpr', fpr', mem)
    BY <1>5, <1>7, RegistersBack
  <2>3. FoldLeft(NewPut, State, changes) = Assembled(Kept, gpr', fpr', mem')
    BY <2>1, <2>2, StoreBack
  <2>4. Redone(State, d) = [FoldLeft(NewPut, State, changes) EXCEPT !.kept = Kept']
    BY <1>1, <1>4 DEF Redone
  <2> QED BY <1>5, <2>3, <2>4 DEF Assembled
<1>8. State' = After[<<program, vm, State, d.decoded>>]
  <2>1. State' = After[<<program, vm, State, aluOp>>]
    BY StepsAfterPipelined DEF Setting
  <2> QED BY <1>4, <2>1
<1> QED BY <1>3, <1>6, <1>7, <1>8 DEF Joins

-----------------------------------------------------------------------------
(* A Step of the single-cycle processor. *)

\* The operators of Instructions are the same seen through Single.
LEMMA SingleInstructions ==
  ASSUME NEW i
  PROVE  /\ Single!WritesGpr(i) = WritesGpr(i) /\ Single!WritesFpr(i) = WritesFpr(i)
         /\ Single!MemWrite(i) = MemWrite(i) /\ Single!IsFloat(i) = IsFloat(i)
         /\ \A op, x, y : Single!Compute(i, op, x, y) = Compute(i, op, x, y)
         /\ \A place, result, memory :
              Single!Written(i, place, result, memory) = Written(i, place, result, memory)
         /\ \A place, result : Single!Successor(i, place, result) = Successor(i, place, result)
         /\ Single!Imm(i) = Imm(i)
<1>1. /\ Single!WritesGpr(i) = WritesGpr(i) /\ Single!WritesFpr(i) = WritesFpr(i)
      /\ Single!MemWrite(i) = MemWrite(i) /\ Single!IsFloat(i) = IsFloat(i)
  BY DEF Single!WritesGpr, WritesGpr, Single!WritesFpr, WritesFpr, Single!MemWrite, MemWrite,
         Single!IsFloat, IsFloat, Single!JumpOps, JumpOps, Single!StoreOps, StoreOps,
         Single!FloatOps, FloatOps
<1>2. Single!Imm(i) = Imm(i)
  BY <1>1 DEF Single!Imm, Imm
<1>3. \A op : Single!GetAluSignal(op, i) = GetAluSignal(op, i)
  BY DEF Single!GetAluSignal, GetAluSignal, Single!BranchOps, BranchOps
<1>4. \A op, x, y : Single!Compute(i, op, x, y) = Compute(i, op, x, y)
  BY <1>2, <1>3 DEF Single!Compute, Compute
<1>5. \A place, result, memory :
        Single!Written(i, place, result, memory) = Written(i, place, result, memory)
  BY DEF Single!Written, Written, Single!JumpOps, JumpOps, Single!MemRead, MemRead,
         Single!LoadOps, LoadOps
<1>6. \A place, result : Single!Successor(i, place, result) = Successor(i, place, result)
  BY DEF Single!Successor, Successor, Single!BranchTaken, BranchTaken
<1> QED BY <1>1, <1>2, <1>4, <1>5, <1>6

\* What a Step reads and writes are words, and leads to a place.
LEMMA SingleEffect ==
  ASSUME Setting, Machine, StepSingle
  PROVE  LET i == program[pc]
             value == Single!Written(i, pc, Single!Result(i), mem)
         IN /\ i \in Instruction /\ i.rd \in Register /\ value \in Word
            /\ Single!Result(i) \in Word /\ Single!StoreData(i) \in Word
            /\ gpr' = IF WritesGpr(i) /\ i.rd # 0 THEN [gpr EXCEPT ![i.rd] = value] ELSE gpr
            /\ fpr' = IF WritesFpr(i) THEN [fpr EXCEPT ![i.rd] = value] ELSE fpr
            /\ mem' = IF MemWrite(i) THEN [mem EXCEPT ![Single!Result(i)] = Single!StoreData(i)]
                                     ELSE mem
            /\ pc' \in Place
<1> DEFINE i == program[pc]
           result == Single!Result(i)
           value == Single!Written(i, pc, result, mem)
<1>1. /\ pc \in 0 .. Size - 1 /\ Size \in Nat /\ Single!Effect(i)
      /\ pc' = Single!Successor(i, pc, result)
  BY SizeAssumption DEF StepSingle, Single!Step, Machine, Place
<1>2. i \in Instruction
  BY <1>1, ProgramsAssumption DEF Setting
<1>3. i.rd \in Register /\ i.rs1 \in Register /\ i.rs2 \in Register /\ i.to \in Place
  BY <1>2 DEF Instruction
<1>4. /\ gpr \in [Register -> Word] /\ fpr \in [Register -> Word] /\ mem \in [Word -> Word]
  BY DEF Machine
<1>5. Single!StoreData(i) \in Word /\ Single!OperandA(i) \in Word
  BY <1>3, <1>4 DEF Single!StoreData, Single!OperandA
<1>6. Single!OperandB(i) \in Word
  <2>1. Imm(i) \in Word
    BY <1>3, AddressAssumption DEF Imm
  <2> QED BY <1>5, <2>1, SingleInstructions DEF Single!OperandB
<1>7. result \in Word
  <2>1. Single!Compute(i, Single!AluOp(i), Single!OperandA(i), Single!OperandB(i)) =
          Compute(i, Single!AluOp(i), Single!OperandA(i), Single!OperandB(i))
    BY SingleInstructions
  <2>2. Compute(i, Single!AluOp(i), Single!OperandA(i), Single!OperandB(i)) \in Word
    BY <1>2, <1>5, <1>6, ComputeType
  <2> QED BY <2>1, <2>2 DEF Single!Result
<1> HIDE DEF result
<1>8. value \in Word
  <2>1. value = Written(i, pc, result, mem)
    BY SingleInstructions
  <2>2. Link[pc] \in Word /\ mem[result] \in Word
    BY <1>1, <1>4, <1>7, AddressAssumption DEF Place
  <2> HIDE DEF value
  <2> QED BY <1>7, <2>1, <2>2 DEF Written
<1>9. pc' \in Place
  <2>1. pc' = Successor(i, pc, result)
    BY <1>1, SingleInstructions
  <2>2. JumpTo[result] \in Place /\ pc + 1 \in Place
    BY <1>1, <1>7, AddressAssumption DEF Place
  <2> QED BY <1>3, <2>1, <2>2 DEF Successor
<1>10. /\ gpr' = IF WritesGpr(i) /\ i.rd # 0 THEN [gpr EXCEPT ![i.rd] = value] ELSE gpr
       /\ fpr' = IF WritesFpr(i) THEN [fpr EXCEPT ![i.rd] = value] ELSE fpr
       /\ mem' = IF MemWrite(i) THEN [mem EXCEPT ![result] = Single!StoreData(i)] ELSE mem
  <2>1. /\ Single!WritesGpr(i) = WritesGpr(i) /\ Single!WritesFpr(i) = WritesFpr(i)
        /\ Single!MemWrite(i) = MemWrite(i)
    BY SingleInstructions
  <2> QED BY <1>1, <2>1 DEF Single!Effect, result
<1> QED BY <1>2, <1>3, <1>5, <1>7, <1>8, <1>9, <1>10 DEF result

\* So that the machine stays typed.
LEMMA SingleMachine ==
  ASSUME Setting, Machine, StepSingle
  PROVE  Machine'
<1> DEFINE i == program[pc]
           value == Single!Written(i, pc, Single!Result(i), mem)
<1>1. /\ i.rd \in Register /\ value \in Word
      /\ Single!Result(i) \in Word /\ Single!StoreData(i) \in Word
      /\ gpr' = IF WritesGpr(i) /\ i.rd # 0 THEN [gpr EXCEPT ![i.rd] = value] ELSE gpr
      /\ fpr' = IF WritesFpr(i) THEN [fpr EXCEPT ![i.rd] = value] ELSE fpr
      /\ mem' = IF MemWrite(i) THEN [mem EXCEPT ![Single!Result(i)] = Single!StoreData(i)] ELSE mem
      /\ pc' \in Place
  BY SingleEffect
<1> HIDE DEF i, value
<1>2. gpr \in [Register -> Word] /\ fpr \in [Register -> Word] /\ mem \in [Word -> Word] /\ gpr[0] = 0
  BY DEF Machine
<1>3. gpr' \in [Register -> Word] /\ fpr' \in [Register -> Word] /\ mem' \in [Word -> Word] /\ gpr'[0] = 0
  BY <1>1, <1>2
<1>4. /\ cycle' = cycle + 1 /\ retired' = retired + 1 /\ stall' = stall /\ program' = program
      /\ if_id' = if_id /\ id_ex' = id_ex /\ ex_mem' = ex_mem /\ mem_wb' = mem_wb
  BY DEF StepSingle, Single!Step, latches
<1>5. OfProgram' /\ LinkKept'
  BY <1>4 DEF Machine, OfProgram, Known, LinkKept
<1> QED BY <1>1, <1>3, <1>4, <1>5 DEF Machine

\* The counters of a record that is kept.
LEMMA Counting ==
  ASSUME NEW p, NEW c, NEW r, NEW s, NEW l, NEW d
  PROVE  /\ CountedBack(KeptOf(p, c, r, s, l), d) = KeptOf(d.old.pc, c - 1, r - 1, s, l)
         /\ CountedOn(KeptOf(p, c, r, s, l), d) = KeptOf(d.new.pc, c + 1, r + 1, s, l)
<1> DEFINE kept == [pc |-> p, cycle |-> c, retired |-> r, stall |-> s, latches |-> l]
           Moved(q) == [pc |-> q, cycle |-> c, retired |-> r, stall |-> s, latches |-> l]
<1>1. \A q : [kept EXCEPT !.pc = q] = Moved(q)
  OBVIOUS
<1>2. \A q, x : [Moved(q) EXCEPT !.cycle = x] =
                [pc |-> q, cycle |-> x, retired |-> r, stall |-> s, latches |-> l]
  OBVIOUS
<1>3. \A q, x, y : [[pc |-> q, cycle |-> x, retired |-> r, stall |-> s, latches |-> l]
                     EXCEPT !.retired = y] =
                   [pc |-> q, cycle |-> x, retired |-> y, stall |-> s, latches |-> l]
  OBVIOUS
<1>4. ASSUME NEW q, NEW x, NEW y
      PROVE  [kept EXCEPT !.pc = q, !.cycle = x, !.retired = y] =
               [pc |-> q, cycle |-> x, retired |-> y, stall |-> s, latches |-> l]
  <2> DEFINE a == [kept EXCEPT !.pc = q]
             b == [a EXCEPT !.cycle = x]
  <2>1. [kept EXCEPT !.pc = q, !.cycle = x, !.retired = y] = [b EXCEPT !.retired = y]
    OBVIOUS
  <2>2. a = Moved(q)
    BY <1>1
  <2> HIDE DEF a
  <2>3. b = [pc |-> q, cycle |-> x, retired |-> r, stall |-> s, latches |-> l]
    BY <1>2, <2>2
  <2> HIDE DEF b
  <2> QED BY <1>3, <2>1, <2>3
<1>5. CountedBack(kept, d) = [kept EXCEPT !.pc = d.old.pc, !.cycle = c - 1, !.retired = r - 1]
  BY DEF CountedBack
<1>6. CountedOn(kept, d) = [kept EXCEPT !.pc = d.new.pc, !.cycle = c + 1, !.retired = r + 1]
  BY DEF CountedOn
<1> HIDE DEF kept
<1>7. /\ CountedBack(kept, d) = [pc |-> d.old.pc, cycle |-> c - 1, retired |-> r - 1,
                                 stall |-> s, latches |-> l]
      /\ CountedOn(kept, d) = [pc |-> d.new.pc, cycle |-> c + 1, retired |-> r + 1,
                               stall |-> s, latches |-> l]
  BY <1>4, <1>5, <1>6
<1> QED BY <1>7 DEF kept, KeptOf

\* And one of the single-cycle processor, whatever the signal is set to.
LEMMA StepsAfterSingle ==
  ASSUME Setting, Machine, StepSingle, NEW a \in 0 .. 3
  PROVE  State' = After[<<program, vm, State, a>>]
<1>1. PICK p, s : p = program /\ s = State
  OBVIOUS
<1> DEFINE i == program[pc]
           result == Single!Result(i)
           value == Single!Written(i, pc, result, mem)
<1>2. /\ gpr' = IF WritesGpr(i) /\ i.rd # 0 THEN [gpr EXCEPT ![i.rd] = value] ELSE gpr
      /\ fpr' = IF WritesFpr(i) THEN [fpr EXCEPT ![i.rd] = value] ELSE fpr
      /\ mem' = IF MemWrite(i) THEN [mem EXCEPT ![result] = Single!StoreData(i)] ELSE mem
  BY SingleEffect
<1>3. value = Written(i, pc, result, mem) /\ pc' = Successor(i, pc, result)
  BY SingleInstructions DEF StepSingle, Single!Step
<1>4. /\ cycle' = cycle + 1 /\ retired' = retired + 1
      /\ stall' = stall /\ latches' = latches /\ IsSingle
  BY DEF StepSingle
<1>5. State' = Assembled(KeptOf(pc', cycle', retired', stall', latches'), gpr', fpr', mem')
  BY StatePartsNext DEF Kept, KeptOf, latches
<1>6. /\ s.kept.pc = pc /\ s.kept.cycle = cycle /\ s.kept.retired = retired
      /\ s.kept.stall = stall /\ s.kept.latches = latches
      /\ s.gpr = gpr /\ s.fpr = fpr /\ s.mem = mem
  BY <1>1, StateParts DEF latches
<1>7. SingleIn(p, s)!Result(i) = result /\ SingleIn(p, s)!StoreData(i) = Single!StoreData(i)
  <2>1. /\ SingleIn(p, s)!FloatOps = Single!FloatOps /\ SingleIn(p, s)!LoadOps = Single!LoadOps
        /\ SingleIn(p, s)!StoreOps = Single!StoreOps /\ SingleIn(p, s)!BranchOps = Single!BranchOps
    BY DEF SingleIn!FloatOps, Single!FloatOps, SingleIn!LoadOps, Single!LoadOps,
           SingleIn!StoreOps, Single!StoreOps, SingleIn!BranchOps, Single!BranchOps
  <2>2. /\ SingleIn(p, s)!IsFloat(i) <=> Single!IsFloat(i)
        /\ SingleIn(p, s)!GprBase(i) <=> Single!GprBase(i)
        /\ SingleIn(p, s)!AluSrc(i) <=> Single!AluSrc(i)
        /\ SingleIn(p, s)!MemWrite(i) <=> Single!MemWrite(i)
    BY <2>1 DEF SingleIn!IsFloat, Single!IsFloat, SingleIn!GprBase, Single!GprBase,
       SingleIn!AluSrc, Single!AluSrc, SingleIn!MemWrite, Single!MemWrite
  <2>3. SingleIn(p, s)!StoreData(i) = Single!StoreData(i)
    BY <1>6, <2>2 DEF SingleIn!StoreData, Single!StoreData
  <2>4. SingleIn(p, s)!OperandA(i) = Single!OperandA(i)
    BY <1>6, <2>2 DEF SingleIn!OperandA, Single!OperandA
  <2>5. SingleIn(p, s)!Imm(i) = Single!Imm(i)
    BY <2>2 DEF SingleIn!Imm, Single!Imm
  <2>6. SingleIn(p, s)!OperandB(i) = Single!OperandB(i)
    BY <2>2, <2>3, <2>5 DEF SingleIn!OperandB, Single!OperandB
  <2>7. SingleIn(p, s)!AluOp(i) = Single!AluOp(i)
    BY <2>1 DEF SingleIn!AluOp, Single!AluOp
  <2>8. \A op : SingleIn(p, s)!GetAluSignal(op, i) = Single!GetAluSignal(op, i)
    BY <2>1 DEF SingleIn!GetAluSignal, Single!GetAluSignal
  <2> QED BY <2>3, <2>4, <2>5, <2>6, <2>7, <2>8
       DEF SingleIn!Result, Single!Result, SingleIn!Compute, Single!Compute, result
<1> HIDE DEF i, result, value
<1>8. p[s.kept.pc] = i
  BY <1>1, <1>6 DEF i
<1>9. AfterSingle(p, s) = State'
  BY <1>2, <1>3, <1>4, <1>5, <1>6, <1>7, <1>8 DEF AfterSingle
<1>10. State \in StateType
  BY SoundState DEF Sound
<1>11. After[<<p, vm, s, a>>] = AfterSingle(p, s)
  BY <1>1, <1>4, <1>10 DEF After, Setting, IsSingle
<1> QED BY <1>1, <1>9, <1>11

\* Its delta joins the state before a Step of the single-cycle processor to the one after.
LEMMA SingleJoins ==
  ASSUME Setting, Machine, StepSingle
  PROVE  LET d == Delta(SingleChanges(program[pc]))
         IN d \in DeltaType /\ Joins(State, d, State')
<1> DEFINE i == program[pc]
           value == Single!Written(i, pc, Single!Result(i), mem)
           at == Single!Result(i)
           c1 == IF IsFloat(i) /\ WritesFpr(i) THEN Change("fpr", i.rd, fpr[i.rd], fpr'[i.rd])
                 ELSE Change("gpr", i.rd, gpr[i.rd], gpr'[i.rd])
           c2 == IF MemWrite(i) THEN Change("mem", at, mem[at], mem'[at]) ELSE <<>>
           d == Delta(SingleChanges(i))
<1>1. /\ i \in Instruction /\ i.rd \in Register /\ value \in Word
      /\ at \in Word /\ Single!StoreData(i) \in Word
      /\ gpr' = IF WritesGpr(i) /\ i.rd # 0 THEN [gpr EXCEPT ![i.rd] = value] ELSE gpr
      /\ fpr' = IF WritesFpr(i) THEN [fpr EXCEPT ![i.rd] = value] ELSE fpr
      /\ mem' = IF MemWrite(i) THEN [mem EXCEPT ![at] = Single!StoreData(i)] ELSE mem
  BY SingleEffect
<1>2. Machine'
  BY SingleMachine
<1>3. /\ gpr \in [Register -> Word] /\ fpr \in [Register -> Word] /\ mem \in [Word -> Word]
      /\ gpr' \in [Register -> Word] /\ fpr' \in [Register -> Word] /\ mem' \in [Word -> Word]
  BY <1>2 DEF Machine
<1>4. /\ IsSingle /\ cycle' = cycle + 1 /\ retired' = retired + 1 /\ stall' = stall
      /\ if_id' = if_id /\ id_ex' = id_ex /\ ex_mem' = ex_mem /\ mem_wb' = mem_wb
      /\ cycle \in Int /\ retired \in Int
  BY DEF StepSingle, latches, Machine
<1>5. SingleChanges(i) = c1 \o c2
  BY DEF SingleChanges
<1> HIDE DEF i, value, at
<1>6. c1 \in Optional /\ c2 \in Optional
  <2>1. <<>> \in Optional
    BY DEF Optional
  <2>2. /\ gpr[i.rd] \in Word /\ gpr'[i.rd] \in Word /\ fpr[i.rd] \in Word /\ fpr'[i.rd] \in Word
        /\ mem[at] \in Word /\ mem'[at] \in Word
    BY <1>1, <1>3
  <2> QED BY <1>1, <2>1, <2>2, ChangeListed
<1>7. ASSUME NEW k, NEW m
      PROVE  /\ OneBack(Assembled(k, gpr', fpr', m), c1) = Assembled(k, gpr, fpr, m)
             /\ OneOn(Assembled(k, gpr, fpr, m), c1) = Assembled(k, gpr', fpr', m)
  <2>1. WritesFpr(i) => ~WritesGpr(i) /\ IsFloat(i)
    BY <1>1, RetiringOps
  <2>2. CASE WritesFpr(i)
    <3>1. gpr' = gpr /\ c1 = Change("fpr", i.rd, fpr[i.rd], fpr'[i.rd])
      BY <1>1, <2>1, <2>2
    <3>2. Overwritten(Register, fpr, i.rd, fpr'[i.rd], fpr')
      BY <1>1, <1>3, <2>2 DEF Overwritten
    <3>3. \A x : Assembled(k, gpr, x, m) = Replaced(Assembled(k, gpr, fpr, m), "fpr", x)
      BY DEF Replaced, Assembled
    <3> HIDE DEF c1
    <3> QED BY <3>1, <3>2, <3>3, ArrayBack
  <2>3. CASE ~WritesFpr(i) /\ i.rd # 0
    <3>1. fpr' = fpr /\ c1 = Change("gpr", i.rd, gpr[i.rd], gpr'[i.rd])
      BY <1>1, <2>3
    <3>2. Overwritten(Register, gpr, i.rd, gpr'[i.rd], gpr')
      BY <1>1, <1>3, <2>3 DEF Overwritten
    <3>3. \A x : Assembled(k, x, fpr, m) = Replaced(Assembled(k, gpr, fpr, m), "gpr", x)
      BY DEF Replaced, Assembled
    <3> HIDE DEF c1
    <3> QED BY <2>3, <3>1, <3>2, <3>3, ArrayBack
  <2>4. CASE ~WritesFpr(i) /\ i.rd = 0
    <3>1. gpr' = gpr /\ fpr' = fpr
      BY <1>1, <2>4
    <3>2. c1 = <<>>
      BY <2>4, <3>1 DEF Change
    <3> HIDE DEF c1
    <3> QED BY <3>1, <3>2, NothingBack
  <2> QED BY <2>2, <2>3, <2>4
<1>8. ASSUME NEW k
      PROVE  /\ OneBack(Assembled(k, gpr, fpr, mem'), c2) = Assembled(k, gpr, fpr, mem)
             /\ OneOn(Assembled(k, gpr', fpr', mem), c2) = Assembled(k, gpr', fpr', mem')
  <2>1. CASE MemWrite(i)
    <3>1. c2 = Change("mem", at, mem[at], mem'[at])
      BY <2>1
    <3>2. Overwritten(Word, mem, at, mem'[at], mem')
      BY <1>1, <1>3, <2>1 DEF Overwritten
    <3>3. \A g, f, x : Assembled(k, g, f, x) = Replaced(Assembled(k, g, f, mem), "mem", x)
      BY DEF Replaced, Assembled
    <3> HIDE DEF c2
    <3>4. /\ OneBack(Replaced(Assembled(k, gpr, fpr, mem), "mem", mem'), c2) =
               Replaced(Assembled(k, gpr, fpr, mem), "mem", mem)
          /\ OneOn(Replaced(Assembled(k, gpr', fpr', mem), "mem", mem), c2) =
               Replaced(Assembled(k, gpr', fpr', mem), "mem", mem')
      <4>1. OneBack(Replaced(Assembled(k, gpr, fpr, mem), "mem", mem'), c2) =
              Replaced(Assembled(k, gpr, fpr, mem), "mem", mem)
        BY <3>1, <3>2, ArrayBack
      <4>2. OneOn(Replaced(Assembled(k, gpr', fpr', mem), "mem", mem), c2) =
              Replaced(Assembled(k, gpr', fpr', mem), "mem", mem')
        BY <3>1, <3>2, ArrayBack
      <4> QED BY <4>1, <4>2
    <3> QED BY <3>3, <3>4
  <2>2. CASE ~MemWrite(i)
    <3>1. mem' = mem /\ c2 = <<>>
      BY <1>1, <2>2
    <3> HIDE DEF c2
    <3> QED BY <3>1, NothingBack
  <2> QED BY <2>1, <2>2
<1> HIDE DEF c1, c2
<1>9. d \in DeltaType /\ d.old = Kept /\ d.new = Kept' /\ d.changes = c1 \o c2
  <2>1. c1 \o c2 \in Seq(ChangeType)
    BY <1>6, ChangesOn
  <2>2. d \in DeltaType
    BY <1>2, <1>5, <2>1, DeltaTyped
  <2> QED BY <1>5, <2>2 DEF Delta
<1> HIDE DEF d
<1>10. State = Assembled(Kept, gpr, fpr, mem) /\ State' = Assembled(Kept', gpr', fpr', mem')
  BY StateParts, StatePartsNext DEF Assembled
<1>11. CountedBack(Kept', d) = Kept /\ CountedOn(Kept, d) = Kept'
  <2>1. d.old.pc = pc /\ d.new.pc = pc'
    BY <1>9, StateParts, StatePartsNext
  <2>2. /\ (cycle + 1) - 1 = cycle /\ (retired + 1) - 1 = retired
        /\ latches' = latches
    BY <1>4 DEF latches
  <2>3. /\ Kept = KeptOf(pc, cycle, retired, stall, latches)
        /\ Kept' = KeptOf(pc', cycle', retired', stall', latches')
    BY DEF Kept, KeptOf
  <2>4. CountedBack(Kept', d) = KeptOf(d.old.pc, cycle' - 1, retired' - 1, stall', latches')
    BY <2>3, Counting
  <2>5. CountedOn(Kept, d) = KeptOf(d.new.pc, cycle + 1, retired + 1, stall, latches)
    BY <2>3, Counting
  <2> QED BY <1>4, <2>1, <2>2, <2>3, <2>4, <2>5
<1>12. State = Undone(State', d)
  <2>1. FoldLeft(OldPut, State', c1 \o c2) = OneBack(OneBack(State', c1), c2)
    BY <1>6, ChangesBack
  <2>2. OneBack(State', c1) = Assembled(Kept', gpr, fpr, mem')
    BY <1>7, <1>10
  <2>3. ChangesUndone(State', c1 \o c2) = Assembled(Kept', gpr, fpr, mem)
    BY <1>4, <1>8, <2>1, <2>2 DEF ChangesUndone
  <2>4. Undone(State', d) = [ChangesUndone(State', c1 \o c2) EXCEPT !.kept = Kept]
    BY <1>4, <1>9, <1>11, StatePartsNext DEF Undone
  <2> QED BY <1>10, <2>3, <2>4 DEF Assembled
<1>13. State' = Redone(State, d)
  <2>1. FoldLeft(NewPut, State, c1 \o c2) = OneOn(OneOn(State, c1), c2)
    BY <1>6, ChangesOn
  <2>2. OneOn(State, c1) = Assembled(Kept, gpr', fpr', mem)
    BY <1>7, <1>10
  <2>3. FoldLeft(NewPut, State, c1 \o c2) = Assembled(Kept, gpr', fpr', mem')
    BY <1>8, <2>1, <2>2
  <2>4. Redone(State, d) = [FoldLeft(NewPut, State, c1 \o c2) EXCEPT !.kept = Kept']
    BY <1>4, <1>9, <1>11, StateParts DEF Redone
  <2> QED BY <1>10, <2>3, <2>4 DEF Assembled
<1>14. State' = After[<<program, vm, State, d.decoded>>]
  BY <1>9, StepsAfterSingle DEF DeltaType
<1> QED BY <1>9, <1>12, <1>13, <1>14 DEF Joins, d, i

-----------------------------------------------------------------------------
(* The line of states. *)

\* The states that Undo leads to, up to the present one, joined by the deltas.
Behind(b) ==
  /\ b = [k \in 0 .. Len(undo) |-> b[k]]
  /\ b[Len(undo)] = State
  /\ \A k \in 0 .. Len(undo) : Sound(b[k])
  /\ \A k \in 1 .. Len(undo) : Joins(b[k - 1], undo[k], b[k])

\* The states that Redo leads to, from the present one on.
Ahead(a) ==
  /\ a = [k \in 0 .. Len(redo) |-> a[k]]
  /\ a[0] = State
  /\ \A k \in 0 .. Len(redo) : Sound(a[k])
  /\ \A k \in 1 .. Len(redo) : Joins(a[k - 1], redo[Len(redo) - k + 1], a[k])

HistoryInv ==
  /\ Setting
  /\ undo \in Seq(DeltaType) /\ redo \in Seq(DeltaType)
  /\ \E b : Behind(b)
  /\ \E a : Ahead(a)

\* There is no other line than the one Past speaks of.
LEMMA PastIs ==
  \A b : undo \in Seq(DeltaType) /\ Behind(b) => Past = [k \in 1 .. Len(undo) |-> b[k - 1]]
<1> SUFFICES ASSUME NEW b, undo \in Seq(DeltaType), Behind(b)
             PROVE  Past = [k \in 1 .. Len(undo) |-> b[k - 1]]
  OBVIOUS
<1> DEFINE n == Len(undo)
           F(c) == c = [k \in 0 .. n |-> IF k = n THEN State ELSE Undone(c[k + 1], undo[k + 1])]
<1>1. n \in Nat
  OBVIOUS
<1>2. F(b)
  <2>1. ASSUME NEW k \in 0 .. n, k # n PROVE b[k] = Undone(b[k + 1], undo[k + 1])
    <3>1. k + 1 \in 1 .. n /\ (k + 1) - 1 = k
      BY <1>1, <2>1
    <3>2. Joins(b[(k + 1) - 1], undo[k + 1], b[k + 1])
      BY <3>1 DEF Behind
    <3> QED BY <3>1, <3>2 DEF Joins
  <2>2. b[n] = State /\ b = [k \in 0 .. n |-> b[k]]
    BY DEF Behind
  <2> QED BY <2>1, <2>2
<1>3. ASSUME NEW c, F(c) PROVE \A k \in 0 .. n : c[k] = b[k]
  <2> DEFINE S == {j \in Nat : j <= n => c[n - j] = b[n - j]}
  <2>1. 0 \in S
    BY <1>1, <1>2, <1>3
  <2>2. ASSUME NEW j \in Nat, j \in S PROVE j + 1 \in S
    <3> SUFFICES ASSUME j + 1 <= n PROVE c[n - (j + 1)] = b[n - (j + 1)]
      OBVIOUS
    <3> DEFINE i == n - (j + 1)
    <3>1. i \in 0 .. n /\ i # n /\ i + 1 = n - j
      BY <1>1
    <3>2. c[n - j] = b[n - j]
      BY <1>1, <2>2
    <3> HIDE DEF i
    <3>3. c[i] = Undone(c[i + 1], undo[i + 1])
      BY <1>3, <3>1
    <3>4. b[i] = Undone(b[i + 1], undo[i + 1])
      BY <1>2, <3>1
    <3> QED BY <3>1, <3>2, <3>3, <3>4 DEF i
  <2> HIDE DEF S
  <2>3. \A j \in Nat : j \in S
    BY <2>1, <2>2, Back!NaturalSteps
  <2>4. ASSUME NEW k \in 0 .. n PROVE c[k] = b[k]
    <3>1. n - k \in Nat /\ n - k <= n /\ n - (n - k) = k
      BY <1>1
    <3> QED BY <2>3, <3>1 DEF S
  <2> QED BY <2>4
<1>4. F(CHOOSE c : F(c))
  BY <1>2
<1>5. Past = [k \in 1 .. n |-> (CHOOSE c : F(c))[k - 1]]
  BY DEF Past
<1>6. \A k \in 1 .. n : k - 1 \in 0 .. n
  BY <1>1
<1> HIDE DEF F
<1> QED BY <1>3, <1>4, <1>5, <1>6

\* Nor than the one Future speaks of, when steps can be repeated.
LEMMA FutureIs ==
  \A a : redo \in Seq(DeltaType) /\ Ahead(a) /\ Repeatable => Future = [k \in 1 .. Len(redo) |-> a[k]]
<1> SUFFICES ASSUME NEW a, redo \in Seq(DeltaType), Ahead(a), Repeatable
             PROVE  Future = [k \in 1 .. Len(redo) |-> a[k]]
  OBVIOUS
<1> DEFINE n == Len(redo)
           F(c) == c = [k \in 0 .. n |-> IF k = 0 THEN State ELSE Redone(c[k - 1], redo[n - k + 1])]
<1>1. n \in Nat
  OBVIOUS
<1>2. F(a)
  <2>1. ASSUME NEW k \in 0 .. n, k # 0 PROVE a[k] = Redone(a[k - 1], redo[n - k + 1])
    <3>1. k \in 1 .. n
      BY <1>1, <2>1
    <3>2. Joins(a[k - 1], redo[n - k + 1], a[k])
      BY <3>1 DEF Ahead
    <3> QED BY <3>2 DEF Joins
  <2>2. a[0] = State /\ a = [k \in 0 .. n |-> a[k]]
    BY DEF Ahead
  <2> QED BY <2>1, <2>2
<1>3. ASSUME NEW c, F(c) PROVE \A k \in 0 .. n : c[k] = a[k]
  <2> DEFINE S == {j \in Nat : j <= n => c[j] = a[j]}
  <2>1. 0 \in S
    BY <1>1, <1>2, <1>3
  <2>2. ASSUME NEW j \in Nat, j \in S PROVE j + 1 \in S
    <3> SUFFICES ASSUME j + 1 <= n PROVE c[j + 1] = a[j + 1]
      OBVIOUS
    <3> DEFINE i == j + 1
    <3>1. i \in 0 .. n /\ i # 0 /\ i - 1 = j
      BY <1>1
    <3>2. c[j] = a[j]
      BY <1>1, <2>2
    <3> HIDE DEF i
    <3>3. c[i] = Redone(c[i - 1], redo[n - i + 1])
      BY <1>3, <3>1
    <3>4. a[i] = Redone(a[i - 1], redo[n - i + 1])
      BY <1>2, <3>1
    <3> QED BY <3>1, <3>2, <3>3, <3>4 DEF i
  <2> HIDE DEF S
  <2>3. \A j \in Nat : j \in S
    BY <2>1, <2>2, Back!NaturalSteps
  <2> QED BY <1>1, <2>3 DEF S
<1>4. F(CHOOSE c : F(c))
  BY <1>2
<1>5. Future = [k \in 1 .. n |-> (CHOOSE c : F(c))[k]]
  BY DEF Future
<1>6. \A k \in 1 .. n : k \in 0 .. n
  BY <1>1
<1> HIDE DEF F
<1> QED BY <1>3, <1>4, <1>5, <1>6

\* What the user is shown of the line.
ShownBehind(b, n) == [k \in 1 .. n |-> Shown(b[k - 1])]
ShownAhead(a, n)  == [k \in 1 .. n |-> Shown(a[k])]

\* What is shown of the past, and of the future.
LEMMA PastShown ==
  \A b : undo \in Seq(DeltaType) /\ Behind(b) => ShownAll(Past) = ShownBehind(b, Len(undo))
<1> SUFFICES ASSUME NEW b, undo \in Seq(DeltaType), Behind(b)
             PROVE  ShownAll(Past) = ShownBehind(b, Len(undo))
  OBVIOUS
<1>1. Past = [k \in 1 .. Len(undo) |-> b[k - 1]]
  BY PastIs
<1> QED BY <1>1 DEF ShownAll, ShownBehind

\* The same for what can be done again.
LEMMA FutureShown ==
  \A a : redo \in Seq(DeltaType) /\ Ahead(a) /\ Repeatable =>
           ShownAll(Future) = ShownAhead(a, Len(redo))
<1> SUFFICES ASSUME NEW a, redo \in Seq(DeltaType), Ahead(a), Repeatable
             PROVE  ShownAll(Future) = ShownAhead(a, Len(redo))
  OBVIOUS
<1>1. Future = [k \in 1 .. Len(redo) |-> a[k]]
  BY FutureIs
<1> QED BY <1>1 DEF ShownAll, ShownAhead

\* Both after a step.
LEMMA PastShownNext ==
  (\A b : undo \in Seq(DeltaType) /\ Behind(b) => ShownAll(Past) = ShownBehind(b, Len(undo)))'
BY PastShown, PTL

\* The same for the future, after a step.
LEMMA FutureShownNext ==
  (\A a : redo \in Seq(DeltaType) /\ Ahead(a) /\ Repeatable =>
            ShownAll(Future) = ShownAhead(a, Len(redo)))'
BY FutureShown, PTL

\* What a step leaves alone does not change what it is to be on a line.
LEMMA SameSetting ==
  ASSUME program' = program, vm' = vm
  PROVE  /\ Repeatable' = Repeatable /\ Undoable' = Undoable
         /\ \A s : Sound(s)' <=> Sound(s)
         /\ \A s, d, t : Joins(s, d, t)' <=> Joins(s, d, t)
<1>1. IsSingle' = IsSingle
  BY DEF IsSingle
<1>2. Repeatable' = Repeatable /\ Undoable' = Undoable
  BY <1>1 DEF Repeatable, Undoable
<1>3. \A s : Sound(s)' <=> Sound(s)
  BY DEF Sound, Known
<1>4. /\ \A s, d : Undone(s, d)' = Undone(s, d)
      /\ \A s, d : Redone(s, d)' = Redone(s, d)
  BY <1>1 DEF Undone, Redone, ChangesUndone
<1>5. \A s, d, t : Joins(s, d, t)' <=> Joins(s, d, t)
  BY <1>2, <1>4 DEF Joins
<1> QED BY <1>2, <1>3, <1>5

\* A sequence without its last element.
LEMMA FrontOf ==
  ASSUME NEW A, NEW n \in Nat, NEW g \in Seq(A), Len(g) = n + 1
  PROVE  Front(g) \in Seq(A) /\ Len(Front(g)) = n /\ \A k \in 1 .. n : Front(g)[k] = g[k]
<1>1. Front(g) = SubSeq(g, 1, n)
  BY DEF Front
<1>2. SubSeq(g, 1, n) \in Seq(A) /\ Len(SubSeq(g, 1, n)) = n
  OBVIOUS
<1>3. \A k \in 1 .. n : SubSeq(g, 1, n)[k] = g[k]
  OBVIOUS
<1> QED BY <1>1, <1>2, <1>3

\* A sequence with one more at its end, or at its front.
Listed(f, n) == f = [k \in 1 .. n |-> f[k]]

\* A sequence and its front.
LEMMA OneMoreLast ==
  ASSUME NEW n \in Nat, NEW f, NEW g, Listed(f, n), Listed(g, n + 1),
         \A k \in 1 .. n : g[k] = f[k]
  PROVE  /\ g = Append(f, g[n + 1])
         /\ g # <<>> /\ Last(g) = g[n + 1] /\ Front(g) = f
<1> DEFINE A == {g[k] : k \in 1 .. n + 1}
<1>1. f \in [1 .. n -> A] /\ g \in [1 .. n + 1 -> A]
  <2>1. \A k \in 1 .. n : k \in 1 .. n + 1
    OBVIOUS
  <2> QED BY <2>1 DEF Listed
<1>2. g[n + 1] \in A
  OBVIOUS
<1> HIDE DEF A
<1>3. f \in Seq(A) /\ g \in Seq(A) /\ Len(f) = n /\ Len(g) = n + 1
  BY <1>1
<1>4. g = Append(f, g[n + 1])
  <2> DEFINE e == g[n + 1]
             h == Append(f, e)
  <2>1. /\ h \in Seq(A) /\ Len(h) = n + 1 /\ h[n + 1] = e
        /\ \A k \in 1 .. n : h[k] = f[k]
    BY <1>2, <1>3, AppendProperties
  <2> HIDE DEF h
  <2>2. ASSUME NEW k \in 1 .. n + 1 PROVE g[k] = h[k]
    <3>1. k = n + 1 \/ k \in 1 .. n
      OBVIOUS
    <3>2. CASE k = n + 1
      BY <2>1, <3>2
    <3>3. CASE k \in 1 .. n
      BY <2>1, <3>3
    <3> QED BY <3>1, <3>2, <3>3
  <2>3. g = h
    BY <1>3, <2>1, <2>2, SeqEqual
  <2> QED BY <2>3 DEF h
<1>5. Front(g) = f
  <2>1. Front(g) \in Seq(A) /\ Len(Front(g)) = n /\ \A k \in 1 .. n : Front(g)[k] = g[k]
    BY <1>3, FrontOf
  <2> QED BY <1>3, <2>1, SeqEqual
<1>6. g # <<>> /\ Last(g) = g[n + 1]
  BY <1>3 DEF Last
<1> QED BY <1>4, <1>5, <1>6

\* A sequence and its tail.
LEMMA OneMoreFirst ==
  ASSUME NEW n \in Nat, NEW f, NEW g, Listed(f, n), Listed(g, n + 1),
         \A k \in 1 .. n : g[k + 1] = f[k]
  PROVE  /\ g = <<g[1]>> \o f
         /\ g # <<>> /\ Head(g) = g[1] /\ Tail(g) = f
<1> DEFINE A == {g[k] : k \in 1 .. n + 1}
<1>1. f \in [1 .. n -> A] /\ g \in [1 .. n + 1 -> A]
  <2>1. \A k \in 1 .. n : k + 1 \in 1 .. n + 1
    OBVIOUS
  <2> QED BY <2>1 DEF Listed
<1>2. g[1] \in A
  OBVIOUS
<1> HIDE DEF A
<1>3. f \in Seq(A) /\ g \in Seq(A) /\ Len(f) = n /\ Len(g) = n + 1
  BY <1>1
<1>4. Head(g) = g[1] /\ Tail(g) = f /\ g # <<>>
  BY <1>1, <1>3
<1>5. g = <<g[1]>> \o f
  BY <1>1, <1>2, <1>3
<1> QED BY <1>4, <1>5

-----------------------------------------------------------------------------
(* The walk along the line. *)

\* The stacks with one more delta, and with one less.
LEMMA Pushed ==
  ASSUME NEW seq \in Seq(DeltaType), NEW d \in DeltaType
  PROVE  LET more == Append(seq, d)
         IN /\ more \in Seq(DeltaType) /\ Len(more) = Len(seq) + 1
            /\ more[Len(seq) + 1] = d /\ \A k \in 1 .. Len(seq) : more[k] = seq[k]
BY AppendProperties

\* The other way, for the one that is taken off.
LEMMA Popped ==
  ASSUME NEW seq \in Seq(DeltaType), seq # <<>>
  PROVE  /\ Len(seq) \in Nat /\ Len(seq) >= 1
         /\ Last(seq) = seq[Len(seq)] /\ Last(seq) \in DeltaType
         /\ Front(seq) \in Seq(DeltaType) /\ Len(Front(seq)) = Len(seq) - 1
         /\ \A k \in 1 .. Len(seq) - 1 : Front(seq)[k] = seq[k]
<1>1. Len(seq) \in Nat /\ Len(seq) >= 1
  OBVIOUS
<1>2. Len(seq) - 1 \in Nat /\ Len(seq) = (Len(seq) - 1) + 1
  BY <1>1
<1>3. /\ Front(seq) \in Seq(DeltaType) /\ Len(Front(seq)) = Len(seq) - 1
      /\ \A k \in 1 .. Len(seq) - 1 : Front(seq)[k] = seq[k]
  <2> DEFINE n == Len(seq) - 1
  <2>1. n \in Nat /\ Len(seq) = n + 1
    BY <1>2
  <2> HIDE DEF n
  <2>2. Front(seq) = SubSeq(seq, 1, n)
    BY <2>1 DEF Front
  <2>3. SubSeq(seq, 1, n) \in Seq(DeltaType) /\ Len(SubSeq(seq, 1, n)) = n
    BY <2>1
  <2>4. \A k \in 1 .. n : SubSeq(seq, 1, n)[k] = seq[k]
    BY <2>1
  <2> QED BY <2>2, <2>3, <2>4 DEF n
<1>4. Last(seq) = seq[Len(seq)] /\ Last(seq) \in DeltaType
  BY <1>1 DEF Last
<1> QED BY <1>1, <1>3, <1>4

\* A line that ends in the state after the step, from one that ends in the state before.
LEMMA BehindGrows ==
  ASSUME undo \in Seq(DeltaType), NEW b, Behind(b), NEW d \in DeltaType, Joins(State, d, State'),
         Sound(State)', undo' = Append(undo, d), program' = program, vm' = vm
  PROVE  \E c : /\ Behind(c)'
                /\ ShownBehind(c, Len(undo')) = Append(ShownBehind(b, Len(undo)), Shown(State))
<1> DEFINE n == Len(undo)
<1>1. PICK c : c = [k \in 0 .. n + 1 |-> IF k = n + 1 THEN State' ELSE b[k]]
  OBVIOUS
<1>2. n \in Nat /\ undo'[n + 1] = d /\ Len(undo') = n + 1 /\ \A k \in 1 .. n : undo'[k] = undo[k]
  BY Pushed
<1>3. c[n + 1] = State' /\ \A k \in 0 .. n : c[k] = b[k]
  BY <1>1, <1>2
<1>4. b[n] = State /\ (\A k \in 0 .. n : Sound(b[k])) /\ \A k \in 1 .. n : Joins(b[k - 1], undo[k], b[k])
  BY DEF Behind
<1>5. Behind(c)'
  <2>1. ASSUME NEW k \in 0 .. n + 1 PROVE Sound(c[k])'
    <3>1. k = n + 1 \/ k \in 0 .. n
      BY <1>2
    <3>2. CASE k = n + 1
      BY <1>3, <3>2
    <3>3. CASE k \in 0 .. n
      BY <1>3, <1>4, <3>3, SameSetting
    <3> QED BY <3>1, <3>2, <3>3
  <2>2. ASSUME NEW k \in 1 .. n + 1 PROVE Joins(c[k - 1], undo[k], c[k])'
    <3>1. k = n + 1 \/ (k \in 1 .. n /\ k \in 0 .. n /\ k - 1 \in 0 .. n)
      BY <1>2
    <3>2. CASE k = n + 1
      <4>1. k - 1 = n /\ n \in 0 .. n
        BY <1>2, <3>2
      <4>2. Joins(c[k - 1], undo'[k], c[k])
        BY <1>2, <1>3, <1>4, <3>2, <4>1
      <4> QED BY <4>2, SameSetting
    <3>3. CASE k \in 1 .. n /\ k \in 0 .. n /\ k - 1 \in 0 .. n
      <4>1. Joins(c[k - 1], undo'[k], c[k])
        BY <1>2, <1>3, <1>4, <3>3
      <4> QED BY <4>1, SameSetting
    <3> QED BY <3>1, <3>2, <3>3
  <2>3. c = [k \in 0 .. n + 1 |-> c[k]]
    BY <1>1
  <2>4. Len(undo') = n + 1
    BY <1>2
  <2>5. c[n + 1] = State'
    BY <1>2, <1>3
  <2> HIDE DEF n
  <2> QED BY <2>1, <2>2, <2>3, <2>4, <2>5 DEF Behind
<1>6. ShownBehind(c, n + 1) = Append(ShownBehind(b, n), Shown(State))
  <2> DEFINE f == ShownBehind(b, n)
             g == ShownBehind(c, n + 1)
  <2>1. Listed(f, n) /\ Listed(g, n + 1)
    BY DEF Listed, ShownBehind
  <2>2. ASSUME NEW k \in 1 .. n PROVE g[k] = f[k]
    <3>1. k \in 1 .. n + 1 /\ k - 1 \in 0 .. n
      BY <1>2
    <3> QED BY <1>3, <3>1 DEF ShownBehind
  <2>3. g[n + 1] = Shown(State)
    <3>1. n + 1 \in 1 .. n + 1 /\ (n + 1) - 1 = n /\ n \in 0 .. n
      BY <1>2
    <3> QED BY <1>3, <1>4, <3>1 DEF ShownBehind
  <2> HIDE DEF f, g
  <2>4. g = Append(f, g[n + 1])
    BY <1>2, <2>1, <2>2, OneMoreLast
  <2> QED BY <2>3, <2>4 DEF f, g
<1> QED BY <1>2, <1>5, <1>6

\* The line without its last state, which Undo leaves for the one before.
LEMMA BehindShrinks ==
  ASSUME undo \in Seq(DeltaType), undo # <<>>, NEW b, Behind(b),
         State' = Undone(State, Last(undo)), undo' = Front(undo), program' = program, vm' = vm
  PROVE  \E c : /\ Behind(c)' /\ Sound(State)' /\ Joins(State', Last(undo), State)
                /\ ShownBehind(b, Len(undo)) # <<>>
                /\ Last(ShownBehind(b, Len(undo))) = Shown(State')
                /\ Front(ShownBehind(b, Len(undo))) = ShownBehind(c, Len(undo'))
<1> DEFINE n == Len(undo) - 1
<1>1. PICK c : c = [k \in 0 .. n |-> b[k]]
  OBVIOUS
<1>2. /\ n \in Nat /\ Len(undo) = n + 1 /\ Len(undo') = n /\ Last(undo) = undo[n + 1]
      /\ \A k \in 1 .. n : undo'[k] = undo[k]
  <2>1. Len(undo) \in Nat /\ Len(undo) >= 1
    BY Popped
  <2>2. Len(undo') = Len(undo) - 1 /\ \A k \in 1 .. Len(undo) - 1 : undo'[k] = undo[k]
    BY Popped
  <2>3. Last(undo) = undo[Len(undo)]
    BY Popped
  <2> QED BY <2>1, <2>2, <2>3
<1> HIDE DEF n
<1>3. \A k \in 0 .. n : c[k] = b[k]
  BY <1>1, <1>2
<1>4. /\ b[n + 1] = State /\ (\A k \in 0 .. n + 1 : Sound(b[k]))
      /\ \A k \in 1 .. n + 1 : Joins(b[k - 1], undo[k], b[k])
  BY <1>2 DEF Behind
<1>5. State' = b[n] /\ Joins(State', Last(undo), State)
  <2>1. n + 1 \in 1 .. n + 1 /\ (n + 1) - 1 = n
    BY <1>2
  <2>2. Joins(b[n], undo[n + 1], b[n + 1])
    BY <1>4, <2>1
  <2>3. b[n] = Undone(State, Last(undo))
    BY <1>2, <1>4, <2>2 DEF Joins
  <2> QED BY <1>2, <1>4, <2>2, <2>3
<1>6. Sound(State)'
  <2>1. n \in 0 .. n + 1
    BY <1>2
  <2> QED BY <1>4, <1>5, <2>1, SameSetting
<1>7. Behind(c)'
  <2>1. ASSUME NEW k \in 0 .. n PROVE Sound(c[k])'
    <3>1. k \in 0 .. n + 1
      BY <1>2
    <3> QED BY <1>3, <1>4, <3>1, SameSetting
  <2>2. ASSUME NEW k \in 1 .. n PROVE Joins(c[k - 1], undo[k], c[k])'
    <3>1. k \in 0 .. n /\ k - 1 \in 0 .. n /\ k \in 1 .. n + 1
      BY <1>2
    <3>2. Joins(c[k - 1], undo'[k], c[k])
      BY <1>2, <1>3, <1>4, <3>1
    <3> QED BY <3>2, SameSetting
  <2>3. c = [k \in 0 .. n |-> c[k]]
    BY <1>1
  <2>4. c[n] = State'
    BY <1>2, <1>3, <1>5
  <2>5. Len(undo') = n
    BY <1>2
  <2> QED BY <2>1, <2>2, <2>3, <2>4, <2>5 DEF Behind
<1>8. LET g == ShownBehind(b, n + 1)
      IN g # <<>> /\ Last(g) = Shown(State') /\ Front(g) = ShownBehind(c, n)
  <2> DEFINE f == ShownBehind(c, n)
             g == ShownBehind(b, n + 1)
  <2>1. Listed(f, n) /\ Listed(g, n + 1)
    BY DEF Listed, ShownBehind
  <2>2. ASSUME NEW k \in 1 .. n PROVE g[k] = f[k]
    <3>1. k \in 1 .. n + 1 /\ k - 1 \in 0 .. n
      BY <1>2
    <3> QED BY <1>3, <3>1 DEF ShownBehind
  <2>3. g[n + 1] = Shown(State')
    <3>1. n + 1 \in 1 .. n + 1 /\ (n + 1) - 1 = n
      BY <1>2
    <3> QED BY <1>5, <3>1 DEF ShownBehind
  <2> HIDE DEF f, g
  <2>4. g # <<>> /\ Last(g) = g[n + 1] /\ Front(g) = f
    BY <1>2, <2>1, <2>2, OneMoreLast
  <2> QED BY <2>3, <2>4 DEF f, g
<1> QED BY <1>2, <1>5, <1>6, <1>7, <1>8

\* What was undone becomes the first of the states that can be had again.
LEMMA AheadGrows ==
  ASSUME redo \in Seq(DeltaType), NEW a, Ahead(a), NEW d \in DeltaType, Joins(State', d, State),
         Sound(State)', redo' = Append(redo, d), program' = program, vm' = vm
  PROVE  \E c : /\ Ahead(c)'
                /\ ShownAhead(c, Len(redo')) = <<Shown(State)>> \o ShownAhead(a, Len(redo))
<1> DEFINE n == Len(redo)
<1>1. PICK c : c = [k \in 0 .. n + 1 |-> IF k = 0 THEN State' ELSE a[k - 1]]
  OBVIOUS
<1>2. n \in Nat /\ redo'[n + 1] = d /\ Len(redo') = n + 1 /\ \A k \in 1 .. n : redo'[k] = redo[k]
  BY Pushed
<1>3. c[0] = State' /\ \A k \in 1 .. n + 1 : c[k] = a[k - 1]
  BY <1>1, <1>2
<1>4. /\ a[0] = State /\ (\A k \in 0 .. n : Sound(a[k]))
      /\ \A k \in 1 .. n : Joins(a[k - 1], redo[n - k + 1], a[k])
  BY DEF Ahead
<1> HIDE DEF n
<1>5. Ahead(c)'
  <2>1. ASSUME NEW k \in 0 .. n + 1 PROVE Sound(c[k])'
    <3>1. k = 0 \/ (k \in 1 .. n + 1 /\ k - 1 \in 0 .. n)
      BY <1>2
    <3>2. CASE k = 0
      BY <1>3, <3>2
    <3>3. CASE k \in 1 .. n + 1 /\ k - 1 \in 0 .. n
      BY <1>3, <1>4, <3>3, SameSetting
    <3> QED BY <3>1, <3>2, <3>3
  <2>2. ASSUME NEW k \in 1 .. n + 1 PROVE Joins(c[k - 1], redo'[(n + 1) - k + 1], c[k])
    <3>1. k = 1 \/ (k - 1 \in 1 .. n /\ k - 1 \in 1 .. n + 1)
      BY <1>2
    <3>2. CASE k = 1
      <4>1. k - 1 = 0 /\ (n + 1) - k + 1 = n + 1
        BY <1>2, <3>2
      <4> QED BY <1>2, <1>3, <1>4, <3>2, <4>1
    <3>3. CASE k - 1 \in 1 .. n /\ k - 1 \in 1 .. n + 1
      <4> DEFINE i == k - 1
      <4>1. i \in 1 .. n /\ i \in 1 .. n + 1 /\ n - i + 1 \in 1 .. n /\ (n + 1) - k + 1 = n - i + 1
        BY <1>2, <3>3
      <4> HIDE DEF i
      <4>2. Joins(a[i - 1], redo[n - i + 1], a[i])
        BY <1>4, <4>1
      <4>3. redo'[(n + 1) - k + 1] = redo[n - i + 1]
        BY <1>2, <4>1
      <4>4. c[i] = a[i - 1] /\ c[k] = a[k - 1]
        BY <1>3, <4>1
      <4> QED BY <4>2, <4>3, <4>4 DEF i
    <3> QED BY <3>1, <3>2, <3>3
  <2>3. ASSUME NEW k \in 1 .. n + 1 PROVE Joins(c[k - 1], redo[Len(redo) - k + 1], c[k])'
    <3>1. Joins(c[k - 1], redo'[Len(redo') - k + 1], c[k])
      BY <1>2, <2>2
    <3> QED BY <3>1, SameSetting
  <2>4. c = [k \in 0 .. n + 1 |-> c[k]]
    BY <1>1
  <2>5. Len(redo') = n + 1
    BY <1>2
  <2>6. c[0] = State'
    BY <1>3
  <2> QED BY <2>1, <2>3, <2>4, <2>5, <2>6 DEF Ahead
<1>6. ShownAhead(c, n + 1) = <<Shown(State)>> \o ShownAhead(a, n)
  <2> DEFINE f == ShownAhead(a, n)
             g == ShownAhead(c, n + 1)
  <2>1. Listed(f, n) /\ Listed(g, n + 1)
    BY DEF Listed, ShownAhead
  <2>2. ASSUME NEW k \in 1 .. n PROVE g[k + 1] = f[k]
    <3>1. k + 1 \in 1 .. n + 1 /\ (k + 1) - 1 = k
      BY <1>2
    <3> QED BY <1>3, <3>1 DEF ShownAhead
  <2>3. g[1] = Shown(State)
    <3>1. 1 \in 1 .. n + 1 /\ 1 - 1 = 0
      BY <1>2
    <3> QED BY <1>3, <1>4, <3>1 DEF ShownAhead
  <2> HIDE DEF f, g
  <2>4. g = <<g[1]>> \o f
    BY <1>2, <2>1, <2>2, OneMoreFirst
  <2> QED BY <2>3, <2>4 DEF f, g
<1> QED BY <1>2, <1>5, <1>6 DEF n

\* Redo takes the first of them.
LEMMA AheadShrinks ==
  ASSUME redo \in Seq(DeltaType), redo # <<>>, NEW a, Ahead(a), Repeatable,
         State' = Redone(State, Last(redo)), redo' = Front(redo), program' = program, vm' = vm
  PROVE  \E c : /\ Ahead(c)' /\ Sound(State)' /\ Joins(State, Last(redo), State')
                /\ ShownAhead(a, Len(redo)) # <<>>
                /\ Head(ShownAhead(a, Len(redo))) = Shown(State')
                /\ Tail(ShownAhead(a, Len(redo))) = ShownAhead(c, Len(redo'))
<1> DEFINE n == Len(redo) - 1
<1>1. PICK c : c = [k \in 0 .. n |-> a[k + 1]]
  OBVIOUS
<1>2. /\ n \in Nat /\ Len(redo) = n + 1 /\ Len(redo') = n /\ Last(redo) = redo[n + 1]
      /\ \A k \in 1 .. n : redo'[k] = redo[k]
  <2>1. Len(redo) \in Nat /\ Len(redo) >= 1
    BY Popped
  <2>2. Len(redo') = Len(redo) - 1 /\ \A k \in 1 .. Len(redo) - 1 : redo'[k] = redo[k]
    BY Popped
  <2>3. Last(redo) = redo[Len(redo)]
    BY Popped
  <2> QED BY <2>1, <2>2, <2>3
<1> HIDE DEF n
<1>3. \A k \in 0 .. n : c[k] = a[k + 1]
  BY <1>1, <1>2
<1>4. /\ a[0] = State /\ (\A k \in 0 .. n + 1 : Sound(a[k]))
      /\ \A k \in 1 .. n + 1 : Joins(a[k - 1], redo[(n + 1) - k + 1], a[k])
  BY <1>2 DEF Ahead
<1>5. State' = a[1] /\ Joins(State, Last(redo), State')
  <2>1. 1 \in 1 .. n + 1 /\ 1 - 1 = 0 /\ (n + 1) - 1 + 1 = n + 1
    BY <1>2
  <2>2. Joins(a[0], redo[n + 1], a[1])
    BY <1>4, <2>1
  <2>3. a[1] = Redone(State, Last(redo))
    BY <1>2, <1>4, <2>2 DEF Joins
  <2> QED BY <1>2, <1>4, <2>2, <2>3
<1>6. Sound(State)'
  <2>1. 1 \in 0 .. n + 1
    BY <1>2
  <2> QED BY <1>4, <1>5, <2>1, SameSetting
<1>7. Ahead(c)'
  <2>1. ASSUME NEW k \in 0 .. n PROVE Sound(c[k])'
    <3>1. k + 1 \in 0 .. n + 1
      BY <1>2
    <3> QED BY <1>3, <1>4, <3>1, SameSetting
  <2>2. ASSUME NEW k \in 1 .. n PROVE Joins(c[k - 1], redo'[n - k + 1], c[k])
    <3> DEFINE i == k + 1
    <3>1. /\ k \in 0 .. n /\ k - 1 \in 0 .. n /\ i \in 1 .. n + 1 /\ i - 1 = k /\ (k - 1) + 1 = k
          /\ n - k + 1 \in 1 .. n /\ (n + 1) - i + 1 = n - k + 1
      BY <1>2
    <3>2. c[k - 1] = a[k] /\ c[k] = a[i]
      BY <1>3, <3>1
    <3> HIDE DEF i
    <3>3. Joins(a[i - 1], redo[(n + 1) - i + 1], a[i])
      BY <1>4, <3>1
    <3> QED BY <1>2, <3>1, <3>2, <3>3
  <2>3. ASSUME NEW k \in 1 .. n PROVE Joins(c[k - 1], redo[Len(redo) - k + 1], c[k])'
    <3>1. Joins(c[k - 1], redo'[Len(redo') - k + 1], c[k])
      BY <1>2, <2>2
    <3> QED BY <3>1, SameSetting
  <2>4. c = [k \in 0 .. n |-> c[k]]
    BY <1>1
  <2>5. c[0] = State'
    BY <1>2, <1>3, <1>5
  <2>6. Len(redo') = n
    BY <1>2
  <2> QED BY <2>1, <2>3, <2>4, <2>5, <2>6 DEF Ahead
<1>8. LET g == ShownAhead(a, n + 1)
      IN g # <<>> /\ Head(g) = Shown(State') /\ Tail(g) = ShownAhead(c, n)
  <2> DEFINE f == ShownAhead(c, n)
             g == ShownAhead(a, n + 1)
  <2>1. Listed(f, n) /\ Listed(g, n + 1)
    BY DEF Listed, ShownAhead
  <2>2. ASSUME NEW k \in 1 .. n PROVE g[k + 1] = f[k]
    <3>1. k + 1 \in 1 .. n + 1 /\ k \in 0 .. n
      BY <1>2
    <3> QED BY <1>3, <3>1 DEF ShownAhead
  <2>3. g[1] = Shown(State')
    <3>1. 1 \in 1 .. n + 1
      BY <1>2
    <3> QED BY <1>5, <3>1 DEF ShownAhead
  <2> HIDE DEF f, g
  <2>4. g # <<>> /\ Head(g) = g[1] /\ Tail(g) = f
    BY <1>2, <2>1, <2>2, OneMoreFirst
  <2> QED BY <2>3, <2>4 DEF f, g
<1> QED BY <1>2, <1>5, <1>6, <1>7, <1>8

\* Nothing behind, or nothing ahead.
LEMMA NothingBehind ==
  undo = <<>> /\ Sound(State) => \E b : Behind(b) /\ ShownBehind(b, Len(undo)) = <<>>
<1> SUFFICES ASSUME undo = <<>>, Sound(State)
             PROVE  \E b : Behind(b) /\ ShownBehind(b, Len(undo)) = <<>>
  OBVIOUS
<1>1. PICK b : b = [k \in 0 .. 0 |-> State]
  OBVIOUS
<1>2. Len(undo) = 0 /\ 1 .. 0 = {} /\ 0 .. 0 = {0}
  OBVIOUS
<1>3. Behind(b)
  BY <1>1, <1>2 DEF Behind
<1>4. ShownBehind(b, 0) = <<>>
  BY <1>2 DEF ShownBehind
<1> QED BY <1>2, <1>3, <1>4

\* The same ahead.
LEMMA NothingAhead ==
  redo = <<>> /\ Sound(State) => \E a : Ahead(a) /\ ShownAhead(a, Len(redo)) = <<>>
<1> SUFFICES ASSUME redo = <<>>, Sound(State)
             PROVE  \E a : Ahead(a) /\ ShownAhead(a, Len(redo)) = <<>>
  OBVIOUS
<1>1. PICK a : a = [k \in 0 .. 0 |-> State]
  OBVIOUS
<1>2. Len(redo) = 0 /\ 1 .. 0 = {} /\ 0 .. 0 = {0}
  OBVIOUS
<1>3. Ahead(a)
  BY <1>1, <1>2 DEF Ahead
<1>4. ShownAhead(a, 0) = <<>>
  BY <1>2 DEF ShownAhead
<1> QED BY <1>2, <1>3, <1>4

\* The same after a step.
LEMMA NothingAheadNext ==
  (redo = <<>> /\ Sound(State) => \E a : Ahead(a) /\ ShownAhead(a, Len(redo)) = <<>>)'
BY NothingAhead, PTL

\* The processor is on the line.
LEMMA OnTheLine == HistoryInv => Machine /\ Sound(State)
<1> SUFFICES ASSUME HistoryInv PROVE Machine /\ Sound(State)
  OBVIOUS
<1>1. PICK b : Behind(b)
  BY DEF HistoryInv
<1>2. Len(undo) \in 0 .. Len(undo)
  BY DEF HistoryInv
<1>3. Sound(State)
  BY <1>1, <1>2 DEF Behind
<1> QED BY <1>3, SoundState

\* A Step of either kind puts one delta on the stack, which joins what was and what is.
LEMMA StepPushes ==
  ASSUME HistoryInv, StepSingle \/ StepPipelined
  PROVE  /\ Setting' /\ Sound(State)' /\ program' = program /\ vm' = vm
         /\ redo' = <<>>
         /\ \E d \in DeltaType : Joins(State, d, State') /\ undo' = Append(undo, d)
<1>1. Setting /\ Machine
  BY OnTheLine DEF HistoryInv
<1>2. CASE StepSingle
  <2>1. program' = program /\ vm' = vm /\ aluOp' = aluOp /\ redo' = <<>>
    BY <1>2 DEF StepSingle, Push, Single!Step
  <2>2. undo' = Append(undo, Delta(SingleChanges(program[pc])))
    BY <1>2 DEF StepSingle, Push
  <2>3. Sound(State)'
    BY <1>1, <1>2, SingleMachine, SoundStateNext
  <2> QED BY <1>1, <1>2, <2>1, <2>2, <2>3, SingleJoins, SameSetting DEF Setting
<1>3. CASE StepPipelined
  <2>1. TypeInv /\ Step /\ ~IsSingle /\ Machine'
    BY <1>1, <1>3, PipelinedMachine
  <2>2. program' = program /\ vm' = vm /\ redo' = <<>>
    BY <1>3, <2>1, StepState DEF StepPipelined, Push
  <2>3. undo' = Append(undo, Delta(IntegerChange \o FloatChange \o MemoryChange))
    BY <1>3 DEF StepPipelined, Push
  <2>4. aluOp' \in 0 .. 3
    BY <2>1, TypeNext DEF TypeInv, TypeOK
  <2>5. Sound(State)'
    BY <2>1, SoundStateNext
  <2> QED BY <1>1, <1>3, <2>2, <2>3, <2>4, <2>5, PipelinedJoins, SameSetting DEF Setting
<1> QED BY <1>2, <1>3

\* Such a step advances along the line, and cuts off what was ahead.
LEMMA Advances ==
  ASSUME HistoryInv, StepSingle \/ StepPipelined
  PROVE  HistoryInv' /\ Walk!Advance
<1>1. undo \in Seq(DeltaType) /\ redo \in Seq(DeltaType)
  BY DEF HistoryInv
<1>2. PICK b : Behind(b)
  BY DEF HistoryInv
<1>3. PICK d \in DeltaType : Joins(State, d, State') /\ undo' = Append(undo, d)
  BY StepPushes
<1>4. Setting' /\ Sound(State)' /\ program' = program /\ vm' = vm /\ redo' = <<>>
  BY StepPushes
<1>5. undo' \in Seq(DeltaType) /\ redo' \in Seq(DeltaType)
  BY <1>1, <1>3, <1>4, Pushed
<1>6. PICK c : /\ Behind(c)'
               /\ ShownBehind(c, Len(undo')) = Append(ShownBehind(b, Len(undo)), Shown(State))
  BY <1>1, <1>2, <1>3, <1>4, BehindGrows
<1>7. PICK a : (Ahead(a) /\ ShownAhead(a, Len(redo)) = <<>>)'
  BY <1>4, NothingAheadNext
<1>8. HistoryInv'
  BY <1>4, <1>5, <1>6, <1>7 DEF HistoryInv
<1>9. Walk!Advance
  <2>1. ShownAll(Past)' = Append(ShownAll(Past), Shown(State))
    BY <1>1, <1>2, <1>5, <1>6, PastShown, PastShownNext
  <2>2. Repeatable' => ShownAll(Future)' = <<>>
    BY <1>5, <1>7, FutureShownNext
  <2>3. Repeatable' = Repeatable
    BY <1>4, SameSetting
  <2> QED BY <2>1, <2>2, <2>3 DEF Walk!Advance
<1> QED BY <1>8, <1>9

\* Undo and Redo make the processor the state they compute.
LEMMA Becoming ==
  ASSUME NEW s \in StateType, Become(s)
  PROVE  State' = s /\ program' = program /\ vm' = vm /\ aluOp' = aluOp
<1>1. Kept' = s.kept
  <2>1. s.kept \in KeptType
    BY DEF StateType
  <2>2. s.kept = KeptOf(s.kept.pc, s.kept.cycle, s.kept.retired, s.kept.stall, s.kept.latches)
    BY <2>1 DEF KeptType, KeptOf
  <2>3. s.kept.latches = <<s.kept.latches[1], s.kept.latches[2], s.kept.latches[3], s.kept.latches[4]>>
    BY <2>1 DEF KeptType
  <2>4. Kept' = KeptOf(pc', cycle', retired', stall', <<if_id', id_ex', ex_mem', mem_wb'>>)
    BY DEF Kept, KeptOf, latches
  <2>5. /\ pc' = s.kept.pc /\ cycle' = s.kept.cycle /\ retired' = s.kept.retired
        /\ stall' = s.kept.stall
        /\ <<if_id', id_ex', ex_mem', mem_wb'>> = s.kept.latches
    BY <2>3 DEF Become
  <2> QED BY <2>2, <2>4, <2>5
<1>2. s = Assembled(s.kept, s.gpr, s.fpr, s.mem)
  BY DEF StateType, Assembled
<1>3. State' = Assembled(Kept', gpr', fpr', mem')
  BY StatePartsNext
<1>4. State' = s
  BY <1>1, <1>2, <1>3 DEF Become
<1> QED BY <1>4 DEF Become

\* Undo goes back to the state before, and keeps the present one ahead if it can be had again.
LEMMA GoesBack ==
  ASSUME HistoryInv, Undo
  PROVE  HistoryInv' /\ Walk!Undo
<1>1. undo \in Seq(DeltaType) /\ redo \in Seq(DeltaType) /\ undo # <<>> /\ Setting
  BY DEF HistoryInv, Undo
<1>2. PICK b : Behind(b)
  BY DEF HistoryInv
<1>3. PICK a : Ahead(a)
  BY DEF HistoryInv
<1> DEFINE d == Last(undo)
           s == Undone(State, d)
<1>4. /\ d \in DeltaType /\ undo' = Front(undo) /\ redo' = Append(redo, d)
      /\ undo' \in Seq(DeltaType) /\ redo' \in Seq(DeltaType)
  BY <1>1, Popped, Pushed DEF Undo
<1>5. s \in StateType
  <2> DEFINE n == Len(undo)
  <2>1. n \in 1 .. n /\ n \in 0 .. n /\ n - 1 \in 0 .. n /\ d = undo[n]
    BY <1>1, Popped
  <2>2. Joins(b[n - 1], undo[n], b[n]) /\ b[n] = State /\ Sound(b[n - 1])
    BY <1>2, <2>1 DEF Behind
  <2> QED BY <2>1, <2>2 DEF Joins, Sound
<1>6. State' = s /\ program' = program /\ vm' = vm /\ aluOp' = aluOp
  <2>1. Become(s)
    BY DEF Undo
  <2> HIDE DEF s
  <2> QED BY <1>5, <2>1, Becoming
<1>7. PICK c : /\ Behind(c)' /\ Sound(State)' /\ Joins(State', d, State)
               /\ ShownBehind(b, Len(undo)) # <<>>
               /\ Last(ShownBehind(b, Len(undo))) = Shown(State')
               /\ Front(ShownBehind(b, Len(undo))) = ShownBehind(c, Len(undo'))
  BY <1>1, <1>2, <1>4, <1>6, BehindShrinks
<1> HIDE DEF d, s
<1>8. PICK e : /\ Ahead(e)'
               /\ ShownAhead(e, Len(redo')) = <<Shown(State)>> \o ShownAhead(a, Len(redo))
  BY <1>1, <1>3, <1>4, <1>6, <1>7, AheadGrows
<1>9. HistoryInv'
  BY <1>1, <1>4, <1>6, <1>7, <1>8, SameSetting DEF HistoryInv, Setting
<1>10. Walk!Undo
  <2>1. ShownAll(Past) = ShownBehind(b, Len(undo)) /\ ShownAll(Past)' = ShownBehind(c, Len(undo'))
    BY <1>1, <1>2, <1>4, <1>7, PastShown, PastShownNext
  <2>2. Repeatable => ShownAll(Future) = ShownAhead(a, Len(redo))
    BY <1>1, <1>3, FutureShown
  <2>3. Repeatable' => ShownAll(Future)' = ShownAhead(e, Len(redo'))
    BY <1>4, <1>8, FutureShownNext
  <2>4. Repeatable' = Repeatable
    BY <1>6, SameSetting
  <2>5. Repeatable => ShownAll(Future)' = <<Shown(State)>> \o ShownAll(Future)
    BY <1>8, <2>2, <2>3, <2>4
  <2>6. /\ ShownAll(Past) # <<>> /\ Shown(State)' = Last(ShownAll(Past))
        /\ ShownAll(Past)' = Front(ShownAll(Past))
    BY <1>7, <2>1
  <2>7. \A seq : Walk!Last(seq) = Last(seq) /\ Walk!Front(seq) = Front(seq)
    BY DEF Walk!Last, Last, Walk!Front, Front
  <2> QED BY <2>4, <2>5, <2>6, <2>7 DEF Walk!Undo
<1> QED BY <1>9, <1>10

\* Redo goes on to the first state ahead.
LEMMA GoesOn ==
  ASSUME HistoryInv, Repeatable, Redo
  PROVE  HistoryInv' /\ Walk!Redo
<1>1. undo \in Seq(DeltaType) /\ redo \in Seq(DeltaType) /\ redo # <<>> /\ Setting
  BY DEF HistoryInv, Redo
<1>2. PICK b : Behind(b)
  BY DEF HistoryInv
<1>3. PICK a : Ahead(a)
  BY DEF HistoryInv
<1> DEFINE d == Last(redo)
           s == Redone(State, d)
<1>4. /\ d \in DeltaType /\ redo' = Front(redo) /\ undo' = Append(undo, d)
      /\ undo' \in Seq(DeltaType) /\ redo' \in Seq(DeltaType)
  BY <1>1, Popped, Pushed DEF Redo
<1>5. s \in StateType
  <2> DEFINE n == Len(redo)
  <2>1. 1 \in 1 .. n /\ 1 \in 0 .. n /\ 1 - 1 = 0 /\ n - 1 + 1 = n /\ d = redo[n]
    BY <1>1, Popped
  <2>2. Joins(a[0], redo[n], a[1]) /\ a[0] = State /\ Sound(a[1])
    BY <1>3, <2>1 DEF Ahead
  <2> QED BY <2>1, <2>2 DEF Joins, Sound
<1>6. State' = s /\ program' = program /\ vm' = vm /\ aluOp' = aluOp
  <2>1. Become(s)
    BY DEF Redo
  <2> HIDE DEF s
  <2> QED BY <1>5, <2>1, Becoming
<1>7. PICK e : /\ Ahead(e)' /\ Sound(State)' /\ Joins(State, d, State')
               /\ ShownAhead(a, Len(redo)) # <<>>
               /\ Head(ShownAhead(a, Len(redo))) = Shown(State')
               /\ Tail(ShownAhead(a, Len(redo))) = ShownAhead(e, Len(redo'))
  BY <1>1, <1>3, <1>4, <1>6, AheadShrinks
<1> HIDE DEF d, s
<1>8. PICK c : /\ Behind(c)'
               /\ ShownBehind(c, Len(undo')) = Append(ShownBehind(b, Len(undo)), Shown(State))
  BY <1>1, <1>2, <1>4, <1>6, <1>7, BehindGrows
<1>9. HistoryInv'
  BY <1>1, <1>4, <1>6, <1>7, <1>8, SameSetting DEF HistoryInv, Setting
<1>10. Walk!Redo
  <2>1. ShownAll(Past) = ShownBehind(b, Len(undo)) /\ ShownAll(Past)' = ShownBehind(c, Len(undo'))
    BY <1>1, <1>2, <1>4, <1>8, PastShown, PastShownNext
  <2>2. Repeatable' = Repeatable
    BY <1>6, SameSetting
  <2>3. ShownAll(Future) = ShownAhead(a, Len(redo)) /\ ShownAll(Future)' = ShownAhead(e, Len(redo'))
    BY <1>1, <1>3, <1>4, <1>7, <2>2, FutureShown, FutureShownNext
  <2>4. /\ ShownAll(Future) # <<>> /\ Shown(State)' = Head(ShownAll(Future))
        /\ ShownAll(Future)' = Tail(ShownAll(Future))
    BY <1>7, <2>3
  <2>5. ShownAll(Past)' = Append(ShownAll(Past), Shown(State))
    BY <1>8, <2>1
  <2> QED BY <2>2, <2>4, <2>5 DEF Walk!Redo
<1> QED BY <1>9, <1>10

\* The processor before the first step.
Fresh ==
  /\ \E s \in Starts : gpr = s.gpr /\ fpr = s.fpr /\ mem = s.mem
  /\ pc = 0 /\ aluOp = 0 /\ stall = 0 /\ cycle = 0 /\ retired = 0
  /\ if_id = EmptyIfId /\ id_ex = EmptyIdEx /\ ex_mem = EmptyExMem /\ mem_wb = EmptyMemWb
  /\ undo = <<>> /\ redo = <<>>

\* It is a line of its own.
LEMMA FreshLine ==
  program \in Programs /\ vm \in Vms \cup {"rvss"} /\ Undoable /\ Fresh =>
    /\ HistoryInv
    /\ ShownAll(Past) = <<>> /\ (Repeatable => ShownAll(Future) = <<>>)
<1> SUFFICES ASSUME program \in Programs, vm \in Vms \cup {"rvss"}, Undoable, Fresh
             PROVE  /\ HistoryInv
                    /\ ShownAll(Past) = <<>> /\ (Repeatable => ShownAll(Future) = <<>>)
  OBVIOUS
<1>1. 0 \in Place /\ Nop \in Instruction /\ 0 \in Word
  BY NopIsBubble, WordAssumption, SizeAssumption DEF Place
<1>2. /\ gpr \in [Register -> Word] /\ fpr \in [Register -> Word]
      /\ mem \in [Word -> Word] /\ gpr[0] = 0
  BY StartsAssumption DEF Fresh
<1>3. OfProgram
  BY DEF OfProgram, Known, Fresh, EmptyIfId, EmptyIdEx, EmptyExMem, EmptyMemWb
<1>4. LinkKept
  BY DEF LinkKept, Fresh, EmptyExMem, EmptyMemWb, Nop
<1>5. Machine
  BY <1>1, <1>2, <1>3, <1>4 DEF Machine, Fresh, IfIdType, IdExType, ExMemType, MemWbType,
     EmptyIfId, EmptyIdEx, EmptyExMem, EmptyMemWb
<1>6. Setting /\ undo \in Seq(DeltaType) /\ redo \in Seq(DeltaType)
  BY DEF Setting, Fresh
<1>7. Sound(State)
  BY <1>5, SoundState
<1>8. PICK b : Behind(b) /\ ShownBehind(b, Len(undo)) = <<>>
  BY <1>7, NothingBehind DEF Fresh
<1>9. PICK a : Ahead(a) /\ ShownAhead(a, Len(redo)) = <<>>
  BY <1>7, NothingAhead DEF Fresh
<1>10. HistoryInv
  BY <1>6, <1>8, <1>9 DEF HistoryInv
<1> QED BY <1>6, <1>8, <1>9, <1>10, PastShown, FutureShown

\* The same after a step.
LEMMA FreshLineNext ==
  (program \in Programs /\ vm \in Vms \cup {"rvss"} /\ Undoable /\ Fresh =>
    /\ HistoryInv
    /\ ShownAll(Past) = <<>> /\ (Repeatable => ShownAll(Future) = <<>>))'
BY FreshLine, PTL

\* The history starts there.
LEMMA StartsOnTheLine == InitHistory => HistoryInv /\ Walk!Init
<1> SUFFICES ASSUME InitHistory PROVE HistoryInv /\ Walk!Init
  OBVIOUS
<1>1. program \in Programs /\ vm \in Vms \cup {"rvss"} /\ Undoable /\ Fresh
  BY DEF InitHistory, Fresh
<1>2. HistoryInv /\ ShownAll(Past) = <<>> /\ (Repeatable => ShownAll(Future) = <<>>)
  BY <1>1, FreshLine
<1> QED BY <1>2 DEF Walk!Init

\* And it starts again when a program is loaded.
LEMMA StartsAnew ==
  ASSUME HistoryInv, Reload
  PROVE  HistoryInv' /\ Walk!Restart
<1>1. program' = program /\ vm' = vm
  BY DEF Reload
<1>2. (program \in Programs /\ vm \in Vms \cup {"rvss"} /\ Undoable)'
  BY <1>1, SameSetting DEF HistoryInv, Setting
<1>3. Fresh'
  BY DEF Reload, Fresh
<1>4. HistoryInv' /\ ShownAll(Past)' = <<>> /\ (Repeatable' => ShownAll(Future)' = <<>>)
  BY <1>2, <1>3, FreshLineNext
<1> QED BY <1>4 DEF Walk!Restart

\* What changes nothing stays on the line.
LEMMA Stays ==
  ASSUME HistoryInv, UNCHANGED historyVars
  PROVE  HistoryInv' /\ UNCHANGED Walk!line
<1>1. /\ undo' = undo /\ redo' = redo /\ program' = program /\ vm' = vm /\ aluOp' = aluOp
      /\ pc' = pc /\ if_id' = if_id /\ id_ex' = id_ex /\ ex_mem' = ex_mem /\ mem_wb' = mem_wb
      /\ gpr' = gpr /\ fpr' = fpr /\ mem' = mem /\ stall' = stall
      /\ cycle' = cycle /\ retired' = retired
  <2>1. vars' = vars /\ history' = history
    BY DEF historyVars
  <2>2. latches' = latches
    BY <2>1 DEF vars
  <2> QED BY <2>1, <2>2 DEF history, vars, latches, registers
<1>2. State' = State
  BY <1>1 DEF State, Kept, latches
<1>3. /\ undo \in Seq(DeltaType) /\ redo \in Seq(DeltaType)
      /\ undo' \in Seq(DeltaType) /\ redo' \in Seq(DeltaType)
  BY <1>1 DEF HistoryInv
<1>4. PICK b : Behind(b)
  BY DEF HistoryInv
<1>5. PICK a : Ahead(a)
  BY DEF HistoryInv
<1>6. Behind(b)' /\ Ahead(a)'
  BY <1>1, <1>2, <1>4, <1>5, SameSetting DEF Behind, Ahead
<1>7. HistoryInv'
  BY <1>1, <1>3, <1>6, SameSetting DEF HistoryInv, Setting
<1>8. ShownAll(Past)' = ShownAll(Past) /\ (Repeatable => ShownAll(Future)' = ShownAll(Future))
  BY <1>1, <1>3, <1>4, <1>5, <1>6, PastShown, PastShownNext, FutureShown, FutureShownNext, SameSetting
<1>9. Repeatable' = Repeatable
  BY <1>1, SameSetting
<1> QED BY <1>2, <1>7, <1>8, <1>9 DEF Walk!line

\* Every step of the history is one along the line.
LEMMA WalksOn ==
  HistoryInv /\ [NextHistory]_historyVars => HistoryInv' /\ [Walk!Next]_(Walk!line)
<1> SUFFICES ASSUME HistoryInv, [NextHistory]_historyVars
             PROVE  HistoryInv' /\ [Walk!Next]_(Walk!line)
  OBVIOUS
<1>1. CASE StepSingle \/ StepPipelined
  BY <1>1, Advances DEF Walk!Next
<1>2. CASE Undo
  BY <1>2, GoesBack DEF Walk!Next
<1>3. CASE Repeatable /\ Redo
  BY <1>3, GoesOn DEF Walk!Next
<1>4. CASE Reload
  BY <1>4, StartsAnew DEF Walk!Next
<1>5. CASE UNCHANGED historyVars
  BY <1>5, Stays
<1> QED BY <1>1, <1>2, <1>3, <1>4, <1>5 DEF NextHistory

\* Steps, undo and redo of every processor walk along a line of states, for every program,
\* start, ALU and number of steps.
THEOREM HistoryImplementsTimeline == SpecHistory => ImplementsTimeline
BY StartsOnTheLine, WalksOn, PTL DEF SpecHistory, ImplementsTimeline, Walk!Spec

\* A step that is taken again instead of redone leads to the same state, pipeline registers
\* and stall included, if the ALU does what it did then.
THEOREM StepsAgainTheSameHolds == SpecHistory => StepsAgainTheSame
<1> DEFINE Again == /\ StepSingle \/ StepPipelined
                    /\ redo # <<>> /\ Repeatable /\ SameSignal
                    => State' = Redone(State, Last(redo))
<1>1. InitHistory => HistoryInv
  BY StartsOnTheLine
<1>2. HistoryInv /\ [NextHistory]_historyVars => HistoryInv'
  BY WalksOn
<1>3. HistoryInv => Again
  <2> SUFFICES ASSUME HistoryInv, StepSingle \/ StepPipelined, redo # <<>>, Repeatable, SameSignal
               PROVE  State' = Redone(State, Last(redo))
    OBVIOUS
  <2>1. PICK a : Ahead(a)
    BY DEF HistoryInv
  <2> DEFINE n == Len(redo)
             d == Last(redo)
  <2>2. 1 \in 1 .. n /\ 1 - 1 = 0 /\ n - 1 + 1 = n /\ d = redo[n]
    BY Popped DEF HistoryInv
  <2>3. Joins(a[0], redo[n], a[1]) /\ a[0] = State
    BY <2>1, <2>2 DEF Ahead
  <2>4. Redone(State, d) = After[<<program, vm, State, d.decoded>>]
    BY <2>2, <2>3 DEF Joins
  <2>5. Setting /\ Machine
    BY OnTheLine DEF HistoryInv
  <2>6. GetAluSignal(aluOp, Executing.instr) = GetAluSignal(d.decoded, Executing.instr)
    BY DEF SameSignal
  <2>7. d.decoded \in 0 .. 3
    BY Popped DEF HistoryInv, DeltaType
  <2> HIDE DEF d
  <2>8. State' = After[<<program, vm, State, d.decoded>>]
    BY <2>5, <2>6, <2>7, StepsAfterSingle, StepsAfterPipelined
  <2> QED BY <2>4, <2>8 DEF d
<1>4. HistoryInv /\ [NextHistory]_historyVars => [Again]_historyVars
  BY <1>3
<1> QED BY <1>1, <1>2, <1>4, PTL DEF SpecHistory, StepsAgainTheSame
=============================================================================
