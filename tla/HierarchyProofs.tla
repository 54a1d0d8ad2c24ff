-------------------------- MODULE HierarchyProofs ---------------------------
(***************************************************************************)
(* Why the memory hierarchy is invisible to the program.  LevelProofs is   *)
(* instantiated twice: for L2 over memory, and for L1 and the instruction  *)
(* cache over L2.  What is proved first is that memory keeps the contract  *)
(* of a device, and with it L2; then what every action of MemoryHierarchy  *)
(* does to the three caches; and in the end that what loads see is a flat  *)
(* memory and that fetches see the same.                                   *)
(***************************************************************************)
EXTENDS MemoryHierarchy, TLAPS

\* Under the default size the address space is one cell longer than the memory,
\* and lines reach its end.
Extent == IF MemSize = AddressSpace - 1 THEN AddressSpace ELSE MemSize

MemDev == [cell : [0 .. AddressSpace - 1 -> Values], ok : {TRUE}]
MemHolds(m, a) == m.cell[a]
MemGrain(m) == Extent
MemSound(m, A) == TRUE

LO == INSTANCE LevelProofs
        WITH NextReadLine <- MemReadLine, NextWriteLine <- MemWriteLine,
             NextWrite <- MemWrite, NextOk <- MemOk, Usable <- MemSize,
             Dev <- MemDev, Holds <- MemHolds, Grain <- MemGrain, Sound <- MemSound

\* The settings whose lines fit the address space.
Fitting == {cfg \in CacheConfigs : Extent % cfg.size = 0}

\* L2 in a state an upper cache may find it in, whatever its settings.
L2Dev == UNION {LO!SoundStates(cfg) : cfg \in Fitting}
L2Holds(s, a) == LO!ViewAt(s, a)
L2Grain(s) == s.c.cfg.size
L2Sound(s, A) == LO!Coherent(s, A)

UP == INSTANCE LevelProofs
        WITH NextReadLine <- L2ReadLine, NextWriteLine <- L2WriteLine,
             NextWrite <- L2Write, NextOk <- Lower!Ok, Usable <- MemSize,
             Dev <- L2Dev, Holds <- L2Holds, Grain <- L2Grain, Sound <- L2Sound

-----------------------------------------------------------------------------
(* Main memory as a device. *)

\* The numbers of memory, and what wrapping around makes of the end of a line.
LEMMA ExtentFacts ==
  /\ AddressSpace \in Nat \ {0}
  /\ MemSize \in Nat \ {0}
  /\ Extent \in Nat \ {0}
  /\ MemSize <= Extent
  /\ Extent <= AddressSpace
  /\ 0 \in Values
  /\ Addresses \subseteq LO!Space
  /\ \A a, len \in Nat : a + len <= Extent => LineInRange(a, len)
<1>1. /\ AddressSpace \in Nat \ {0}
      /\ MemSize \in Nat \ {0}
      /\ Extent \in Nat \ {0}
      /\ MemSize <= Extent
      /\ Extent <= AddressSpace
      /\ MemSize < AddressSpace
      /\ Extent = AddressSpace \/ Extent = MemSize
      /\ 0 \in Values
  BY SizeAssumption, ImagesAssumption DEF Extent
<1>2. Addresses \subseteq LO!Space
  BY <1>1 DEF Addresses, LO!Space
<1>3. ASSUME NEW a \in Nat, NEW len \in Nat, a + len <= Extent
      PROVE  LineInRange(a, len)
  <2> DEFINE e == a + len
  <2>1. e \in Nat /\ e <= Extent
    BY <1>3
  <2> HIDE DEF e
  <2>2. CASE e = AddressSpace
    <3>1. e % AddressSpace = 0
      BY <1>1, <2>2
    <3> QED BY <1>1, <3>1 DEF LineInRange, Sum, e
  <2>3. CASE e # AddressSpace
    <3>1. e < AddressSpace /\ e <= MemSize
      BY <1>1, <2>1, <2>3, SizeAssumption DEF Extent
    <3>2. e % AddressSpace = e
      BY <1>1, <2>1, <3>1
    <3> QED BY <3>1, <3>2 DEF LineInRange, Sum, e
  <2> QED BY <2>2, <2>3
<1> QED BY <1>1, <1>2, <1>3

\* The length of a line of cells.
LEMMA LengthIs ==
  ASSUME NEW len \in Nat \ {0}, NEW data \in LO!Cells(len)
  PROVE  Length(data) = len
<1> DEFINE S == {i + 1 : i \in DOMAIN data}
<1>1. DOMAIN data = 0 .. len - 1
  BY DEF LO!Cells
<1>2. len \in S
  BY <1>1
<1>3. \A y \in S : y \in Nat /\ len >= y
  BY <1>1
<1>4. Length(data) = Max(S)
  BY DEF Length
<1> HIDE DEF S
<1>5. \E x \in S : \A y \in S : x >= y
  BY <1>2, <1>3
<1>6. Max(S) \in S /\ \A y \in S : Max(S) >= y
  BY <1>5, Zenon DEF Max
<1>7. Max(S) >= len /\ len >= Max(S) /\ Max(S) \in Nat
  BY <1>2, <1>3, <1>6, Zenon
<1> HIDE DEF S
<1> DEFINE m == Max(S)
<1>8. m >= len /\ len >= m /\ m \in Nat
  BY <1>7
<1> HIDE DEF m
<1>9. m = len
  BY <1>8
<1> QED BY <1>4, <1>9 DEF m

\* A stretch of memory.
LEMMA ChunkOfMemory ==
  ASSUME NEW n, NEW a, NEW len, LO!Chunk(n, a, len)
  PROVE  /\ a \in Nat /\ len \in Nat \ {0} /\ a + len <= Extent
         /\ LineInRange(a, len)
         /\ \A i \in 0 .. len - 1 : a + i \in 0 .. AddressSpace - 1
<1>1. a \in Nat /\ len \in Nat \ {0} /\ a + len <= Extent
  BY DEF LO!Chunk
<1> QED BY <1>1, ExtentFacts

\* What MainMemory::readLine returns.
LEMMA MemoryAnswers ==
  ASSUME NEW n \in MemDev, NEW a, NEW len, LO!Chunk(n, a, len)
  PROVE  LO!Answers(n, MemReadLine(n, a, len), a, len)
<1>1. /\ a \in Nat /\ len \in Nat \ {0}
      /\ LineInRange(a, len)
      /\ \A i \in 0 .. len - 1 : a + i \in 0 .. AddressSpace - 1
  BY ChunkOfMemory
<1> DEFINE data == [i \in 0 .. len - 1 |-> n.cell[a + i]]
           r == MemReadLine(n, a, len)
<1>2. r.n = n /\ r.data = data
  BY <1>1 DEF MemReadLine
<1>3. \A i \in 0 .. len - 1 : n.cell[a + i] \in Values
  BY <1>1 DEF MemDev
<1>4. data \in LO!Cells(len)
  BY <1>3 DEF LO!Cells
<1>5. \A i \in 0 .. len - 1 : data[i] = n.cell[a + i]
  OBVIOUS
<1> HIDE DEF data, r
<1> QED BY <1>2, <1>4, <1>5 DEF LO!Answers, LO!Keeps, MemSound, MemGrain, MemHolds, r

\* What writing over cells of memory makes of it.
LEMMA MemoryObeys ==
  ASSUME NEW n \in MemDev, NEW a \in Nat, NEW len \in Nat \ {0}, NEW data \in LO!Cells(len),
         a + len <= Extent, NEW m, m = [n EXCEPT !.cell = Overwritten(n.cell, a, data)]
  PROVE  LO!Obeys(n, m, a, len, data)
<1> DEFINE new == Overwritten(n.cell, a, data)
<1>1. /\ DOMAIN n.cell = 0 .. AddressSpace - 1
      /\ \A b \in 0 .. AddressSpace - 1 : n.cell[b] \in Values
      /\ DOMAIN data = 0 .. len - 1
      /\ \A i \in 0 .. len - 1 : data[i] \in Values
  BY DEF MemDev, LO!Cells
<1>2. new = [b \in 0 .. AddressSpace - 1 |-> IF b - a \in 0 .. len - 1 THEN data[b - a] ELSE n.cell[b]]
  BY <1>1, Zenon DEF Overwritten
<1>3. new \in [0 .. AddressSpace - 1 -> Values]
  BY <1>1, <1>2
<1>4. \A b \in 0 .. AddressSpace - 1 :
         new[b] = IF b - a \in 0 .. len - 1 THEN data[b - a] ELSE n.cell[b]
  BY <1>2
<1> HIDE DEF new
<1>5. m \in MemDev /\ m.cell = new
  BY <1>3 DEF MemDev, new
<1>6. LO!Space \subseteq 0 .. AddressSpace - 1
  BY ExtentFacts DEF LO!Space
<1>7. \A b \in LO!Space : m.cell[b] = IF b - a \in 0 .. len - 1 THEN data[b - a] ELSE n.cell[b]
  BY <1>4, <1>5, <1>6
<1> QED BY <1>5, <1>7 DEF LO!Obeys, LO!Puts, MemSound, MemGrain, MemHolds

\* MainMemory, whose lines end where the addresses do, keeps the contract.
LEMMA MemoryIsDevice == LO!Device
<1>1. Extent \in Nat \ {0} /\ MemSize \in Nat /\ MemSize <= Extent /\ 0 \in Values
  BY ExtentFacts
<1>2. ASSUME NEW n \in MemDev
      PROVE  LO!Lawful(n)
  <2>1. Extent % Extent = 0
    BY <1>1
  <2> QED BY <1>1, <2>1 DEF LO!Lawful, MemDev, MemOk, MemGrain
<1>3. ASSUME NEW n \in MemDev, NEW a, NEW len, LO!Chunk(n, a, len)
      PROVE  LO!Answers(n, MemReadLine(n, a, len), a, len)
  BY <1>3, MemoryAnswers
<1>4. ASSUME NEW n \in MemDev, NEW a, NEW len, NEW data \in LO!Cells(len), LO!Chunk(n, a, len)
      PROVE  LO!Obeys(n, MemWriteLine(n, a, data), a, len, data)
  <2>1. a \in Nat /\ len \in Nat \ {0} /\ a + len <= Extent /\ LineInRange(a, len)
    BY <1>4, ChunkOfMemory
  <2>2. MemWriteLine(n, a, data) = [n EXCEPT !.cell = Overwritten(n.cell, a, data)]
    <3>1. Length(data) = len
      BY <2>1, LengthIs
    <3> QED BY <2>1, <3>1 DEF MemWriteLine
  <2> QED BY <2>1, <2>2, MemoryObeys
<1>5. ASSUME NEW n \in MemDev, NEW a, NEW len, NEW data \in LO!Cells(len), LO!Piece(n, a, len)
      PROVE  LO!Obeys(n, MemWrite(n, a, data), a, len, data)
  <2>1. a \in Nat /\ len \in Nat \ {0} /\ a + len <= Extent /\ a + len <= MemSize
    BY <1>5, ChunkOfMemory DEF LO!Piece
  <2>2. MemWrite(n, a, data) = [n EXCEPT !.cell = Overwritten(n.cell, a, data)]
    <3>1. Length(data) = len
      BY <2>1, LengthIs
    <3>2. ~OutOfRange(a, len)
      BY <1>1, <2>1 DEF OutOfRange
    <3> QED BY <3>1, <3>2 DEF MemWrite
  <2> QED BY <2>1, <2>2, MemoryObeys
<1> QED BY <1>1, <1>2, <1>3, <1>4, <1>5, Zenon DEF LO!Device

-----------------------------------------------------------------------------
(* The operators of the model and those the lemmas speak of are the same. *)

\* Splitting addresses.
LEMMA LowerSplit ==
  /\ \A c, a : LO!SetOf(c, a) = Lower!SetOf(c, a) /\ LO!Tag(c, a) = Lower!Tag(c, a)
  /\ \A c, a : LO!Offset(c, a) = Lower!Offset(c, a) /\ LO!Aligned(c, a) = Lower!Aligned(c, a)
  /\ \A c, set, tag : LO!LineStart(c, set, tag) = Lower!LineStart(c, set, tag)
  /\ \A c, set, tag : LO!Matching(c, set, tag) = Lower!Matching(c, set, tag)
  /\ \A c, a, len : LO!Spans(c, a, len) <=> Lower!Spans(c, a, len)
  /\ \A c, a : LO!SecondLine(c, a) = Lower!SecondLine(c, a)
  /\ \A c : LO!Ways(c) = Lower!Ways(c)
BY Zenon DEF LO!SetOf, Lower!SetOf, LO!Tag, Lower!Tag, LO!Offset, Lower!Offset, LO!Aligned, Lower!Aligned, LO!LineStart, Lower!LineStart, LO!Matching, Lower!Matching, LO!Block, Lower!Block, LO!Ways, Lower!Ways, LO!Spans, Lower!Spans, LO!SecondLine, Lower!SecondLine

\* Looking an address up.
LEMMA LowerLookup ==
  /\ \A c, a : LO!WayOf(c, a) = Lower!WayOf(c, a)
  /\ \A c, a : LO!Resident(c, a) <=> Lower!Resident(c, a)
  /\ \A c, a : LO!Cell(c, a) = Lower!Cell(c, a)
  /\ \A c, a, len : LO!IsHit(c, a, len) <=> Lower!IsHit(c, a, len)
<1>1. /\ \A c, a : LO!WayOf(c, a) = Lower!WayOf(c, a)
      /\ \A c, a : LO!Resident(c, a) <=> Lower!Resident(c, a)
  BY Zenon DEF LO!WayOf, Lower!WayOf, LO!Resident, Lower!Resident, LO!FindWay, Lower!FindWay, LO!Least, Lower!Least, LO!Matching, Lower!Matching, LO!Ways, Lower!Ways, LO!SetOf, Lower!SetOf, LO!Tag, Lower!Tag, LO!Block, Lower!Block
<1>2. \A c, a : LO!Cell(c, a) = Lower!Cell(c, a)
  BY <1>1, LowerSplit, Zenon DEF LO!Cell, Lower!Cell
<1>3. \A c, a, len : LO!IsHit(c, a, len) <=> Lower!IsHit(c, a, len)
  BY <1>1, Zenon DEF LO!IsHit, Lower!IsHit
<1> QED BY <1>1, <1>2, <1>3

\* Fresh levels.
LEMMA LowerFresh ==
  /\ \A cfg : LO!Setup(cfg) = Lower!Setup(cfg)
  /\ \A c : LO!Reset(c) = Lower!Reset(c)
  /\ \A s : LO!Ok(s) <=> Lower!Ok(s)
  /\ \A s, cfg : LO!Reconfigure(s, cfg) = Lower!Reconfigure(s, cfg)
<1>1. \A cfg : LO!Setup(cfg) = Lower!Setup(cfg) /\ LO!Ranks(cfg) = Lower!Ranks(cfg)
  BY Zenon DEF LO!Setup, Lower!Setup, LO!Ranks, Lower!Ranks, LO!EmptyLine, Lower!EmptyLine
<1>2. \A s : LO!Ok(s) <=> Lower!Ok(s)
  BY Zenon DEF LO!Ok, Lower!Ok
<1>3. \A c : LO!Reset(c) = Lower!Reset(c)
  BY <1>1, Zenon DEF LO!Reset, Lower!Reset
<1>4. \A s, cfg : LO!Reconfigure(s, cfg) = Lower!Reconfigure(s, cfg)
  BY <1>1, <1>2, ZenonT(60) DEF LO!Reconfigure, Lower!Reconfigure
<1> QED BY <1>1, <1>2, <1>3, <1>4

\* Writing back.
LEMMA LowerWriteBack ==
  \A s, set, w : LO!WriteBack(s, set, w) = Lower!WriteBack(s, set, w)
BY DEF LO!WriteBack, Lower!WriteBack, LO!LineStart, Lower!LineStart

\* Evicting.
LEMMA LowerEvict ==
  /\ \A s, set : LO!EvictWay(s, set) = Lower!EvictWay(s, set)
  /\ \A c, set : LO!Free(c, set) = Lower!Free(c, set)
  /\ \A s, set : LO!Evict(s, set) = Lower!Evict(s, set)
<1>1. \A c, set : LO!Free(c, set) = Lower!Free(c, set)
  BY Zenon DEF LO!Free, Lower!Free, LO!Ways, Lower!Ways
<1>2. \A s, set : LO!Victim(s, set) = Lower!Victim(s, set)
  BY Zenon DEF LO!Victim, Lower!Victim, LO!Oldest, Lower!Oldest, LO!ScriptVictim, Lower!ScriptVictim, LO!Custom, Lower!Custom
<1>3. \A S : LO!Least(S) = Lower!Least(S)
  BY Zenon DEF LO!Least, Lower!Least
<1>4. \A s, set : LO!EvictWay(s, set) = Lower!EvictWay(s, set)
  BY <1>1, <1>2, <1>3, Zenon DEF LO!EvictWay, Lower!EvictWay
<1>5. \A s, set : LO!Evict(s, set) = Lower!Evict(s, set)
  <2> SUFFICES ASSUME NEW s, NEW set PROVE LO!Evict(s, set) = Lower!Evict(s, set)
    OBVIOUS
  <2> DEFINE w == LO!EvictWay(s, set)
             s1 == IF s.c.cfg.write = "WriteBack" THEN LO!WriteBack(s, set, w) ELSE s
  <2>1. LO!Evict(s, set) = IF w \notin LO!Ways(s.c) THEN [s EXCEPT !.err = "script"]
                            ELSE IF LO!Free(s.c, set) # {} \/ ~LO!Ok(s1) THEN s1
                            ELSE [s1 EXCEPT !.c.line[set][w].valid = FALSE]
    BY Zenon DEF LO!Evict
  <2> DEFINE v == Lower!EvictWay(s, set)
             s2 == IF s.c.cfg.write = "WriteBack" THEN Lower!WriteBack(s, set, v) ELSE s
  <2>2. Lower!Evict(s, set) = IF v \notin Lower!Ways(s.c) THEN [s EXCEPT !.err = "script"]
                            ELSE IF Lower!Free(s.c, set) # {} \/ ~Lower!Ok(s2) THEN s2
                            ELSE [s2 EXCEPT !.c.line[set][v].valid = FALSE]
    BY Zenon DEF Lower!Evict
  <2>3. v = w
    BY <1>4
  <2>4. s1 = s2
    BY <2>3, LowerWriteBack, Zenon
  <2> HIDE DEF s1, s2, v, w
  <2>5. LO!Ways(s.c) = Lower!Ways(s.c) /\ (LO!Ok(s1) <=> Lower!Ok(s1)) /\ LO!Free(s.c, set) = Lower!Free(s.c, set)
    BY <1>1, LowerSplit, LowerFresh, Zenon
  <2> QED BY <2>1, <2>2, <2>3, <2>4, <2>5
<1> QED BY <1>1, <1>4, <1>5

\* Hits.
LEMMA LowerTouch ==
  \A s, a : LO!TouchAt(s, a) = Lower!TouchAt(s, a)
<1>1. \A order, w, n : LO!Newest(order, w, n) = Lower!Newest(order, w, n)
  BY Zenon DEF LO!Newest, Lower!Newest
<1>2. \A s, hook : LO!CallHook(s, hook) = Lower!CallHook(s, hook)
  BY Zenon DEF LO!CallHook, Lower!CallHook, LO!Custom, Lower!Custom
<1>3. \A s, set, w : LO!TouchWay(s, set, w) = Lower!TouchWay(s, set, w)
  BY <1>1, <1>2, Zenon DEF LO!TouchWay, Lower!TouchWay
<1> QED BY <1>3, LowerSplit, LowerLookup, Zenon DEF LO!TouchAt, Lower!TouchAt

\* Misses.
LEMMA LowerFill ==
  \A s, a : LO!Fill(s, a) = Lower!Fill(s, a)
<1>1. \A order, w, n : LO!Newest(order, w, n) = Lower!Newest(order, w, n)
  BY Zenon DEF LO!Newest, Lower!Newest
<1>2. \A s, hook : LO!CallHook(s, hook) = Lower!CallHook(s, hook)
  BY Zenon DEF LO!CallHook, Lower!CallHook, LO!Custom, Lower!Custom
<1>3. \A s, a, w : LO!BringIn(s, a, w) = Lower!BringIn(s, a, w)
  <2> SUFFICES ASSUME NEW s, NEW a, NEW w PROVE LO!BringIn(s, a, w) = Lower!BringIn(s, a, w)
    OBVIOUS
  <2> DEFINE B(x, n, m, f, g) ==
               [s EXCEPT !.n = n.n,
                         !.c.line[x][w] = [valid |-> TRUE, dirty |-> FALSE, tag |-> m,
                                           data |-> IF MemOk(n.n) THEN n.data ELSE s.c.line[x][w].data],
                         !.c.recency[x] = f,
                         !.c.arrival[x] = g]
             x1 == LO!SetOf(s.c, a)
             b == B(x1, MemReadLine(s.n, LO!Aligned(s.c, a), s.c.cfg.size), LO!Tag(s.c, a),
                    LO!Newest(s.c.recency[x1], w, s.c.cfg.ways), LO!Newest(s.c.arrival[x1], w, s.c.cfg.ways))
             x2 == Lower!SetOf(s.c, a)
             e == B(x2, MemReadLine(s.n, Lower!Aligned(s.c, a), s.c.cfg.size), Lower!Tag(s.c, a),
                    Lower!Newest(s.c.recency[x2], w, s.c.cfg.ways), Lower!Newest(s.c.arrival[x2], w, s.c.cfg.ways))
  <2>1. LO!BringIn(s, a, w) = IF LO!Ok(b) THEN LO!CallHook(b, "onInsert") ELSE b
    BY Zenon DEF LO!BringIn
  <2>2. Lower!BringIn(s, a, w) = IF Lower!Ok(e) THEN Lower!CallHook(e, "onInsert") ELSE e
    BY Zenon DEF Lower!BringIn
  <2> HIDE DEF B
  <2>3. x1 = x2
    BY LowerSplit, Zenon
  <2>4. b = e
    BY <1>1, <2>3, LowerSplit, Zenon
  <2> HIDE DEF b, e
  <2>5. (LO!Ok(b) <=> Lower!Ok(b)) /\ LO!CallHook(b, "onInsert") = Lower!CallHook(b, "onInsert")
    BY <1>2, LowerFresh, Zenon
  <2> QED BY <2>1, <2>2, <2>4, <2>5
<1> QED BY <1>3, LowerEvict, LowerSplit, LowerFresh, Zenon DEF LO!Fill, Lower!Fill

\* Putting bytes into lines.
LEMMA LowerPut ==
  \A c, a, data, len : LO!PutBytes(c, a, data, len) = Lower!PutBytes(c, a, data, len)
<1>1. \A c, a, len, set, w : LO!Landing(c, a, len, set, w) = Lower!Landing(c, a, len, set, w)
  BY LowerSplit, LowerLookup, Zenon DEF LO!Landing, Lower!Landing
<1>2. \A c : LO!Sets(c) = Lower!Sets(c) /\ LO!Offsets(c) = Lower!Offsets(c)
  BY Zenon DEF LO!Sets, Lower!Sets, LO!Offsets, Lower!Offsets
<1>3. \A c : LO!Ways(c) = Lower!Ways(c)
  BY LowerSplit
<1> SUFFICES ASSUME NEW c, NEW a, NEW data, NEW len
             PROVE  LO!PutBytes(c, a, data, len) = Lower!PutBytes(c, a, data, len)
  OBVIOUS
<1> DEFINE o1(i) == LO!Offset(c, a + i)
           o2(i) == Lower!Offset(c, a + i)
           F(h, l) == IF h = {} THEN l
                      ELSE [l EXCEPT
                              !.dirty = (c.cfg.write = "WriteBack"),
                              !.data  = [o \in LO!Offsets(c) |->
                                 IF \E i \in h : o1(i) = o THEN data[CHOOSE i \in h : o1(i) = o]
                                 ELSE l.data[o]]]
           G(h, l) == IF h = {} THEN l
                      ELSE [l EXCEPT
                              !.dirty = (c.cfg.write = "WriteBack"),
                              !.data  = [o \in Lower!Offsets(c) |->
                                 IF \E i \in h : o2(i) = o THEN data[CHOOSE i \in h : o2(i) = o]
                                 ELSE l.data[o]]]
           h1(set, w) == LO!Landing(c, a, len, set, w)
           h2(set, w) == Lower!Landing(c, a, len, set, w)
<1>4. LO!PutBytes(c, a, data, len) =
        [c EXCEPT !.line = [set \in LO!Sets(c) |-> [w \in LO!Ways(c) |-> F(h1(set, w), c.line[set][w])]]]
  BY Zenon DEF LO!PutBytes
<1>5. Lower!PutBytes(c, a, data, len) =
        [c EXCEPT !.line = [set \in Lower!Sets(c) |-> [w \in Lower!Ways(c) |-> G(h2(set, w), c.line[set][w])]]]
  BY Zenon DEF Lower!PutBytes
<1>6. \A i : o1(i) = o2(i)
  BY LowerSplit, Zenon
<1>7. \A set, w : h1(set, w) = h2(set, w)
  BY <1>1, Zenon
<1> HIDE DEF o1, o2, h1, h2
<1>8. \A h, l : F(h, l) = G(h, l)
  BY <1>2, <1>6, Zenon
<1> HIDE DEF F, G
<1>9. [set \in LO!Sets(c) |-> [w \in LO!Ways(c) |-> F(h1(set, w), c.line[set][w])]] =
      [set \in Lower!Sets(c) |-> [w \in Lower!Ways(c) |-> G(h2(set, w), c.line[set][w])]]
  BY <1>2, <1>3, <1>7, <1>8, Zenon
<1> QED BY <1>4, <1>5, <1>9, Zenon

\* readLine.
LEMMA LowerReadLine ==
  \A s, a, len : LO!ReadLine(s, a, len) = Lower!ReadLine(s, a, len)
<1>1. \A s, a : LO!Reach(s, a) = Lower!Reach(s, a)
  BY LowerLookup, LowerTouch, LowerFill, Zenon DEF LO!Reach, Lower!Reach
<1>2. \A s, a, len : LO!LineOf(s, a, len) = Lower!LineOf(s, a, len)
  BY Zenon DEF LO!LineOf, Lower!LineOf, LO!Ok, Lower!Ok, LO!Cell, Lower!Cell, LO!WayOf, Lower!WayOf, LO!FindWay, Lower!FindWay, LO!Least, Lower!Least, LO!Matching, Lower!Matching, LO!Ways, Lower!Ways, LO!SetOf, Lower!SetOf, LO!Tag, Lower!Tag, LO!Block, Lower!Block, LO!Offset, Lower!Offset
<1> QED BY <1>1, <1>2, Zenon DEF LO!ReadLine, Lower!ReadLine

\* writeLine.
LEMMA LowerWriteLine ==
  \A s, a, data, len : LO!WriteLine(s, a, data, len) = Lower!WriteLine(s, a, data, len)
<1>1. \A s, a : LO!Reach(s, a) = Lower!Reach(s, a)
  BY LowerLookup, LowerTouch, LowerFill, Zenon DEF LO!Reach, Lower!Reach
<1>2. \A s, a, data, len : LO!PutLine(s, a, data, len) = Lower!PutLine(s, a, data, len)
  <2> SUFFICES ASSUME NEW s, NEW a, NEW data, NEW len
               PROVE  LO!PutLine(s, a, data, len) = Lower!PutLine(s, a, data, len)
    OBVIOUS
  <2> DEFINE p == LO!PutBytes(s.c, a, data, len)
             q == Lower!PutBytes(s.c, a, data, len)
  <2>1. LO!PutLine(s, a, data, len) =
          IF ~LO!Ok(s) THEN s
          ELSE IF s.c.cfg.write = "WriteThrough"
               THEN [[s EXCEPT !.c = p] EXCEPT !.n = MemWriteLine(@, a, data)] ELSE [s EXCEPT !.c = p]
    BY Zenon DEF LO!PutLine
  <2>2. Lower!PutLine(s, a, data, len) =
          IF ~Lower!Ok(s) THEN s
          ELSE IF s.c.cfg.write = "WriteThrough"
               THEN [[s EXCEPT !.c = q] EXCEPT !.n = MemWriteLine(@, a, data)] ELSE [s EXCEPT !.c = q]
    BY Zenon DEF Lower!PutLine
  <2>3. p = q
    BY LowerPut, Zenon
  <2> HIDE DEF p, q
  <2>4. LO!Ok(s) <=> Lower!Ok(s)
    BY LowerFresh, Zenon
  <2> QED BY <2>1, <2>2, <2>3, <2>4
<1> QED BY <1>1, <1>2, LowerLookup, Zenon DEF LO!WriteLine, Lower!WriteLine

\* The lines of an access.
LEMMA LowerLines ==
  /\ \A s, a, len : LO!TouchLines(s, a, len) = Lower!TouchLines(s, a, len)
  /\ \A s, a, len : LO!BringInLines(s, a, len) = Lower!BringInLines(s, a, len)
  /\ \A s, a, len : LO!Present(s, a, len) = Lower!Present(s, a, len)
<1>1. \A s, a, len : LO!TouchLines(s, a, len) = Lower!TouchLines(s, a, len)
  BY LowerSplit, LowerFresh, LowerTouch, Zenon DEF LO!TouchLines, Lower!TouchLines
<1>2. \A s, a, len : LO!BringInLines(s, a, len) = Lower!BringInLines(s, a, len)
  BY LowerSplit, LowerFresh, LowerFill, Zenon DEF LO!BringInLines, Lower!BringInLines
<1>3. \A s, a, len : LO!Present(s, a, len) = Lower!Present(s, a, len)
  BY LowerFresh, LowerLookup, Zenon DEF LO!Present, Lower!Present
<1> QED BY <1>1, <1>2, <1>3

\* writeGeneric.
LEMMA LowerWriteGeneric ==
  \A s, a, data, len : LO!WriteGeneric(s, a, data, len) = Lower!WriteGeneric(s, a, data, len)
<1>1. \A s, a, data, len : LO!Store(s, a, data, len) = Lower!Store(s, a, data, len)
  <2> SUFFICES ASSUME NEW s, NEW a, NEW data, NEW len
               PROVE  LO!Store(s, a, data, len) = Lower!Store(s, a, data, len)
    OBVIOUS
  <2> DEFINE r == LO!Present(s, a, len)
             p == LO!PutBytes(r.c, a, data, len)
             t == Lower!Present(s, a, len)
             q == Lower!PutBytes(t.c, a, data, len)
  <2>1. LO!Store(s, a, data, len) =
          IF ~LO!Ok(r) THEN r
          ELSE IF s.c.cfg.write = "WriteThrough"
               THEN [[r EXCEPT !.c = p] EXCEPT !.n = MemWrite(@, a, data)] ELSE [r EXCEPT !.c = p]
    BY Zenon DEF LO!Store
  <2>2. Lower!Store(s, a, data, len) =
          IF ~Lower!Ok(t) THEN t
          ELSE IF s.c.cfg.write = "WriteThrough"
               THEN [[t EXCEPT !.c = q] EXCEPT !.n = MemWrite(@, a, data)] ELSE [t EXCEPT !.c = q]
    BY Zenon DEF Lower!Store
  <2>3. r = t
    BY LowerLines, Zenon
  <2>4. p = q
    BY <2>3, LowerPut, Zenon
  <2> HIDE DEF p, q, r, t
  <2>5. LO!Ok(r) <=> Lower!Ok(r)
    BY LowerFresh, Zenon
  <2> QED BY <2>1, <2>2, <2>3, <2>4, <2>5
<1> QED BY <1>1, LowerLookup, LowerLines DEF LO!WriteGeneric, Lower!WriteGeneric

\* Splitting addresses.
LEMMA UpperSplit ==
  /\ \A c, a : UP!SetOf(c, a) = Upper!SetOf(c, a) /\ UP!Tag(c, a) = Upper!Tag(c, a)
  /\ \A c, a : UP!Offset(c, a) = Upper!Offset(c, a) /\ UP!Aligned(c, a) = Upper!Aligned(c, a)
  /\ \A c, set, tag : UP!LineStart(c, set, tag) = Upper!LineStart(c, set, tag)
  /\ \A c, set, tag : UP!Matching(c, set, tag) = Upper!Matching(c, set, tag)
  /\ \A c, a, len : UP!Spans(c, a, len) <=> Upper!Spans(c, a, len)
  /\ \A c, a : UP!SecondLine(c, a) = Upper!SecondLine(c, a)
  /\ \A c : UP!Ways(c) = Upper!Ways(c)
BY Zenon DEF UP!SetOf, Upper!SetOf, UP!Tag, Upper!Tag, UP!Offset, Upper!Offset, UP!Aligned, Upper!Aligned, UP!LineStart, Upper!LineStart, UP!Matching, Upper!Matching, UP!Block, Upper!Block, UP!Ways, Upper!Ways, UP!Spans, Upper!Spans, UP!SecondLine, Upper!SecondLine

\* Looking an address up.
LEMMA UpperLookup ==
  /\ \A c, a : UP!WayOf(c, a) = Upper!WayOf(c, a)
  /\ \A c, a : UP!Resident(c, a) <=> Upper!Resident(c, a)
  /\ \A c, a : UP!Cell(c, a) = Upper!Cell(c, a)
  /\ \A c, a, len : UP!IsHit(c, a, len) <=> Upper!IsHit(c, a, len)
<1>1. /\ \A c, a : UP!WayOf(c, a) = Upper!WayOf(c, a)
      /\ \A c, a : UP!Resident(c, a) <=> Upper!Resident(c, a)
  BY Zenon DEF UP!WayOf, Upper!WayOf, UP!Resident, Upper!Resident, UP!FindWay, Upper!FindWay, UP!Least, Upper!Least, UP!Matching, Upper!Matching, UP!Ways, Upper!Ways, UP!SetOf, Upper!SetOf, UP!Tag, Upper!Tag, UP!Block, Upper!Block
<1>2. \A c, a : UP!Cell(c, a) = Upper!Cell(c, a)
  BY <1>1, UpperSplit, Zenon DEF UP!Cell, Upper!Cell
<1>3. \A c, a, len : UP!IsHit(c, a, len) <=> Upper!IsHit(c, a, len)
  BY <1>1, Zenon DEF UP!IsHit, Upper!IsHit
<1> QED BY <1>1, <1>2, <1>3

\* Fresh levels.
LEMMA UpperFresh ==
  /\ \A cfg : UP!Setup(cfg) = Upper!Setup(cfg)
  /\ \A c : UP!Reset(c) = Upper!Reset(c)
  /\ \A s : UP!Ok(s) <=> Upper!Ok(s)
  /\ \A s, cfg : UP!Reconfigure(s, cfg) = Upper!Reconfigure(s, cfg)
<1>1. \A cfg : UP!Setup(cfg) = Upper!Setup(cfg) /\ UP!Ranks(cfg) = Upper!Ranks(cfg)
  BY Zenon DEF UP!Setup, Upper!Setup, UP!Ranks, Upper!Ranks, UP!EmptyLine, Upper!EmptyLine
<1>2. \A s : UP!Ok(s) <=> Upper!Ok(s)
  BY Zenon DEF UP!Ok, Upper!Ok
<1>3. \A c : UP!Reset(c) = Upper!Reset(c)
  BY <1>1, Zenon DEF UP!Reset, Upper!Reset
<1>4. \A s, cfg : UP!Reconfigure(s, cfg) = Upper!Reconfigure(s, cfg)
  BY <1>1, <1>2, ZenonT(60) DEF UP!Reconfigure, Upper!Reconfigure
<1> QED BY <1>1, <1>2, <1>3, <1>4

\* Writing back.
LEMMA UpperWriteBack ==
  \A s, set, w : UP!WriteBack(s, set, w) = Upper!WriteBack(s, set, w)
BY DEF UP!WriteBack, Upper!WriteBack, UP!LineStart, Upper!LineStart

\* Evicting.
LEMMA UpperEvict ==
  /\ \A s, set : UP!EvictWay(s, set) = Upper!EvictWay(s, set)
  /\ \A c, set : UP!Free(c, set) = Upper!Free(c, set)
  /\ \A s, set : UP!Evict(s, set) = Upper!Evict(s, set)
<1>1. \A c, set : UP!Free(c, set) = Upper!Free(c, set)
  BY Zenon DEF UP!Free, Upper!Free, UP!Ways, Upper!Ways
<1>2. \A s, set : UP!Victim(s, set) = Upper!Victim(s, set)
  BY Zenon DEF UP!Victim, Upper!Victim, UP!Oldest, Upper!Oldest, UP!ScriptVictim, Upper!ScriptVictim, UP!Custom, Upper!Custom
<1>3. \A S : UP!Least(S) = Upper!Least(S)
  BY Zenon DEF UP!Least, Upper!Least
<1>4. \A s, set : UP!EvictWay(s, set) = Upper!EvictWay(s, set)
  BY <1>1, <1>2, <1>3, Zenon DEF UP!EvictWay, Upper!EvictWay
<1>5. \A s, set : UP!Evict(s, set) = Upper!Evict(s, set)
  <2> SUFFICES ASSUME NEW s, NEW set PROVE UP!Evict(s, set) = Upper!Evict(s, set)
    OBVIOUS
  <2> DEFINE w == UP!EvictWay(s, set)
             s1 == IF s.c.cfg.write = "WriteBack" THEN UP!WriteBack(s, set, w) ELSE s
  <2>1. UP!Evict(s, set) = IF w \notin UP!Ways(s.c) THEN [s EXCEPT !.err = "script"]
                            ELSE IF UP!Free(s.c, set) # {} \/ ~UP!Ok(s1) THEN s1
                            ELSE [s1 EXCEPT !.c.line[set][w].valid = FALSE]
    BY Zenon DEF UP!Evict
  <2> DEFINE v == Upper!EvictWay(s, set)
             s2 == IF s.c.cfg.write = "WriteBack" THEN Upper!WriteBack(s, set, v) ELSE s
  <2>2. Upper!Evict(s, set) = IF v \notin Upper!Ways(s.c) THEN [s EXCEPT !.err = "script"]
                            ELSE IF Upper!Free(s.c, set) # {} \/ ~Upper!Ok(s2) THEN s2
                            ELSE [s2 EXCEPT !.c.line[set][v].valid = FALSE]
    BY Zenon DEF Upper!Evict
  <2>3. v = w
    BY <1>4
  <2>4. s1 = s2
    BY <2>3, UpperWriteBack, Zenon
  <2> HIDE DEF s1, s2, v, w
  <2>5. UP!Ways(s.c) = Upper!Ways(s.c) /\ (UP!Ok(s1) <=> Upper!Ok(s1)) /\ UP!Free(s.c, set) = Upper!Free(s.c, set)
    BY <1>1, UpperSplit, UpperFresh, Zenon
  <2> QED BY <2>1, <2>2, <2>3, <2>4, <2>5
<1> QED BY <1>1, <1>4, <1>5

\* Hits.
LEMMA UpperTouch ==
  \A s, a : UP!TouchAt(s, a) = Upper!TouchAt(s, a)
<1>1. \A order, w, n : UP!Newest(order, w, n) = Upper!Newest(order, w, n)
  BY Zenon DEF UP!Newest, Upper!Newest
<1>2. \A s, hook : UP!CallHook(s, hook) = Upper!CallHook(s, hook)
  BY Zenon DEF UP!CallHook, Upper!CallHook, UP!Custom, Upper!Custom
<1>3. \A s, set, w : UP!TouchWay(s, set, w) = Upper!TouchWay(s, set, w)
  BY <1>1, <1>2, Zenon DEF UP!TouchWay, Upper!TouchWay
<1> QED BY <1>3, UpperSplit, UpperLookup, Zenon DEF UP!TouchAt, Upper!TouchAt

\* Misses.
LEMMA UpperFill ==
  \A s, a : UP!Fill(s, a) = Upper!Fill(s, a)
<1>1. \A order, w, n : UP!Newest(order, w, n) = Upper!Newest(order, w, n)
  BY Zenon DEF UP!Newest, Upper!Newest
<1>2. \A s, hook : UP!CallHook(s, hook) = Upper!CallHook(s, hook)
  BY Zenon DEF UP!CallHook, Upper!CallHook, UP!Custom, Upper!Custom
<1>3. \A s, a, w : UP!BringIn(s, a, w) = Upper!BringIn(s, a, w)
  <2> SUFFICES ASSUME NEW s, NEW a, NEW w PROVE UP!BringIn(s, a, w) = Upper!BringIn(s, a, w)
    OBVIOUS
  <2> DEFINE B(x, n, m, f, g) ==
               [s EXCEPT !.n = n.n,
                         !.c.line[x][w] = [valid |-> TRUE, dirty |-> FALSE, tag |-> m,
                                           data |-> IF Lower!Ok(n.n) THEN n.data ELSE s.c.line[x][w].data],
                         !.c.recency[x] = f,
                         !.c.arrival[x] = g]
             x1 == UP!SetOf(s.c, a)
             b == B(x1, L2ReadLine(s.n, UP!Aligned(s.c, a), s.c.cfg.size), UP!Tag(s.c, a),
                    UP!Newest(s.c.recency[x1], w, s.c.cfg.ways), UP!Newest(s.c.arrival[x1], w, s.c.cfg.ways))
             x2 == Upper!SetOf(s.c, a)
             e == B(x2, L2ReadLine(s.n, Upper!Aligned(s.c, a), s.c.cfg.size), Upper!Tag(s.c, a),
                    Upper!Newest(s.c.recency[x2], w, s.c.cfg.ways), Upper!Newest(s.c.arrival[x2], w, s.c.cfg.ways))
  <2>1. UP!BringIn(s, a, w) = IF UP!Ok(b) THEN UP!CallHook(b, "onInsert") ELSE b
    BY Zenon DEF UP!BringIn
  <2>2. Upper!BringIn(s, a, w) = IF Upper!Ok(e) THEN Upper!CallHook(e, "onInsert") ELSE e
    BY Zenon DEF Upper!BringIn
  <2> HIDE DEF B
  <2>3. x1 = x2
    BY UpperSplit, Zenon
  <2>4. b = e
    BY <1>1, <2>3, UpperSplit, Zenon
  <2> HIDE DEF b, e
  <2>5. (UP!Ok(b) <=> Upper!Ok(b)) /\ UP!CallHook(b, "onInsert") = Upper!CallHook(b, "onInsert")
    BY <1>2, UpperFresh, Zenon
  <2> QED BY <2>1, <2>2, <2>4, <2>5
<1> QED BY <1>3, UpperEvict, UpperSplit, UpperFresh, Zenon DEF UP!Fill, Upper!Fill

\* Putting bytes into lines.
LEMMA UpperPut ==
  \A c, a, data, len : UP!PutBytes(c, a, data, len) = Upper!PutBytes(c, a, data, len)
<1>1. \A c, a, len, set, w : UP!Landing(c, a, len, set, w) = Upper!Landing(c, a, len, set, w)
  BY UpperSplit, UpperLookup, Zenon DEF UP!Landing, Upper!Landing
<1>2. \A c : UP!Sets(c) = Upper!Sets(c) /\ UP!Offsets(c) = Upper!Offsets(c)
  BY Zenon DEF UP!Sets, Upper!Sets, UP!Offsets, Upper!Offsets
<1>3. \A c : UP!Ways(c) = Upper!Ways(c)
  BY UpperSplit
<1> SUFFICES ASSUME NEW c, NEW a, NEW data, NEW len
             PROVE  UP!PutBytes(c, a, data, len) = Upper!PutBytes(c, a, data, len)
  OBVIOUS
<1> DEFINE o1(i) == UP!Offset(c, a + i)
           o2(i) == Upper!Offset(c, a + i)
           F(h, l) == IF h = {} THEN l
                      ELSE [l EXCEPT
                              !.dirty = (c.cfg.write = "WriteBack"),
                              !.data  = [o \in UP!Offsets(c) |->
                                 IF \E i \in h : o1(i) = o THEN data[CHOOSE i \in h : o1(i) = o]
                                 ELSE l.data[o]]]
           G(h, l) == IF h = {} THEN l
                      ELSE [l EXCEPT
                              !.dirty = (c.cfg.write = "WriteBack"),
                              !.data  = [o \in Upper!Offsets(c) |->
                                 IF \E i \in h : o2(i) = o THEN data[CHOOSE i \in h : o2(i) = o]
                                 ELSE l.data[o]]]
           h1(set, w) == UP!Landing(c, a, len, set, w)
           h2(set, w) == Upper!Landing(c, a, len, set, w)
<1>4. UP!PutBytes(c, a, data, len) =
        [c EXCEPT !.line = [set \in UP!Sets(c) |-> [w \in UP!Ways(c) |-> F(h1(set, w), c.line[set][w])]]]
  BY Zenon DEF UP!PutBytes
<1>5. Upper!PutBytes(c, a, data, len) =
        [c EXCEPT !.line = [set \in Upper!Sets(c) |-> [w \in Upper!Ways(c) |-> G(h2(set, w), c.line[set][w])]]]
  BY Zenon DEF Upper!PutBytes
<1>6. \A i : o1(i) = o2(i)
  BY UpperSplit, Zenon
<1>7. \A set, w : h1(set, w) = h2(set, w)
  BY <1>1, Zenon
<1> HIDE DEF o1, o2, h1, h2
<1>8. \A h, l : F(h, l) = G(h, l)
  BY <1>2, <1>6, Zenon
<1> HIDE DEF F, G
<1>9. [set \in UP!Sets(c) |-> [w \in UP!Ways(c) |-> F(h1(set, w), c.line[set][w])]] =
      [set \in Upper!Sets(c) |-> [w \in Upper!Ways(c) |-> G(h2(set, w), c.line[set][w])]]
  BY <1>2, <1>3, <1>7, <1>8, Zenon
<1> QED BY <1>4, <1>5, <1>9, Zenon

\* The lines of an access.
LEMMA UpperLines ==
  /\ \A s, a, len : UP!TouchLines(s, a, len) = Upper!TouchLines(s, a, len)
  /\ \A s, a, len : UP!BringInLines(s, a, len) = Upper!BringInLines(s, a, len)
  /\ \A s, a, len : UP!Present(s, a, len) = Upper!Present(s, a, len)
<1>1. \A s, a, len : UP!TouchLines(s, a, len) = Upper!TouchLines(s, a, len)
  BY UpperSplit, UpperFresh, UpperTouch, Zenon DEF UP!TouchLines, Upper!TouchLines
<1>2. \A s, a, len : UP!BringInLines(s, a, len) = Upper!BringInLines(s, a, len)
  BY UpperSplit, UpperFresh, UpperFill, Zenon DEF UP!BringInLines, Upper!BringInLines
<1>3. \A s, a, len : UP!Present(s, a, len) = Upper!Present(s, a, len)
  BY UpperFresh, UpperLookup, Zenon DEF UP!Present, Upper!Present
<1> QED BY <1>1, <1>2, <1>3

\* readGeneric.
LEMMA UpperReadGeneric ==
  \A s, a, len : UP!ReadGeneric(s, a, len) = Upper!ReadGeneric(s, a, len)
<1> SUFFICES ASSUME NEW s, NEW a, NEW len
             PROVE  UP!ReadGeneric(s, a, len) = Upper!ReadGeneric(s, a, len)
  OBVIOUS
<1> DEFINE s1 == UP!Present(IF UP!IsHit(s.c, a, len) THEN UP!TouchLines(s, a, len)
                             ELSE UP!BringInLines(s, a, len), a, len)
           s2 == Upper!Present(IF Upper!IsHit(s.c, a, len) THEN Upper!TouchLines(s, a, len)
                             ELSE Upper!BringInLines(s, a, len), a, len)
<1>1. s1 = s2
  BY UpperLookup, UpperLines, Zenon
<1>2. UP!ReadGeneric(s, a, len) =
        [s |-> s1, data |-> IF UP!Ok(s1) THEN [i \in 0 .. len - 1 |-> UP!Cell(s1.c, a + i)] ELSE <<>>]
  BY Zenon DEF UP!ReadGeneric
<1>3. Upper!ReadGeneric(s, a, len) =
        [s |-> s2, data |-> IF Upper!Ok(s2) THEN [i \in 0 .. len - 1 |-> Upper!Cell(s2.c, a + i)] ELSE <<>>]
  BY Zenon DEF Upper!ReadGeneric
<1> HIDE DEF s1, s2
<1>4. [i \in 0 .. len - 1 |-> UP!Cell(s1.c, a + i)] = [i \in 0 .. len - 1 |-> Upper!Cell(s1.c, a + i)]
  BY UpperLookup, Zenon
<1> QED BY <1>1, <1>2, <1>3, <1>4, UpperFresh, Zenon

\* writeGeneric.
LEMMA UpperWriteGeneric ==
  \A s, a, data, len : UP!WriteGeneric(s, a, data, len) = Upper!WriteGeneric(s, a, data, len)
<1>1. \A s, a, data, len : UP!Store(s, a, data, len) = Upper!Store(s, a, data, len)
  <2> SUFFICES ASSUME NEW s, NEW a, NEW data, NEW len
               PROVE  UP!Store(s, a, data, len) = Upper!Store(s, a, data, len)
    OBVIOUS
  <2> DEFINE r == UP!Present(s, a, len)
             p == UP!PutBytes(r.c, a, data, len)
             t == Upper!Present(s, a, len)
             q == Upper!PutBytes(t.c, a, data, len)
  <2>1. UP!Store(s, a, data, len) =
          IF ~UP!Ok(r) THEN r
          ELSE IF s.c.cfg.write = "WriteThrough"
               THEN [[r EXCEPT !.c = p] EXCEPT !.n = L2Write(@, a, data)] ELSE [r EXCEPT !.c = p]
    BY Zenon DEF UP!Store
  <2>2. Upper!Store(s, a, data, len) =
          IF ~Upper!Ok(t) THEN t
          ELSE IF s.c.cfg.write = "WriteThrough"
               THEN [[t EXCEPT !.c = q] EXCEPT !.n = L2Write(@, a, data)] ELSE [t EXCEPT !.c = q]
    BY Zenon DEF Upper!Store
  <2>3. r = t
    BY UpperLines, Zenon
  <2>4. p = q
    BY <2>3, UpperPut, Zenon
  <2> HIDE DEF p, q, r, t
  <2>5. UP!Ok(r) <=> Upper!Ok(r)
    BY UpperFresh, Zenon
  <2> QED BY <2>1, <2>2, <2>3, <2>4, <2>5
<1> QED BY <1>1, UpperLookup, UpperLines DEF UP!WriteGeneric, Upper!WriteGeneric

-----------------------------------------------------------------------------
(* L2 as a device. *)

\* The same sets, seen from either instance.
LEMMA SameSets ==
  /\ LO!CacheConfigs = CacheConfigs /\ UP!CacheConfigs = CacheConfigs
  /\ UP!Space = LO!Space
  /\ \A len : UP!Cells(len) = LO!Cells(len)
  /\ \A cfg : LO!Geometry(cfg) <=> cfg \in Fitting
  /\ \A cfg : UP!Geometry(cfg) <=> cfg \in Fitting
  /\ UP!Silent = LO!Silent /\ Quiet = LO!Silent
<1>1. LO!CacheConfigs = CacheConfigs /\ UP!CacheConfigs = CacheConfigs
  BY Zenon DEF LO!CacheConfigs, UP!CacheConfigs, CacheConfigs
<1>2. UP!Space = LO!Space /\ \A len : UP!Cells(len) = LO!Cells(len)
  BY Zenon DEF LO!Space, UP!Space, LO!Cells, UP!Cells
<1>3. (\A cfg : LO!Geometry(cfg) <=> cfg \in Fitting) /\ (\A cfg : UP!Geometry(cfg) <=> cfg \in Fitting)
  BY <1>1 DEF LO!Geometry, UP!Geometry, Fitting
<1>4. UP!Silent = LO!Silent /\ Quiet = LO!Silent
  BY Zenon DEF UP!Silent, LO!Silent, Quiet
<1> QED BY <1>1, <1>2, <1>3, <1>4

\* The settings of a state of L2.
LEMMA L2Facts ==
  ASSUME NEW n \in L2Dev, NEW cfg, cfg = n.c.cfg
  PROVE  /\ cfg \in Fitting
         /\ LO!Geometry(cfg)
         /\ n \in LO!SoundStates(cfg)
         /\ n \in LO!States(cfg)
         /\ L2Grain(n) = cfg.size
         /\ cfg.size \in Nat \ {0}
         /\ Extent % cfg.size = 0
<1>1. PICK k \in Fitting : n \in LO!SoundStates(k)
  BY DEF L2Dev
<1>2. n \in LO!States(k)
  BY <1>1 DEF LO!SoundStates
<1>3. n.c.cfg = k
  BY <1>2, LO!StateFacts
<1>4. LO!Geometry(k) /\ k.size \in Nat \ {0} /\ Extent % k.size = 0
  BY SameSets, LO!GeometryFacts
<1> QED BY <1>1, <1>2, <1>3, <1>4 DEF L2Grain

\* Any state of L2 that LevelProofs speaks of is one.
LEMMA L2Member ==
  ASSUME NEW cfg \in Fitting, NEW n \in LO!SoundStates(cfg)
  PROVE  n \in L2Dev /\ n.c.cfg = cfg /\ L2Grain(n) = cfg.size
<1>1. n \in LO!States(cfg)
  BY DEF LO!SoundStates
<1>2. n.c.cfg = cfg
  BY <1>1, LO!StateFacts
<1> QED BY <1>2 DEF L2Dev, L2Grain

\* A stretch within one of its lines is not longer than one.
LEMMA ChunkOfL2 ==
  ASSUME NEW n \in L2Dev, NEW a, NEW len, UP!Chunk(n, a, len)
  PROVE  /\ a \in Nat /\ len \in Nat \ {0} /\ a + len <= Extent
         /\ LO!Within(n.c, a, len)
         /\ ~TooLong(n, len)
<1> DEFINE g == n.c.cfg.size
           q == a \div g
           e == a + (len - 1)
<1>1. a \in Nat /\ len \in Nat \ {0} /\ a + len <= Extent /\ g \in Nat \ {0}
  BY L2Facts DEF UP!Chunk
<1>2. \A i \in 0 .. len - 1 : (a + i) \div g = q
  BY DEF UP!Chunk, L2Grain
<1>3. LO!Within(n.c, a, len)
  BY <1>2 DEF LO!Within, LO!Block
<1>4. e \div g = q /\ e \in Nat
  BY <1>1, <1>2
<1> HIDE DEF e, g
<1>5. /\ q \in Nat
      /\ a % g \in 0 .. g - 1 /\ a = g * q + (a % g)
      /\ e % g \in 0 .. g - 1 /\ e = g * q + (e % g)
  BY <1>1, <1>4, LO!DivMod
<1> DEFINE p == g * q
           x == a % g
           y == e % g
<1>6. p \in Nat
  BY <1>1, <1>5
<1>7. x \in 0 .. g - 1 /\ y \in 0 .. g - 1 /\ a = p + x /\ e = p + y
  BY <1>5
<1> HIDE DEF p, x, y, q
<1>8. len <= g
  BY <1>1, <1>6, <1>7 DEF e
<1> QED BY <1>1, <1>3, <1>8 DEF TooLong, g

\* readLine of L2.
LEMMA L2Answers ==
  ASSUME NEW n \in L2Dev, NEW a, NEW len, UP!Chunk(n, a, len)
  PROVE  UP!Answers(n, L2ReadLine(n, a, len), a, len)
<1> DEFINE cfg == n.c.cfg
           r == L2ReadLine(n, a, len)
<1>1. /\ cfg \in Fitting
      /\ LO!Geometry(cfg)
      /\ n \in LO!SoundStates(cfg)
      /\ L2Grain(n) = cfg.size
  BY L2Facts
<1>2. /\ a \in Nat /\ len \in Nat \ {0} /\ a + len <= Extent
      /\ LO!Within(n.c, a, len)
      /\ ~TooLong(n, len)
  BY ChunkOfL2
<1>3. r = LO!ReadLine(n, a, len)
  BY <1>2, LowerReadLine, Zenon DEF L2ReadLine
<1>4. LO!LevelAnswers(cfg, n, r, a, len)
  <2>1. LO!LevelAnswers(cfg, n, LO!ReadLine(n, a, len), a, len)
    BY <1>1, <1>2, MemoryIsDevice, LO!LevelAnswersLine
  <2> QED BY <1>3, <2>1, Zenon
<1> HIDE DEF r, cfg
<1>5. r.n \in LO!SoundStates(cfg) /\ r.data \in LO!Cells(len)
  BY <1>4, Zenon DEF LO!LevelAnswers
<1>6. r.n \in L2Dev /\ L2Grain(r.n) = cfg.size
  BY <1>1, <1>5, L2Member
<1>7. ASSUME NEW A \in SUBSET UP!Space, L2Sound(n, A)
      PROVE  /\ UP!Keeps(n, r.n, A)
             /\ \A i \in 0 .. len - 1 : a + i \in A => r.data[i] = L2Holds(n, a + i)
  <2>1. A \in SUBSET LO!Space /\ LO!Coherent(n, A)
    BY <1>7, SameSets DEF L2Sound
  <2>2. /\ LO!LevelKeeps(n, r.n, A)
        /\ \A i \in 0 .. len - 1 : a + i \in A => r.data[i] = LO!ViewAt(n, a + i)
    BY <1>4, <2>1, Zenon DEF LO!LevelAnswers
  <2> QED BY <2>2, Zenon DEF LO!LevelKeeps, UP!Keeps, L2Sound, L2Holds
<1> QED BY <1>1, <1>5, <1>6, <1>7, SameSets, Zenon DEF UP!Answers, r

\* What a write of L2 leaves, as the caches above see it.
LEMMA L2Obeyed ==
  ASSUME NEW n \in L2Dev, NEW cfg, cfg = n.c.cfg, NEW m, NEW a, NEW len, NEW data,
         LO!LevelObeys(cfg, n, m, a, len, data)
  PROVE  UP!Obeys(n, m, a, len, data)
<1>1. cfg \in Fitting /\ L2Grain(n) = cfg.size
  BY L2Facts
<1>2. m \in LO!SoundStates(cfg)
  BY Zenon DEF LO!LevelObeys
<1>3. m \in L2Dev /\ L2Grain(m) = cfg.size
  BY <1>1, <1>2, L2Member
<1>4. ASSUME NEW A \in SUBSET UP!Space, L2Sound(n, A)
      PROVE  UP!Puts(n, m, A, a, len, data)
  <2>1. A \in SUBSET LO!Space /\ LO!Coherent(n, A)
    BY <1>4, SameSets DEF L2Sound
  <2>2. LO!LevelPuts(n, m, A, a, len, data)
    BY <2>1, Zenon DEF LO!LevelObeys
  <2> QED BY <2>2, Zenon DEF LO!LevelPuts, UP!Puts, L2Sound, L2Holds
<1> QED BY <1>1, <1>3, <1>4, Zenon DEF UP!Obeys

\* L2 over memory, whatever its settings, keeps the contract that L1 and the
\* instruction cache rely on.
THEOREM L2IsDevice == UP!Device
<1>1. Extent \in Nat \ {0} /\ MemSize \in Nat /\ MemSize <= Extent /\ 0 \in Values
  BY ExtentFacts
<1>2. ASSUME NEW n \in L2Dev
      PROVE  UP!Lawful(n)
  <2>1. /\ LO!Geometry(n.c.cfg)
        /\ n \in LO!States(n.c.cfg)
        /\ L2Grain(n) = n.c.cfg.size
        /\ n.c.cfg.size \in Nat \ {0}
        /\ Extent % n.c.cfg.size = 0
    BY L2Facts
  <2>2. Lower!Ok(n)
    BY <2>1, MemoryIsDevice, LO!StateOk, LowerFresh
  <2> QED BY <2>1, <2>2, Zenon DEF UP!Lawful
<1>3. ASSUME NEW n \in L2Dev, NEW a, NEW len, UP!Chunk(n, a, len)
      PROVE  UP!Answers(n, L2ReadLine(n, a, len), a, len)
  BY <1>3, L2Answers
<1>4. ASSUME NEW n \in L2Dev, NEW a, NEW len, NEW data \in UP!Cells(len), UP!Chunk(n, a, len)
      PROVE  UP!Obeys(n, L2WriteLine(n, a, data), a, len, data)
  <2>1. /\ a \in Nat /\ len \in Nat \ {0} /\ a + len <= Extent
        /\ LO!Within(n.c, a, len)
        /\ ~TooLong(n, len)
    BY <1>4, ChunkOfL2
  <2>2. data \in LO!Cells(len)
    BY SameSets
  <2>3. Length(data) = len
    BY <2>1, <2>2, LengthIs
  <2>4. L2WriteLine(n, a, data) = LO!WriteLine(n, a, data, len)
    BY <2>1, <2>3, LowerWriteLine, Zenon DEF L2WriteLine
  <2>5. LO!Geometry(n.c.cfg) /\ n \in LO!SoundStates(n.c.cfg)
    BY L2Facts
  <2>6. LO!LevelObeys(n.c.cfg, n, LO!WriteLine(n, a, data, len), a, len, data)
    BY <2>1, <2>2, <2>5, MemoryIsDevice, LO!LevelObeysLine
  <2> QED BY <2>4, <2>6, L2Obeyed
<1>5. ASSUME NEW n \in L2Dev, NEW a, NEW len, NEW data \in UP!Cells(len), UP!Piece(n, a, len)
      PROVE  UP!Obeys(n, L2Write(n, a, data), a, len, data)
  <2>1. /\ a \in Nat /\ len \in Nat \ {0} /\ a + len <= MemSize
        /\ LO!Within(n.c, a, len)
    BY <1>5, ChunkOfL2 DEF UP!Piece
  <2>2. data \in LO!Cells(len)
    BY SameSets
  <2>3. Length(data) = len
    BY <2>1, <2>2, LengthIs
  <2>4. L2Write(n, a, data) = LO!WriteGeneric(n, a, data, len)
    BY <2>3, LowerWriteGeneric, Zenon DEF L2Write
  <2>5. LO!Geometry(n.c.cfg) /\ n \in LO!SoundStates(n.c.cfg)
    BY L2Facts
  <2>6. LO!LevelObeys(n.c.cfg, n, LO!WriteGeneric(n, a, data, len), a, len, data)
    BY <2>1, <2>2, <2>5, MemoryIsDevice, LO!LevelObeysWrite
  <2> QED BY <2>4, <2>6, L2Obeyed
<1> QED BY <1>1, <1>2, <1>3, <1>4, <1>5, Zenon DEF UP!Device

-----------------------------------------------------------------------------
(* The settings, and what is assumed of them. *)

DataSettings        == L1Configs \cup {DefaultConfig}
InstructionSettings == InstructionConfigs \cup {DefaultConfig}
UpperSettings       == DataSettings \cup InstructionSettings

\* No access of the program spans two lines of L1.
NoSpanning ==
  \A acc \in Accesses, cfg \in DataSettings :
    \A i \in 0 .. acc[2] - 1 : (acc[1] + i) \div cfg.size = acc[1] \div cfg.size

\* The lines the user chooses for L2 are made of whole lines of the caches above,
\* and the memory of whole lines of L2.
LinesNest ==
  \A cfg \in L2Configs \cup {DefaultConfig} :
    /\ Extent % cfg.size = 0
    /\ \A upper \in UpperSettings : cfg.size % upper.size = 0

L2Settings == {cfg \in Fitting : \A upper \in UpperSettings : cfg.size % upper.size = 0}

Widgets == [l1 : DataSettings, instruction : InstructionSettings, l2 : L2Settings]

\* What divides a divisor.
LEMMA DividesTransitive ==
  ASSUME NEW k \in Nat, NEW m \in Nat \ {0}, NEW n \in Nat \ {0}, k % m = 0, m % n = 0
  PROVE  k % n = 0
<1> DEFINE q == k \div m
           p == m \div n
<1>1. q \in Nat /\ p \in Nat /\ k = m * q /\ m = n * p
  BY LO!Multiple
<1> HIDE DEF q, p
<1>2. k = n * (p * q) /\ p * q \in Nat
  BY <1>1
<1> DEFINE r == p * q
<1>3. k = n * r + 0 /\ r \in Nat
  <2>1. n * r \in Nat
    BY <1>2
  <2> QED BY <1>2, <2>1
<1> HIDE DEF r
<1>4. (n * r + 0) % n = 0
  <2>1. 0 \in 0 .. n - 1
    OBVIOUS
  <2> QED BY <1>3, <2>1, LO!DivModUnique, Zenon
<1> QED BY <1>3, <1>4

\* A multiple is not smaller.
LEMMA MultipleIsLarger ==
  ASSUME NEW m \in Nat \ {0}, NEW n \in Nat \ {0}, m % n = 0
  PROVE  n <= m
<1> SUFFICES ASSUME m < n PROVE FALSE
  OBVIOUS
<1>1. m % n = m
  OBVIOUS
<1> QED BY <1>1

\* Every cache can have any of its settings.
LEMMA SettingsFit ==
  ASSUME LinesNest
  PROVE  /\ UpperSettings \subseteq Fitting
         /\ DefaultConfig \in L2Settings
         /\ L2Configs \subseteq L2Settings
         /\ \A cfg \in L2Settings : cfg \in Fitting /\ \A upper \in UpperSettings : upper.size <= cfg.size
         /\ \A cfg \in Fitting : cfg \in CacheConfigs /\ cfg.size \in Nat \ {0}
<1>1. {DefaultConfig} \cup L1Configs \cup InstructionConfigs \cup L2Configs \subseteq CacheConfigs
  BY ConfigsAssumption
<1>2. \A cfg \in CacheConfigs : cfg.size \in Nat \ {0} /\ cfg.sets \in Nat \ {0} /\ cfg.ways \in Nat \ {0}
  BY DEF CacheConfigs
<1>3. \A cfg \in L2Configs \cup {DefaultConfig} : cfg \in L2Settings
  BY <1>1, Zenon DEF LinesNest, L2Settings, Fitting
<1>4. UpperSettings \subseteq CacheConfigs
  BY <1>1 DEF UpperSettings, DataSettings, InstructionSettings
<1>5. ASSUME NEW upper \in UpperSettings PROVE upper \in Fitting
  <2>1. DefaultConfig.size \in Nat \ {0} /\ upper.size \in Nat \ {0} /\ Extent \in Nat
    BY <1>1, <1>2, <1>4, ExtentFacts
  <2>2. Extent % DefaultConfig.size = 0 /\ DefaultConfig.size % upper.size = 0
    BY Zenon DEF LinesNest
  <2>3. Extent % upper.size = 0
    BY <2>1, <2>2, DividesTransitive
  <2> QED BY <1>4, <2>3 DEF Fitting
<1>6. ASSUME NEW cfg \in L2Settings, NEW upper \in UpperSettings PROVE upper.size <= cfg.size
  <2>1. cfg.size \in Nat \ {0} /\ upper.size \in Nat \ {0} /\ cfg.size % upper.size = 0
    BY <1>2, <1>4 DEF L2Settings, Fitting
  <2> QED BY <2>1, MultipleIsLarger
<1> QED BY <1>2, <1>3, <1>5, <1>6 DEF L2Settings, Fitting

\* The largest of three numbers.
LEMMA LargestOfThree ==
  ASSUME NEW x \in Nat \ {0}, NEW y \in Nat \ {0}, NEW z \in Nat \ {0}
  PROVE  /\ Max({x, y, z}) \in Nat \ {0}
         /\ x <= z /\ y <= z => Max({x, y, z}) = z
<1> DEFINE S == {x, y, z}
           m == Max(S)
<1>1. \E u \in S : \A v \in S : u >= v
  <2>1. CASE x >= y /\ x >= z
    BY <2>1
  <2>2. CASE y >= x /\ y >= z
    BY <2>2
  <2>3. CASE z >= x /\ z >= y
    BY <2>3
  <2> QED BY <2>1, <2>2, <2>3
<1>2. m \in S /\ \A v \in S : m >= v
  <2> HIDE DEF S
  <2> QED BY <1>1, Zenon DEF Max
<1>3. m \in S /\ m >= x /\ m >= y /\ m >= z
  BY <1>2
<1> HIDE DEF m
<1> QED BY <1>3 DEF m

\* enforceL2AtLeastL1 leaves the lines of L2 as they are.
LEMMA EnforcedFits ==
  ASSUME LinesNest, NEW w \in Widgets
  PROVE  /\ Enforced(w) \in Widgets
         /\ Enforced(w).l1 = w.l1
         /\ Enforced(w).instruction = w.instruction
<1>1. /\ w.l1 \in DataSettings /\ w.instruction \in InstructionSettings /\ w.l2 \in L2Settings
      /\ w.l1 \in UpperSettings /\ w.instruction \in UpperSettings
  BY DEF Widgets, UpperSettings
<1>2. w.l1 \in CacheConfigs /\ w.instruction \in CacheConfigs /\ w.l2 \in CacheConfigs
  BY <1>1, SettingsFit
<1> DEFINE sets == Larger("sets", w)
           ways == Larger("ways", w)
           size == Larger("size", w)
           l2new == [w.l2 EXCEPT !.sets = sets, !.ways = ways, !.size = size]
           e == [w EXCEPT !.l2 = l2new]
<1>3. /\ sets = Max({w.l1.sets, w.instruction.sets, w.l2.sets})
      /\ ways = Max({w.l1.ways, w.instruction.ways, w.l2.ways})
      /\ size = Max({w.l1.size, w.instruction.size, w.l2.size})
  BY DEF Larger
<1>4. w.l1.size <= w.l2.size /\ w.instruction.size <= w.l2.size
  BY <1>1, SettingsFit
<1>5. sets \in Nat \ {0} /\ ways \in Nat \ {0} /\ size = w.l2.size
  <2>1. /\ w.l1.sets \in Nat \ {0} /\ w.instruction.sets \in Nat \ {0} /\ w.l2.sets \in Nat \ {0}
        /\ w.l1.ways \in Nat \ {0} /\ w.instruction.ways \in Nat \ {0} /\ w.l2.ways \in Nat \ {0}
        /\ w.l1.size \in Nat \ {0} /\ w.instruction.size \in Nat \ {0} /\ w.l2.size \in Nat \ {0}
    BY <1>2 DEF CacheConfigs
  <2> HIDE DEF sets, ways, size
  <2>2. sets \in Nat \ {0}
    BY <1>3, <2>1, LargestOfThree, Zenon
  <2>3. ways \in Nat \ {0}
    BY <1>3, <2>1, LargestOfThree, Zenon
  <2>4. size = w.l2.size
    BY <1>3, <1>4, <2>1, LargestOfThree, Zenon
  <2> QED BY <2>2, <2>3, <2>4
<1>6. Enforced(w) = e
  <2> HIDE DEF sets, ways, size
  <2>1. Enforced(w) = [w EXCEPT !.l2.sets = sets, !.l2.ways = ways, !.l2.size = size]
    BY Zenon DEF Enforced, sets, ways, size
  <2> QED BY <2>1, <1>1 DEF Widgets
<1> HIDE DEF sets, ways, size
<1>7. l2new \in CacheConfigs /\ l2new.size = w.l2.size
  BY <1>2, <1>5 DEF CacheConfigs
<1> HIDE DEF l2new
<1>8. l2new \in L2Settings
  BY <1>1, <1>7 DEF L2Settings, Fitting
<1>9. e \in Widgets /\ e.l1 = w.l1 /\ e.instruction = w.instruction
  BY <1>8 DEF Widgets
<1> QED BY <1>6, <1>9

-----------------------------------------------------------------------------
(* flush writes one way back after the other; an undo handles one byte after *)
(* the other.                                                                *)

LowerStep(t, at) == Lower!WriteBack(t, at[1], at[2])
UpperStep(t, at) == Upper!WriteBack(t, at[1], at[2])

FL == INSTANCE FoldFacts WITH Op <- LowerStep
FU == INSTANCE FoldFacts WITH Op <- UpperStep
FR == INSTANCE FoldFacts WITH Op <- ReadByte

\* The ways of a level as a sequence.
LEMMA WayOrderIs ==
  ASSUME NEW c, c.cfg.sets \in Nat \ {0}, c.cfg.ways \in Nat \ {0}
  PROVE  /\ WayOrder(c) \in Seq(Nat \X Nat)
         /\ Len(WayOrder(c)) = c.cfg.sets * c.cfg.ways
         /\ \A i \in 1 .. c.cfg.sets * c.cfg.ways :
              /\ WayOrder(c)[i][1] = (i - 1) \div c.cfg.ways
              /\ WayOrder(c)[i][2] = (i - 1) % c.cfg.ways
<1> DEFINE n == c.cfg.sets * c.cfg.ways
           X(i) == (i - 1) \div c.cfg.ways
           V(i) == (i - 1) % c.cfg.ways
<1>1. n \in Nat
  OBVIOUS
<1>2. \A i \in 1 .. n : X(i) \in Nat /\ V(i) \in Nat
  OBVIOUS
<1>3. WayOrder(c) = [i \in 1 .. n |-> <<X(i), V(i)>>]
  BY Zenon DEF WayOrder
<1> HIDE DEF n, X, V
<1>4. /\ WayOrder(c) \in Seq(Nat \X Nat)
      /\ Len(WayOrder(c)) = n
      /\ \A i \in 1 .. n : WayOrder(c)[i][1] = X(i) /\ WayOrder(c)[i][2] = V(i)
  BY <1>1, <1>2, <1>3
<1> QED BY <1>4 DEF n, X, V

\* What flush does before it resets L2.
LEMMA LowerFlushed ==
  ASSUME NEW cfg, LO!Geometry(cfg), NEW s \in LO!States(cfg)
  PROVE  \E f : /\ LO!Flushes(cfg, s, f)
                /\ FlushLower(s) = [f[cfg.sets * cfg.ways] EXCEPT !.c = LO!Reset(f[cfg.sets * cfg.ways].c)]
<1> DEFINE seq == WayOrder(s.c)
           n == cfg.sets * cfg.ways
           f == FL!Stages(s, seq)
           r == FL!Folded(s, seq)
<1>1. s.c.cfg = cfg /\ cfg.sets \in Nat \ {0} /\ cfg.ways \in Nat \ {0}
  BY LO!StateFacts, LO!GeometryFacts
<1>2. /\ seq \in Seq(Nat \X Nat)
      /\ Len(seq) = n
      /\ \A i \in 1 .. n : seq[i][1] = (i - 1) \div cfg.ways /\ seq[i][2] = (i - 1) % cfg.ways
  BY <1>1, WayOrderIs
<1>3. FoldLeft(LAMBDA t, at : Lower!WriteBack(t, at[1], at[2]), s, seq) = r
  <2>1. DOMAIN seq = 1 .. Len(seq)
    BY <1>2
  <2> HIDE DEF seq
  <2> QED BY <2>1, Zenon DEF FoldLeft, MapThenFoldSet, FL!Folded, FL!Folds, FL!At, FL!Latest, Max,
                             LowerStep
<1>4. FlushLower(s) = [r EXCEPT !.c = LO!Reset(r.c)]
  <2> HIDE DEF r
  <2>1. FlushLower(s) = [r EXCEPT !.c = Lower!Reset(r.c)]
    BY <1>3, Zenon DEF FlushLower
  <2> QED BY <2>1, LowerFresh, Zenon
<1> HIDE DEF seq
<1>5. /\ f[0] = s
      /\ \A i \in 1 .. Len(seq) : f[i] = LowerStep(f[i - 1], seq[i])
      /\ f[Len(seq)] = r
  BY <1>2, FL!FoldedPrefixes
<1> HIDE DEF f, r
<1>6. \A i \in 1 .. n : f[i] = LO!WriteBack(f[i - 1], (i - 1) \div cfg.ways, (i - 1) % cfg.ways)
  <2> SUFFICES ASSUME NEW i \in 1 .. n
               PROVE  f[i] = LO!WriteBack(f[i - 1], (i - 1) \div cfg.ways, (i - 1) % cfg.ways)
    OBVIOUS
  <2>1. /\ f[i] = Lower!WriteBack(f[i - 1], seq[i][1], seq[i][2])
        /\ seq[i][1] = (i - 1) \div cfg.ways /\ seq[i][2] = (i - 1) % cfg.ways
    BY <1>2, <1>5 DEF LowerStep
  <2> QED BY <2>1, LowerWriteBack, Zenon
<1> QED BY <1>2, <1>4, <1>5, <1>6, Zenon DEF LO!Flushes

\* What flush does before it resets L1 or the instruction cache.
LEMMA UpperFlushed ==
  ASSUME NEW cfg, UP!Geometry(cfg), NEW s \in UP!States(cfg)
  PROVE  \E f : /\ UP!Flushes(cfg, s, f)
                /\ FlushUpper(s) = [f[cfg.sets * cfg.ways] EXCEPT !.c = UP!Reset(f[cfg.sets * cfg.ways].c)]
<1> DEFINE seq == WayOrder(s.c)
           n == cfg.sets * cfg.ways
           f == FU!Stages(s, seq)
           r == FU!Folded(s, seq)
<1>1. s.c.cfg = cfg /\ cfg.sets \in Nat \ {0} /\ cfg.ways \in Nat \ {0}
  BY UP!StateFacts, UP!GeometryFacts
<1>2. /\ seq \in Seq(Nat \X Nat)
      /\ Len(seq) = n
      /\ \A i \in 1 .. n : seq[i][1] = (i - 1) \div cfg.ways /\ seq[i][2] = (i - 1) % cfg.ways
  BY <1>1, WayOrderIs
<1>3. FoldLeft(LAMBDA t, at : Upper!WriteBack(t, at[1], at[2]), s, seq) = r
  <2>1. DOMAIN seq = 1 .. Len(seq)
    BY <1>2
  <2> HIDE DEF seq
  <2> QED BY <2>1, Zenon DEF FoldLeft, MapThenFoldSet, FU!Folded, FU!Folds, FU!At, FU!Latest, Max,
                             UpperStep
<1>4. FlushUpper(s) = [r EXCEPT !.c = UP!Reset(r.c)]
  <2> HIDE DEF r
  <2>1. FlushUpper(s) = [r EXCEPT !.c = Upper!Reset(r.c)]
    BY <1>3, Zenon DEF FlushUpper
  <2> QED BY <2>1, UpperFresh, Zenon
<1> HIDE DEF seq
<1>5. /\ f[0] = s
      /\ \A i \in 1 .. Len(seq) : f[i] = UpperStep(f[i - 1], seq[i])
      /\ f[Len(seq)] = r
  BY <1>2, FU!FoldedPrefixes
<1> HIDE DEF f, r
<1>6. \A i \in 1 .. n : f[i] = UP!WriteBack(f[i - 1], (i - 1) \div cfg.ways, (i - 1) % cfg.ways)
  <2> SUFFICES ASSUME NEW i \in 1 .. n
               PROVE  f[i] = UP!WriteBack(f[i - 1], (i - 1) \div cfg.ways, (i - 1) % cfg.ways)
    OBVIOUS
  <2>1. /\ f[i] = Upper!WriteBack(f[i - 1], seq[i][1], seq[i][2])
        /\ seq[i][1] = (i - 1) \div cfg.ways /\ seq[i][2] = (i - 1) % cfg.ways
    BY <1>2, <1>5 DEF UpperStep
  <2> QED BY <2>1, UpperWriteBack, Zenon
<1> QED BY <1>2, <1>4, <1>5, <1>6, Zenon DEF UP!Flushes

-----------------------------------------------------------------------------
(* L2 as the user reconfigures it. *)

\* What L2 holds beyond doubt.
LEMMA SoundShrinks ==
  ASSUME NEW n \in L2Dev, NEW A, L2Sound(n, A), NEW B \in SUBSET A
  PROVE  L2Sound(n, B)
<1>1. LO!Coherent(n, A) /\ MemSound(n.n, B)
  BY DEF L2Sound, MemSound
<1>2. LO!Coherent(n, B)
  BY <1>1, LO!CoherentShrinks
<1> QED BY <1>2 DEF L2Sound

\* Of no cell at all it always is.
LEMMA SoundNowhere ==
  ASSUME NEW n \in L2Dev
  PROVE  L2Sound(n, {})
<1>1. n \in LO!SoundStates(n.c.cfg)
  BY L2Facts
<1> QED BY <1>1 DEF LO!SoundStates, L2Sound

\* L2 goes from n to m, maybe under other settings, and keeps what it holds.
Refits(n, m) ==
  /\ m \in L2Dev
  /\ m.c.cfg \in L2Settings
  /\ \A A \in SUBSET UP!Space : L2Sound(n, A) => UP!Keeps(n, m, A)

\* Nothing has happened to it.
LEMMA RefitsIdle ==
  ASSUME NEW n \in L2Dev, n.c.cfg \in L2Settings
  PROVE  Refits(n, n)
BY DEF Refits, UP!Keeps

\* reconfigure of L2, which flushes it first.
LEMMA LowerReconfigured ==
  ASSUME LinesNest, NEW n \in L2Dev, NEW cfg \in L2Settings, NEW m, m = ReconfigureLower(n, cfg)
  PROVE  Refits(n, m) /\ m.c = LO!Setup(cfg)
<1> DEFINE k == n.c.cfg
           last == k.sets * k.ways
<1>1. LO!Geometry(k) /\ n \in LO!States(k) /\ n \in LO!SoundStates(k)
  BY L2Facts
<1>2. cfg \in Fitting /\ LO!Geometry(cfg) /\ MemGrain(n.n) % cfg.size = 0
  <2>1. cfg \in Fitting
    BY DEF L2Settings
  <2> QED BY <2>1, SameSets DEF MemGrain, Fitting
<1> HIDE DEF k
<1>3. PICK f : /\ LO!Flushes(k, n, f)
               /\ FlushLower(n) = [f[last] EXCEPT !.c = LO!Reset(f[last].c)]
  BY <1>1, LowerFlushed
<1> DEFINE t == f[last]
<1>4. m = LO!Reconfigure([t EXCEPT !.c = LO!Reset(t.c)], cfg)
  BY <1>3, LowerFresh, Zenon DEF ReconfigureLower
<1>5. ASSUME NEW A \in SUBSET LO!Space, LO!Coherent(n, A)
      PROVE  LO!Renewed(cfg, n, m, A)
  <2>1. LO!Harmless(k, n, t, A) /\ LO!AllClean(t.c)
    BY <1>1, <1>3, <1>5, MemoryIsDevice, LO!FlushCleans
  <2> HIDE DEF t
  <2> QED BY <1>1, <1>2, <1>4, <2>1, MemoryIsDevice, LO!ReconfigureShows
<1> HIDE DEF t
<1>6. LO!Renewed(cfg, n, m, {})
  <2>1. LO!Coherent(n, {}) /\ {} \in SUBSET LO!Space
    BY <1>1 DEF LO!SoundStates
  <2> QED BY <1>5, <2>1
<1>7. m \in LO!SoundStates(cfg)
  BY <1>6, Zenon DEF LO!Renewed, LO!Emptied, LO!SoundStates
<1>8. m \in L2Dev /\ m.c.cfg = cfg
  BY <1>2, <1>7, L2Member
<1>9. ASSUME NEW A \in SUBSET UP!Space, L2Sound(n, A)
      PROVE  UP!Keeps(n, m, A)
  <2>1. LO!Renewed(cfg, n, m, A)
    BY <1>5, <1>9, SameSets DEF L2Sound
  <2> QED BY <2>1 DEF LO!Renewed, LO!Emptied, LO!SameView, UP!Keeps, L2Sound, L2Holds
<1>10. m.c = LO!Setup(cfg)
  BY <1>6, Zenon DEF LO!Renewed
<1> QED BY <1>8, <1>9, <1>10, Zenon DEF Refits

-----------------------------------------------------------------------------
(* The caches above, as L2 changes. *)

\* The settings of an upper cache fit those L2 can have.
LEMMA UpperFits ==
  ASSUME LinesNest, NEW cfg \in UpperSettings
  PROVE  /\ UP!Geometry(cfg)
         /\ cfg.size \in Nat \ {0}
         /\ \A n \in L2Dev : n.c.cfg \in L2Settings => n \in UP!Devs(cfg.size) /\ L2Grain(n) % cfg.size = 0
<1>1. cfg \in Fitting /\ cfg.size \in Nat \ {0}
  BY SettingsFit
<1>2. UP!Geometry(cfg)
  BY <1>1, SameSets
<1>3. ASSUME NEW n \in L2Dev, n.c.cfg \in L2Settings
      PROVE  n \in UP!Devs(cfg.size) /\ L2Grain(n) % cfg.size = 0
  <2>1. L2Grain(n) % cfg.size = 0
    BY <1>3 DEF L2Settings, L2Grain
  <2> QED BY <2>1 DEF UP!Devs
<1> QED BY <1>1, <1>2, <1>3

\* A state of an upper cache that is coherent at A is so at fewer addresses.
LEMMA UpperShrinks ==
  ASSUME NEW cfg, NEW s \in UP!States(cfg), NEW A, UP!Coherent(s, A), NEW B \in SUBSET A
  PROVE  UP!Coherent(s, B)
<1>1. s.n \in L2Dev
  BY UP!StateFacts
<1>2. L2Sound(s.n, A)
  BY DEF UP!Coherent
<1>3. L2Sound(s.n, B)
  BY <1>1, <1>2, SoundShrinks
<1> QED BY <1>3, UP!CoherentShrinks

\* L2 is replaced under an upper cache.
Replaced(cfg, s, t, A) == t \in UP!SoundStates(cfg) /\ UP!Beneath(cfg, s, t, A)

\* What the upper cache holds stays right over an L2 that keeps what it held.
LEMMA UpperOnOther ==
  ASSUME LinesNest, NEW cfg \in UpperSettings, NEW s \in UP!SoundStates(cfg),
         NEW A \in SUBSET UP!Space, UP!Coherent(s, A),
         NEW n \in L2Dev, n.c.cfg \in L2Settings, UP!Keeps(s.n, n, A),
         NEW t, t = [s EXCEPT !.n = n]
  PROVE  Replaced(cfg, s, t, A)
<1>1. s \in UP!States(cfg) /\ UP!Coherent(s, {}) /\ {} \in SUBSET UP!Space
  BY DEF UP!SoundStates
<1>2. UP!Geometry(cfg) /\ n \in UP!Devs(cfg.size)
  BY UpperFits
<1>3. UP!Beneath(cfg, s, t, A)
  BY <1>1, <1>2, UP!DeviceUnder
<1>4. UP!Keeps(s.n, n, {})
  BY SoundNowhere DEF UP!Keeps
<1>5. UP!Beneath(cfg, s, t, {})
  BY <1>1, <1>2, <1>4, UP!DeviceUnder
<1> QED BY <1>3, <1>5 DEF Replaced, UP!Beneath, UP!SoundStates

\* And below one that holds nothing more recent.
LEMMA SettledUnder ==
  ASSUME NEW cfg, NEW s, NEW t, NEW A, NEW B \in SUBSET A, Replaced(cfg, s, t, A),
         UP!Settled(s, B), UP!Keeps(s.n, t.n, B)
  PROVE  UP!Settled(t, B)
BY DEF Replaced, UP!Beneath, UP!SameView, UP!Settled, UP!Keeps

-----------------------------------------------------------------------------
(* Operations of one upper cache, wherever it is coherent. *)

\* It goes from s to t, and shows the same.
Reads(cfg, s, t) ==
  /\ t \in UP!SoundStates(cfg)
  /\ \A A \in SUBSET UP!Space : UP!Coherent(s, A) => UP!Harmless(cfg, s, t, A)

\* It shows data from a on, and the same elsewhere.
Writes(cfg, s, t, a, len, data) ==
  /\ t \in UP!SoundStates(cfg)
  /\ \A A \in SUBSET UP!Space : UP!Coherent(s, A) => UP!Takes(cfg, s, t, A, a, len, data)

\* It answers what it shows.
Finds(s, data, a, len) ==
  /\ data \in UP!Cells(len)
  /\ \A A \in SUBSET UP!Space :
       UP!Coherent(s, A) => \A i \in 0 .. len - 1 : a + i \in A => data[i] = UP!ViewAt(s, a + i)

\* One operation after the other.
LEMMA ReadsNothing ==
  ASSUME NEW cfg, NEW s \in UP!SoundStates(cfg)
  PROVE  Reads(cfg, s, s)
<1>1. s \in UP!States(cfg)
  BY DEF UP!SoundStates
<1>2. ASSUME NEW A \in SUBSET UP!Space, UP!Coherent(s, A)
      PROVE  UP!Harmless(cfg, s, s, A)
  BY <1>1, <1>2, UP!HarmlessIdle
<1> QED BY <1>2 DEF Reads

\* A read after a read is one.
LEMMA ReadsTwice ==
  ASSUME NEW cfg, NEW s, NEW t, NEW u, Reads(cfg, s, t), Reads(cfg, t, u)
  PROVE  Reads(cfg, s, u)
<1>1. ASSUME NEW A \in SUBSET UP!Space, UP!Coherent(s, A)
      PROVE  UP!Harmless(cfg, s, u, A)
  <2>1. UP!Harmless(cfg, s, t, A)
    BY <1>1 DEF Reads
  <2>2. UP!Harmless(cfg, t, u, A)
    BY <2>1, Zenon DEF Reads, UP!Harmless
  <2> QED BY <2>1, <2>2, UP!HarmlessTransitive
<1> QED BY <1>1 DEF Reads

\* What is written after a read is written.
LEMMA ReadsThenWrites ==
  ASSUME NEW cfg, NEW s, NEW t, NEW u, NEW a, NEW len, NEW data,
         Reads(cfg, s, t), Writes(cfg, t, u, a, len, data)
  PROVE  Writes(cfg, s, u, a, len, data)
<1>1. ASSUME NEW A \in SUBSET UP!Space, UP!Coherent(s, A)
      PROVE  UP!Takes(cfg, s, u, A, a, len, data)
  <2>1. UP!Harmless(cfg, s, t, A)
    BY <1>1 DEF Reads
  <2>2. UP!Takes(cfg, t, u, A, a, len, data)
    BY <2>1, Zenon DEF Writes, UP!Harmless
  <2> QED BY <2>1, <2>2, UP!HarmlessTakes
<1> QED BY <1>1 DEF Writes

\* And so is what is written before it.
LEMMA WritesThenReads ==
  ASSUME NEW cfg, NEW s, NEW t, NEW u, NEW a, NEW len, NEW data,
         Writes(cfg, s, t, a, len, data), Reads(cfg, t, u)
  PROVE  Writes(cfg, s, u, a, len, data)
<1>1. ASSUME NEW A \in SUBSET UP!Space, UP!Coherent(s, A)
      PROVE  UP!Takes(cfg, s, u, A, a, len, data)
  <2>1. UP!Takes(cfg, s, t, A, a, len, data)
    BY <1>1 DEF Writes
  <2>2. UP!Harmless(cfg, t, u, A)
    BY <2>1, Zenon DEF Reads, UP!Takes
  <2> QED BY <2>1, <2>2 DEF UP!Takes, UP!Harmless, UP!SameView, UP!Passed
<1> QED BY <1>1 DEF Reads, Writes

\* A write of nothing.
LEMMA WritesNothing ==
  ASSUME NEW cfg, NEW s \in UP!SoundStates(cfg), NEW a, NEW data
  PROVE  Writes(cfg, s, s, a, 0, data)
<1>1. s \in UP!States(cfg)
  BY DEF UP!SoundStates
<1>2. ASSUME NEW A \in SUBSET UP!Space, UP!Coherent(s, A)
      PROVE  UP!Takes(cfg, s, s, A, a, 0, data)
  BY <1>1, <1>2 DEF UP!Takes
<1> QED BY <1>2 DEF Writes

\* And one byte after others.
LEMMA WritesOneMore ==
  ASSUME NEW cfg, NEW s, NEW t, NEW u, NEW a \in Nat, NEW i \in Nat, NEW data, NEW byte,
         Writes(cfg, s, t, a, i, data), Writes(cfg, t, u, a + i, 1, byte), byte[0] = data[i]
  PROVE  Writes(cfg, s, u, a, i + 1, data)
<1>1. ASSUME NEW A \in SUBSET UP!Space, UP!Coherent(s, A)
      PROVE  UP!Takes(cfg, s, u, A, a, i + 1, data)
  <2>1. UP!Takes(cfg, s, t, A, a, i, data)
    BY <1>1 DEF Writes
  <2>2. UP!Takes(cfg, t, u, A, a + i, 1, byte)
    BY <2>1, Zenon DEF Writes, UP!Takes
  <2>3. \A b \in A : b \in Nat
    BY ExtentFacts, SameSets DEF UP!Space
  <2>4. u \in UP!States(cfg) /\ L2Grain(u.n) = L2Grain(s.n) /\ UP!Coherent(u, A)
    BY <2>1, <2>2 DEF UP!Takes
  <2>5. ASSUME NEW b \in A
        PROVE  /\ b - (a + i) \in 0 .. 1 - 1 <=> b = a + i
               /\ b - (a + i) \in 0 .. 1 - 1 => b - (a + i) = 0 /\ b - a = i /\ b - a \in 0 .. (i + 1) - 1
               /\ b # a + i => (b - a \in 0 .. (i + 1) - 1 <=> b - a \in 0 .. i - 1)
    BY <2>3
  <2>6. ASSUME NEW b \in A
        PROVE  UP!ViewAt(u, b) = IF b - a \in 0 .. (i + 1) - 1 THEN data[b - a] ELSE UP!ViewAt(s, b)
    <3>1. /\ UP!ViewAt(t, b) = IF b - a \in 0 .. i - 1 THEN data[b - a] ELSE UP!ViewAt(s, b)
          /\ UP!ViewAt(u, b) = IF b - (a + i) \in 0 .. 1 - 1 THEN byte[b - (a + i)] ELSE UP!ViewAt(t, b)
      BY <2>1, <2>2, Zenon DEF UP!Takes
    <3>2. CASE b = a + i
      <4>1. UP!ViewAt(u, b) = byte[b - (a + i)] /\ b - (a + i) = 0
        BY <2>5, <3>1, <3>2
      <4>2. b - a = i /\ b - a \in 0 .. (i + 1) - 1
        BY <2>5, <3>2
      <4> QED BY <4>1, <4>2
    <3>3. CASE b # a + i
      BY <2>5, <3>1, <3>3
    <3> QED BY <3>2, <3>3
  <2>7. ASSUME NEW b \in A, b - a \notin 0 .. (i + 1) - 1
        PROVE  L2Holds(u.n, b) = L2Holds(s.n, b) \/ L2Holds(u.n, b) = UP!ViewAt(s, b)
    <3>1. b - (a + i) \notin 0 .. 1 - 1 /\ b - a \notin 0 .. i - 1
      BY <2>5, <2>7
    <3>2. /\ L2Holds(t.n, b) = L2Holds(s.n, b) \/ L2Holds(t.n, b) = UP!ViewAt(s, b)
          /\ L2Holds(u.n, b) = L2Holds(t.n, b) \/ L2Holds(u.n, b) = UP!ViewAt(t, b)
          /\ UP!ViewAt(t, b) = UP!ViewAt(s, b)
      BY <2>1, <2>2, <3>1 DEF UP!Takes
    <3> QED BY <3>2
  <2> QED BY <2>4, <2>6, <2>7, Zenon DEF UP!Takes
<1> QED BY <1>1 DEF Writes

\* readGeneric.
LEMMA UpperReads ==
  ASSUME NEW cfg, UP!Geometry(cfg), NEW s \in UP!SoundStates(cfg), NEW a \in Nat,
         NEW len \in Nat \ {0}, a + len <= Extent, UP!Within(s.c, a, len),
         NEW r, r = Upper!ReadGeneric(s, a, len)
  PROVE  Reads(cfg, s, r.s) /\ Finds(s, r.data, a, len)
<1>1. s \in UP!States(cfg) /\ UP!Coherent(s, {}) /\ {} \in SUBSET UP!Space
  BY DEF UP!SoundStates
<1>2. r = UP!ReadGeneric(s, a, len)
  BY UpperReadGeneric, Zenon
<1>3. ASSUME NEW A \in SUBSET UP!Space, UP!Coherent(s, A)
      PROVE  UP!Returns(cfg, s, r.s, r.data, A, a, len)
  BY <1>1, <1>2, <1>3, L2IsDevice, UP!ReadReturns
<1>4. UP!Returns(cfg, s, r.s, r.data, {}, a, len)
  BY <1>1, <1>3
<1>5. r.s \in UP!SoundStates(cfg) /\ r.data \in UP!Cells(len)
  BY <1>4 DEF UP!Returns, UP!Harmless, UP!SoundStates
<1>6. Reads(cfg, s, r.s)
  BY <1>3, <1>5, Zenon DEF Reads, UP!Returns
<1>7. Finds(s, r.data, a, len)
  BY <1>3, <1>5, Zenon DEF Finds, UP!Returns
<1> QED BY <1>6, <1>7

\* writeGeneric.
LEMMA UpperWrites ==
  ASSUME NEW cfg, UP!Geometry(cfg), NEW s \in UP!SoundStates(cfg), NEW a \in Nat,
         NEW len \in Nat \ {0}, a + len <= MemSize, UP!Within(s.c, a, len),
         NEW data \in UP!Cells(len), NEW t, t = Upper!WriteGeneric(s, a, data, len)
  PROVE  Writes(cfg, s, t, a, len, data)
<1>1. s \in UP!States(cfg) /\ UP!Coherent(s, {}) /\ {} \in SUBSET UP!Space
  BY DEF UP!SoundStates
<1>2. t = UP!WriteGeneric(s, a, data, len)
  BY UpperWriteGeneric, Zenon
<1>3. ASSUME NEW A \in SUBSET UP!Space, UP!Coherent(s, A)
      PROVE  UP!Takes(cfg, s, t, A, a, len, data)
  BY <1>1, <1>2, <1>3, L2IsDevice, UP!WriteTakes
<1>4. UP!Takes(cfg, s, t, {}, a, len, data)
  BY <1>1, <1>3
<1>5. t \in UP!SoundStates(cfg)
  BY <1>4 DEF UP!Takes, UP!SoundStates
<1> QED BY <1>3, <1>5 DEF Writes

-----------------------------------------------------------------------------
(* Bytes, one after the other. *)

\* One byte is within a line.
LEMMA OneByteWithin ==
  ASSUME NEW c, NEW a \in Nat
  PROVE  UP!Within(c, a, 1)
<1>1. \A i \in 0 .. 1 - 1 : a + i = a
  OBVIOUS
<1> QED BY <1>1, Zenon DEF UP!Within

\* The addresses of an access.
LEMMA BytesAre ==
  ASSUME NEW acc \in Nat \X (Nat \ {0})
  PROVE  /\ Bytes(acc) \in Seq(Nat)
         /\ Len(Bytes(acc)) = acc[2]
         /\ \A i \in 1 .. acc[2] : Bytes(acc)[i] = acc[1] + i - 1
BY DEF Bytes

\* An access that has thrown.
Thrown(u) == [u EXCEPT !.err = "range"]

\* What has been read of an access before byte n: all, or up to the end of memory.
ReadSoFar(cfg, s, r, acc, n) ==
  /\ n = 0 \/ acc[1] + n <= MemSize
  /\ Reads(cfg, s, r.s)
  /\ r.data \in Seq(Values)
  /\ Len(r.data) = n
  /\ r = [s |-> r.s, data |-> r.data]

Stopped(cfg, s, r, acc, n) ==
  /\ acc[1] + n > MemSize
  /\ \E u : Reads(cfg, s, u) /\ r.s = Thrown(u)

\* One more byte.
LEMMA ReadByteStep ==
  ASSUME NEW cfg, UP!Geometry(cfg), NEW s, NEW acc \in Nat \X (Nat \ {0}), NEW n \in Nat,
         NEW r, ReadSoFar(cfg, s, r, acc, n), NEW q, q = ReadByte(r, acc[1] + n)
  PROVE  ReadSoFar(cfg, s, q, acc, n + 1) \/ Stopped(cfg, s, q, acc, n + 1)
<1> DEFINE a == acc[1] + n
           u == r.s
<1>1. /\ Reads(cfg, s, u)
      /\ u \in UP!SoundStates(cfg)
      /\ r = [s |-> u, data |-> r.data]
      /\ r.data \in Seq(Values)
      /\ Len(r.data) = n
  BY Zenon DEF ReadSoFar, Reads
<1>2. a \in Nat /\ acc[1] + (n + 1) = a + 1 /\ MemSize \in Nat /\ MemSize <= Extent /\ Extent \in Nat
  BY ExtentFacts
<1>3. Upper!Ok(u)
  <2>1. u \in UP!States(cfg)
    BY <1>1 DEF UP!SoundStates
  <2> QED BY <2>1, L2IsDevice, UP!StateOk, UpperFresh
<1> HIDE DEF u
<1>4. CASE OutOfRange(a, 1)
  <2>1. q = [r EXCEPT !.s.err = "range"]
    BY <1>3, <1>4 DEF ReadByte, u
  <2>2. q.s = Thrown(u)
    BY <1>1, <2>1 DEF Thrown
  <2>3. a + 1 > MemSize
    BY <1>2, <1>4 DEF OutOfRange
  <2> QED BY <1>1, <1>2, <2>2, <2>3 DEF Stopped
<1>5. CASE ~OutOfRange(a, 1)
  <2> DEFINE g == Upper!ReadGeneric(u, a, 1)
  <2>1. q = Joined(r.data, g)
    BY <1>3, <1>5, Zenon DEF ReadByte, u
  <2>2. a + 1 <= MemSize /\ a + 1 <= Extent
    BY <1>2, <1>5 DEF OutOfRange
  <2>3. Reads(cfg, u, g.s) /\ g.data \in UP!Cells(1)
    <3>1. UP!Within(u.c, a, 1)
      BY <1>2, OneByteWithin
    <3> QED BY <1>1, <1>2, <2>2, <3>1, UpperReads DEF Finds
  <2> HIDE DEF g, a
  <2>4. Upper!Ok(g.s)
    <3>1. g.s \in UP!States(cfg)
      BY <2>3 DEF Reads, UP!SoundStates
    <3> QED BY <3>1, L2IsDevice, UP!StateOk, UpperFresh
  <2>5. g.data[0] \in Values
    BY <2>3 DEF UP!Cells
  <2>6. q = [s |-> g.s, data |-> Append(r.data, g.data[0])]
    BY <2>1, <2>4, Zenon DEF Joined
  <2>7. Reads(cfg, s, g.s)
    BY <1>1, <2>3, ReadsTwice
  <2>8. /\ Append(r.data, g.data[0]) \in Seq(Values)
        /\ Len(Append(r.data, g.data[0])) = n + 1
    BY <1>1, <2>5
  <2>9. q.s = g.s /\ q.data = Append(r.data, g.data[0])
    BY <2>6
  <2> QED BY <1>2, <2>2, <2>6, <2>7, <2>8, <2>9 DEF ReadSoFar
<1> QED BY <1>4, <1>5

\* A byte after an access has thrown.
LEMMA StoppedStays ==
  ASSUME NEW cfg, NEW s, NEW acc \in Nat \X (Nat \ {0}), NEW n \in Nat,
         NEW r, Stopped(cfg, s, r, acc, n), NEW a, NEW q, q = ReadByte(r, a)
  PROVE  Stopped(cfg, s, q, acc, n + 1)
<1>1. PICK u : Reads(cfg, s, u) /\ r.s = Thrown(u)
  BY DEF Stopped
<1>2. u \in UP!States(cfg)
  BY <1>1 DEF Reads, UP!SoundStates
<1>3. r.s.err = "range"
  BY <1>1, <1>2 DEF Thrown, UP!States
<1>4. ~Upper!Ok(r.s)
  BY <1>3 DEF Upper!Ok
<1>5. q = r
  BY <1>4, Zenon DEF ReadByte
<1>6. acc[1] + (n + 1) > MemSize
  BY ExtentFacts DEF Stopped
<1> QED BY <1>1, <1>5, <1>6 DEF Stopped

\* The bytes of an access: all of them are read, or the access throws.
LEMMA ReadBytesIs ==
  ASSUME NEW cfg, UP!Geometry(cfg), NEW s \in UP!SoundStates(cfg),
         NEW acc \in Nat \X (Nat \ {0}), NEW r, r = ReadBytes(s, acc)
  PROVE  ReadSoFar(cfg, s, r, acc, acc[2]) \/ Stopped(cfg, s, r, acc, acc[2])
<1> DEFINE seq == Bytes(acc)
           base == [s |-> s, data |-> <<>>]
           f == FR!Stages(base, seq)
           Good(i) == ReadSoFar(cfg, s, f[i], acc, i) \/ Stopped(cfg, s, f[i], acc, i)
           S == {i \in Nat : i <= acc[2] => Good(i)}
<1>1. acc[1] \in Nat /\ acc[2] \in Nat
  OBVIOUS
<1>2. /\ seq \in Seq(Nat)
      /\ Len(seq) = acc[2]
      /\ \A i \in 1 .. acc[2] : seq[i] = acc[1] + i - 1
  BY BytesAre
<1>3. r = FR!Folded(base, seq)
  <2>1. DOMAIN seq = 1 .. Len(seq)
    BY <1>2
  <2> HIDE DEF seq, base
  <2>2. FoldLeft(ReadByte, base, seq) = FR!Folded(base, seq)
    BY <2>1, Zenon DEF FoldLeft, MapThenFoldSet, FR!Folded, FR!Folds, FR!At, FR!Latest, Max
  <2> QED BY <2>2, Zenon DEF ReadBytes, seq, base
<1> HIDE DEF seq
<1>4. /\ f[0] = base
      /\ \A i \in 1 .. Len(seq) : f[i] = ReadByte(f[i - 1], seq[i])
      /\ f[Len(seq)] = r
  <2> HIDE DEF base
  <2>1. f = FR!Stages(base, seq) /\ seq \in Seq(Nat)
    BY <1>2
  <2> HIDE DEF f
  <2>2. /\ f[0] = base
        /\ \A i \in 1 .. Len(seq) : f[i] = ReadByte(f[i - 1], seq[i])
        /\ f[Len(seq)] = FR!Folded(base, seq)
    BY <2>1, FR!FoldedPrefixes
  <2> QED BY <1>3, <2>2
<1> HIDE DEF f
<1>5. 0 \in S
  <2>1. base.s = s /\ base.data = <<>>
    OBVIOUS
  <2>2. Reads(cfg, s, base.s)
    BY <2>1, ReadsNothing
  <2>3. ReadSoFar(cfg, s, base, acc, 0)
    BY <2>2 DEF ReadSoFar
  <2> QED BY <1>4, <2>3
<1>6. ASSUME NEW i \in Nat, i \in S PROVE i + 1 \in S
  <2> SUFFICES ASSUME i + 1 <= acc[2] PROVE Good(i + 1)
    OBVIOUS
  <2>1. Good(i)
    BY <1>1, <1>6
  <2>2. f[i + 1] = ReadByte(f[i], acc[1] + i)
    <3>1. i + 1 \in 1 .. acc[2] /\ (i + 1) - 1 = i /\ acc[1] + (i + 1) - 1 = acc[1] + i
      BY <1>1
    <3>2. f[i + 1] = ReadByte(f[(i + 1) - 1], seq[i + 1])
      BY <1>2, <1>4, <3>1, Zenon
    <3>3. seq[i + 1] = acc[1] + (i + 1) - 1
      BY <1>2, <3>1, Zenon
    <3> QED BY <3>1, <3>2, <3>3
  <2>3. CASE ReadSoFar(cfg, s, f[i], acc, i)
    BY <2>2, <2>3, ReadByteStep
  <2>4. CASE Stopped(cfg, s, f[i], acc, i)
    BY <2>2, <2>4, StoppedStays
  <2> QED BY <2>1, <2>3, <2>4
<1>7. acc[2] \in S
  <2> HIDE DEF S
  <2> QED BY <1>1, <1>5, <1>6, LO!Induction
<1>8. Good(acc[2])
  BY <1>1, <1>7
<1> QED BY <1>2, <1>4, <1>8

\* One byte of a change, at its address.
ByteStep(t, p) ==
  IF Upper!Ok(t) THEN Upper!WriteGeneric(t, p[1], [i \in {0} |-> p[2]], 1) ELSE t

FB == INSTANCE FoldFacts WITH Op <- ByteStep

Placed(acc, data) == [i \in 1 .. acc[2] |-> <<acc[1] + i - 1, data[i - 1]>>]

\* The bytes of a change with their addresses.
LEMMA PlacedIs ==
  ASSUME NEW acc \in Nat \X (Nat \ {0}), NEW data \in UP!Cells(acc[2])
  PROVE  /\ Placed(acc, data) \in Seq(Nat \X Values)
         /\ Len(Placed(acc, data)) = acc[2]
         /\ \A i \in 1 .. acc[2] : /\ Placed(acc, data)[i][1] = acc[1] + i - 1
                                   /\ Placed(acc, data)[i][2] = data[i - 1]
<1>1. \A i \in 1 .. acc[2] : acc[1] + i - 1 \in Nat /\ data[i - 1] \in Values
  BY DEF UP!Cells
<1> QED BY <1>1 DEF Placed

\* writeByte of one address after the other is a fold of them.
LEMMA WriteBytesFolds ==
  ASSUME NEW s, NEW acc \in Nat \X (Nat \ {0}), NEW data \in UP!Cells(acc[2])
  PROVE  WriteBytes(s, acc, data) = FB!Folded(s, Placed(acc, data))
<1> DEFINE seq == Bytes(acc)
           pairs == Placed(acc, data)
           n == acc[2]
           Step(v, a) == IF Upper!Ok(v) THEN Upper!WriteGeneric(v, a, [i \in {0} |-> data[a - acc[1]]], 1)
                                        ELSE v
           Part(g, p) == IF p = {} THEN s ELSE Step(g[p \ {Max(p)}], seq[Max(p)])
           Body(g) == [p \in SUBSET (1 .. n) |-> Part(g, p)]
           it == CHOOSE g : g = Body(g)
<1>1. DOMAIN seq = 1 .. n
  BY BytesAre
<1>2. WriteBytes(s, acc, data) = it[1 .. n]
  <2> HIDE DEF seq
  <2>1. WriteBytes(s, acc, data) = FoldLeft(Step, s, seq)
    BY Zenon DEF WriteBytes, seq
  <2> QED BY <1>1, <2>1, Zenon DEF FoldLeft, MapThenFoldSet
<1>3. \A g : \A p \in SUBSET (1 .. n) : Part(g, p) = FB!At(g, s, pairs, p)
  <2> SUFFICES ASSUME NEW g, NEW p \in SUBSET (1 .. n)
               PROVE  Part(g, p) = FB!At(g, s, pairs, p)
    OBVIOUS
  <2>1. CASE p = {}
    BY <2>1, Zenon DEF FB!At
  <2>2. CASE p # {}
    <3> DEFINE x == FB!Latest(p)
               h == g[p \ {x}]
    <3>1. x = Max(p)
      BY Zenon DEF FB!Latest, Max
    <3>2. x \in 1 .. n
      <4>1. n \in Nat
        OBVIOUS
      <4>2. x \in p
        BY <2>2, <4>1, FB!LatestPosition
      <4> QED BY <4>2
    <3> HIDE DEF x
    <3>3. pairs[x][1] = seq[x] /\ pairs[x][2] = data[seq[x] - acc[1]]
      <4>1. seq[x] = acc[1] + x - 1 /\ (acc[1] + x - 1) - acc[1] = x - 1
        BY <3>2, BytesAre
      <4>2. pairs[x][1] = acc[1] + x - 1 /\ pairs[x][2] = data[x - 1]
        BY <3>2, PlacedIs
      <4> QED BY <4>1, <4>2
    <3> HIDE DEF h, seq, pairs
    <3>4. Step(h, seq[x]) = ByteStep(h, pairs[x])
      BY <3>3, Zenon DEF ByteStep
    <3>5. FB!At(g, s, pairs, p) = ByteStep(h, pairs[x])
      BY <2>2, Zenon DEF FB!At, h, x
    <3>6. Part(g, p) = Step(h, seq[x])
      BY <2>2, <3>1, Zenon DEF h
    <3> QED BY <3>4, <3>5, <3>6
  <2> QED BY <2>1, <2>2
<1> HIDE DEF seq, Step, Part
<1>4. pairs \in Seq(Nat \X Values) /\ Len(pairs) = n /\ n \in Nat
  BY PlacedIs
<1> HIDE DEF pairs
<1>5. \A g : g = Body(g) <=> FB!Folds(g, s, pairs)
  <2> SUFFICES ASSUME NEW g PROVE g = Body(g) <=> FB!Folds(g, s, pairs)
    OBVIOUS
  <2>1. Body(g) = [p \in SUBSET (1 .. n) |-> FB!At(g, s, pairs, p)]
    BY <1>3, Zenon
  <2> QED BY <1>4, <2>1, Zenon DEF FB!Folds
<1>6. \E g : FB!Folds(g, s, pairs)
  BY <1>4, FB!FoldsExists
<1>7. FB!Folds(it, s, pairs)
  <2>1. \E g : g = Body(g)
    BY <1>5, <1>6
  <2>2. it = Body(it)
    BY <2>1, Zenon
  <2> HIDE DEF it
  <2> QED BY <1>5, <2>2
<1> HIDE DEF it
<1>8. PICK h : FB!Folds(h, s, pairs) /\ FB!Folded(s, pairs) = h[1 .. n]
  BY <1>4, <1>6 DEF FB!Folded
<1>9. it[1 .. Len(pairs)] = h[1 .. Len(pairs)]
  <2>1. Len(pairs) <= Len(pairs) /\ \A k \in 1 .. Len(pairs) : pairs[k] = pairs[k]
    BY <1>4
  <2> QED BY <1>4, <1>7, <1>8, <2>1, FB!FoldsAgree
<1> QED BY <1>2, <1>4, <1>8, <1>9 DEF pairs

\* Writing the bytes of a change, each where it belongs.
LEMMA WriteBytesIs ==
  ASSUME NEW cfg, UP!Geometry(cfg), NEW s \in UP!SoundStates(cfg),
         NEW acc \in Nat \X (Nat \ {0}), acc[1] + acc[2] <= MemSize,
         NEW data \in UP!Cells(acc[2]), NEW t, t = WriteBytes(s, acc, data)
  PROVE  Writes(cfg, s, t, acc[1], acc[2], data)
<1> DEFINE seq == Placed(acc, data)
           f == FB!Stages(s, seq)
           Good(i) == Writes(cfg, s, f[i], acc[1], i, data)
           S == {i \in Nat : i <= acc[2] => Good(i)}
<1>1. acc[1] \in Nat /\ acc[2] \in Nat
  OBVIOUS
<1>2. /\ seq \in Seq(Nat \X Values)
      /\ Len(seq) = acc[2]
      /\ \A i \in 1 .. acc[2] : seq[i][1] = acc[1] + i - 1 /\ seq[i][2] = data[i - 1]
  BY PlacedIs
<1>3. t = FB!Folded(s, seq)
  BY WriteBytesFolds
<1> HIDE DEF seq
<1>4. /\ f[0] = s
      /\ \A i \in 1 .. Len(seq) : f[i] = ByteStep(f[i - 1], seq[i])
      /\ f[Len(seq)] = t
  <2>1. f = FB!Stages(s, seq) /\ seq \in Seq(Nat \X Values)
    BY <1>2
  <2> HIDE DEF f
  <2>2. /\ f[0] = s
        /\ \A i \in 1 .. Len(seq) : f[i] = ByteStep(f[i - 1], seq[i])
        /\ f[Len(seq)] = FB!Folded(s, seq)
    BY <2>1, FB!FoldedPrefixes
  <2> QED BY <1>3, <2>2
<1> HIDE DEF f
<1>5. 0 \in S
  <2>1. Good(0)
    BY <1>4, WritesNothing
  <2> QED BY <2>1
<1>6. ASSUME NEW i \in Nat, i \in S PROVE i + 1 \in S
  <2> SUFFICES ASSUME i + 1 <= acc[2] PROVE Good(i + 1)
    OBVIOUS
  <2> DEFINE v == f[i]
             a == acc[1] + i
             byte == [j \in {0} |-> data[i]]
  <2>1. Writes(cfg, s, v, acc[1], i, data)
    BY <1>1, <1>6
  <2>2. v \in UP!SoundStates(cfg)
    BY <2>1 DEF Writes
  <2>3. f[i + 1] = ByteStep(v, seq[i + 1]) /\ seq[i + 1][1] = a /\ seq[i + 1][2] = data[i]
    <3>1. i + 1 \in 1 .. acc[2] /\ (i + 1) - 1 = i /\ acc[1] + (i + 1) - 1 = a
      BY <1>1
    <3>2. f[i + 1] = ByteStep(f[(i + 1) - 1], seq[i + 1])
      BY <1>2, <1>4, <3>1, Zenon
    <3>3. seq[i + 1][1] = acc[1] + (i + 1) - 1 /\ seq[i + 1][2] = data[(i + 1) - 1]
      BY <1>2, <3>1, Zenon
    <3> QED BY <3>1, <3>2, <3>3
  <2>4. Upper!Ok(v)
    <3>1. v \in UP!States(cfg)
      BY <2>2 DEF UP!SoundStates
    <3> QED BY <3>1, L2IsDevice, UP!StateOk, UpperFresh
  <2>5. f[i + 1] = Upper!WriteGeneric(v, a, byte, 1)
    <3> HIDE DEF v, a
    <3> QED BY <2>3, <2>4, Zenon DEF ByteStep
  <2>6. a \in Nat /\ a + 1 <= MemSize /\ byte[0] = data[i]
    BY <1>1, ExtentFacts
  <2>7. byte \in UP!Cells(1)
    <3>1. data[i] \in Values
      BY <1>1 DEF UP!Cells
    <3>2. 0 .. 1 - 1 = {0}
      OBVIOUS
    <3> QED BY <3>1, <3>2 DEF UP!Cells
  <2> HIDE DEF v, byte
  <2>8. Writes(cfg, v, f[i + 1], a, 1, byte)
    <3>1. UP!Within(v.c, a, 1)
      BY <2>6, OneByteWithin
    <3> QED BY <2>2, <2>5, <2>6, <2>7, <3>1, UpperWrites
  <2> QED BY <1>1, <2>1, <2>6, <2>8, WritesOneMore
<1>7. acc[2] \in S
  <2> HIDE DEF S
  <2> QED BY <1>1, <1>5, <1>6, LO!Induction
<1>8. Good(acc[2])
  BY <1>1, <1>7
<1> QED BY <1>2, <1>4, <1>8

-----------------------------------------------------------------------------
(* L1, the instruction cache and L2 together: d and e are the two upper       *)
(* caches, over the same L2.  What loads see is known at the addresses T, and *)
(* at L, which no program has written, it is also what L2 holds, so that the  *)
(* instruction cache can rely on it.                                          *)

Caches(d, e, T, L) ==
  /\ d.c.cfg \in DataSettings /\ d \in UP!SoundStates(d.c.cfg)
  /\ e.c.cfg \in InstructionSettings /\ e \in UP!SoundStates(e.c.cfg)
  /\ d.n = e.n /\ d.n.c.cfg \in L2Settings
  /\ T \in SUBSET UP!Space /\ L \in SUBSET T
  /\ UP!Coherent(d, T) /\ UP!Settled(d, L)
  /\ UP!Coherent(e, L) /\ UP!AllClean(e.c)

\* The two caches as the lemmas on one of them want them.
LEMMA CachesFacts ==
  ASSUME LinesNest, NEW d, NEW e, NEW T, NEW L, Caches(d, e, T, L)
  PROVE  /\ d.c.cfg \in UpperSettings /\ UP!Geometry(d.c.cfg) /\ d \in UP!States(d.c.cfg)
         /\ e.c.cfg \in UpperSettings /\ UP!Geometry(e.c.cfg) /\ e \in UP!States(e.c.cfg)
         /\ d.n \in L2Dev
         /\ L \in SUBSET UP!Space
         /\ UP!Coherent(d, L)
         /\ L2Sound(d.n, T) /\ L2Sound(d.n, L)
<1>1. d.c.cfg \in UpperSettings /\ e.c.cfg \in UpperSettings
  BY DEF Caches, UpperSettings
<1>2. UP!Geometry(d.c.cfg) /\ UP!Geometry(e.c.cfg)
  BY <1>1, UpperFits
<1>3. d \in UP!States(d.c.cfg) /\ e \in UP!States(e.c.cfg)
  BY DEF Caches, UP!SoundStates
<1>4. d.n \in L2Dev
  BY <1>3, UP!StateFacts
<1>5. UP!Coherent(d, T) /\ L \in SUBSET T /\ L \in SUBSET UP!Space
  BY DEF Caches
<1>6. UP!Coherent(d, L)
  BY <1>3, <1>5, UpperShrinks
<1>7. L2Sound(d.n, T) /\ L2Sound(d.n, L)
  BY <1>5, <1>6, Zenon DEF UP!Coherent
<1> QED BY <1>1, <1>2, <1>3, <1>4, <1>5, <1>6, <1>7

\* Lines of the same length fit the caches above.
LEMMA GrainKept ==
  ASSUME NEW n \in L2Dev, NEW m \in L2Dev, n.c.cfg \in L2Settings, L2Grain(m) = L2Grain(n)
  PROVE  m.c.cfg \in L2Settings
<1>1. m.c.cfg \in Fitting
  BY L2Facts
<1> QED BY <1>1 DEF L2Settings, L2Grain

\* L2 changes under both caches, and keeps what they rely on.
LEMMA BelowChanges ==
  ASSUME LinesNest, NEW d, NEW e, NEW T, NEW L, Caches(d, e, T, L),
         NEW m \in L2Dev, m.c.cfg \in L2Settings, UP!Keeps(d.n, m, T), UP!Keeps(d.n, m, L),
         NEW t, t = [d EXCEPT !.n = m], NEW u, u = [e EXCEPT !.n = m]
  PROVE  Caches(t, u, T, L) /\ UP!SameView(d, t, T)
<1> DEFINE k == d.c.cfg
           h == e.c.cfg
<1>1. /\ k \in UpperSettings /\ d \in UP!SoundStates(k) /\ UP!Coherent(d, T)
      /\ T \in SUBSET UP!Space /\ L \in SUBSET T /\ L \in SUBSET UP!Space
      /\ h \in UpperSettings /\ e \in UP!SoundStates(h) /\ UP!Coherent(e, L)
      /\ UP!Keeps(e.n, m, L) /\ UP!AllClean(e.c) /\ UP!Settled(d, L)
      /\ k \in DataSettings /\ h \in InstructionSettings
  BY CachesFacts DEF Caches
<1> HIDE DEF k, h
<1>2. Replaced(k, d, t, T)
  BY <1>1, UpperOnOther
<1>3. Replaced(h, e, u, L)
  BY <1>1, UpperOnOther
<1>4. t.n = m /\ u.n = m
  <2>1. d \in UP!States(k) /\ e \in UP!States(h)
    BY <1>1 DEF UP!SoundStates
  <2> QED BY <2>1 DEF UP!States
<1>5. UP!Settled(t, L)
  BY <1>1, <1>2, <1>4, SettledUnder
<1>6. t \in UP!SoundStates(k) /\ t.c = d.c /\ UP!Coherent(t, T) /\ UP!SameView(d, t, T)
  BY <1>2, Zenon DEF Replaced, UP!Beneath
<1>7. u \in UP!SoundStates(h) /\ u.c = e.c /\ UP!Coherent(u, L)
  BY <1>3, Zenon DEF Replaced, UP!Beneath
<1> QED BY <1>1, <1>4, <1>5, <1>6, <1>7, Zenon DEF Caches, k, h

\* L1 changes, and L2 with it: the instruction cache does not notice where L2
\* keeps what it holds.
LEMMA DataChanges ==
  ASSUME LinesNest, NEW d, NEW e, NEW T, NEW L, Caches(d, e, T, L), NEW M \in SUBSET L,
         NEW t, NEW cfg \in DataSettings, t \in UP!SoundStates(cfg),
         t.n.c.cfg \in L2Settings, UP!Coherent(t, T), UP!Settled(t, M),
         \A b \in M : L2Holds(t.n, b) = L2Holds(d.n, b),
         NEW u, u = [e EXCEPT !.n = t.n]
  PROVE  Caches(t, u, T, M)
<1> DEFINE h == e.c.cfg
<1>1. /\ h \in UpperSettings /\ e \in UP!SoundStates(h) /\ UP!Coherent(e, L)
      /\ T \in SUBSET UP!Space /\ M \in SUBSET T /\ M \in SUBSET UP!Space
      /\ UP!AllClean(e.c) /\ h \in InstructionSettings /\ e.n = d.n /\ e \in UP!States(h)
  BY CachesFacts DEF Caches
<1> HIDE DEF h
<1>2. t \in UP!States(cfg) /\ t.c.cfg = cfg /\ t.n \in L2Dev
  BY UP!StateFacts DEF UP!SoundStates
<1>3. UP!Coherent(e, M) /\ L2Sound(t.n, M)
  <2>1. L2Sound(t.n, T)
    BY Zenon DEF UP!Coherent
  <2> QED BY <1>1, <1>2, <2>1, UpperShrinks, SoundShrinks
<1>4. UP!Keeps(e.n, t.n, M)
  BY <1>1, <1>3 DEF UP!Keeps
<1>5. Replaced(h, e, u, M)
  BY <1>1, <1>2, <1>3, <1>4, UpperOnOther
<1>6. u \in UP!SoundStates(h) /\ u.c = e.c /\ UP!Coherent(u, M)
  BY <1>5, Zenon DEF Replaced, UP!Beneath
<1>7. u.n = t.n
  BY <1>1 DEF UP!States
<1> QED BY <1>1, <1>2, <1>6, <1>7, Zenon DEF Caches, h

\* A load, or another read through L1.
LEMMA DataReads ==
  ASSUME LinesNest, NEW d, NEW e, NEW T, NEW L, Caches(d, e, T, L),
         NEW t, Reads(d.c.cfg, d, t), NEW u, u = [e EXCEPT !.n = t.n]
  PROVE  Caches(t, u, T, L) /\ UP!SameView(d, t, T)
<1> DEFINE k == d.c.cfg
<1>1. /\ d \in UP!States(k) /\ d.n \in L2Dev /\ k \in DataSettings
      /\ UP!Coherent(d, T) /\ UP!Coherent(d, L) /\ UP!Settled(d, L)
      /\ T \in SUBSET UP!Space /\ L \in SUBSET UP!Space /\ d.n.c.cfg \in L2Settings
  BY CachesFacts DEF Caches
<1>2. Reads(k, d, t)
  OBVIOUS
<1> HIDE DEF k
<1>3. t \in UP!SoundStates(k) /\ UP!Harmless(k, d, t, T) /\ UP!Harmless(k, d, t, L)
  BY <1>1, <1>2, Zenon DEF Reads
<1>4. UP!Settled(t, L) /\ \A b \in L : L2Holds(t.n, b) = L2Holds(d.n, b)
  BY <1>1, <1>3, UP!HarmlessSettled
<1>5. UP!Coherent(t, T) /\ UP!SameView(d, t, T) /\ L2Grain(t.n) = L2Grain(d.n) /\ t \in UP!States(k)
  BY <1>3, Zenon DEF UP!Harmless
<1>6. t.n \in L2Dev
  BY <1>5, UP!StateFacts
<1>7. t.n.c.cfg \in L2Settings
  BY <1>1, <1>5, <1>6, GrainKept
<1>8. L \in SUBSET L
  OBVIOUS
<1>9. Caches(t, u, T, L)
  BY <1>1, <1>3, <1>4, <1>5, <1>7, <1>8, DataChanges
<1> QED BY <1>5, <1>9

\* What a write through L1 shows.
Shows(d, t, T, a, len, data) ==
  \A b \in T : UP!ViewAt(t, b) = IF b - a \in 0 .. len - 1 THEN data[b - a] ELSE UP!ViewAt(d, b)

\* Nothing is written at M.
Apart(M, a, len) == \A b \in M : b - a \notin 0 .. len - 1

\* A store, an undo or a redo through L1, which writes nothing at M.
LEMMA DataWrites ==
  ASSUME LinesNest, NEW d, NEW e, NEW T, NEW L, Caches(d, e, T, L),
         NEW a, NEW len, NEW data, NEW t, Writes(d.c.cfg, d, t, a, len, data),
         NEW M \in SUBSET L, Apart(M, a, len),
         NEW u, u = [e EXCEPT !.n = t.n]
  PROVE  Caches(t, u, T, M) /\ Shows(d, t, T, a, len, data)
<1> DEFINE k == d.c.cfg
<1>1. /\ d \in UP!States(k) /\ d.n \in L2Dev /\ k \in DataSettings
      /\ UP!Coherent(d, T) /\ UP!Coherent(d, L) /\ UP!Settled(d, L)
      /\ T \in SUBSET UP!Space /\ L \in SUBSET UP!Space /\ d.n.c.cfg \in L2Settings
  BY CachesFacts DEF Caches
<1>2. Writes(k, d, t, a, len, data)
  OBVIOUS
<1> HIDE DEF k
<1>3. M \in SUBSET UP!Space /\ UP!Coherent(d, M) /\ UP!Settled(d, M)
  <2>1. UP!Coherent(d, M)
    BY <1>1, UpperShrinks
  <2> QED BY <1>1, <2>1 DEF UP!Settled
<1>4. t \in UP!SoundStates(k) /\ UP!Takes(k, d, t, T, a, len, data) /\ UP!Takes(k, d, t, M, a, len, data)
  BY <1>1, <1>2, <1>3, Zenon DEF Writes
<1>5. UP!Settled(t, M) /\ \A b \in M : L2Holds(t.n, b) = L2Holds(d.n, b)
  BY <1>3, <1>4, UP!TakesSettled DEF Apart
<1>6. /\ UP!Coherent(t, T) /\ L2Grain(t.n) = L2Grain(d.n) /\ t \in UP!States(k)
      /\ Shows(d, t, T, a, len, data)
  BY <1>4, Zenon DEF UP!Takes, Shows
<1>7. t.n \in L2Dev
  BY <1>6, UP!StateFacts
<1>8. t.n.c.cfg \in L2Settings
  BY <1>1, <1>6, <1>7, GrainKept
<1>9. Caches(t, u, T, M)
  BY <1>1, <1>4, <1>5, <1>6, <1>8, DataChanges
<1> QED BY <1>6, <1>9

\* A fetch.
LEMMA InstructionReads ==
  ASSUME LinesNest, NEW d, NEW e, NEW T, NEW L, Caches(d, e, T, L), NEW a \in Addresses,
         NEW t, t = Upper!ReadGeneric(e, a, 1).s, NEW u, u = [d EXCEPT !.n = t.n]
  PROVE  Caches(u, t, T, L) /\ UP!SameView(d, u, T)
<1> DEFINE k == d.c.cfg
           h == e.c.cfg
           r == Upper!ReadGeneric(e, a, 1)
<1>1. /\ k \in UpperSettings /\ d \in UP!SoundStates(k) /\ d \in UP!States(k)
      /\ h \in UpperSettings /\ UP!Geometry(h) /\ e \in UP!SoundStates(h) /\ e \in UP!States(h)
      /\ k \in DataSettings /\ h \in InstructionSettings
      /\ d.n = e.n /\ d.n \in L2Dev /\ d.n.c.cfg \in L2Settings
  BY CachesFacts DEF Caches
<1>2. /\ UP!Coherent(d, T) /\ UP!Coherent(e, L) /\ UP!Coherent(e, {}) /\ UP!AllClean(e.c)
      /\ UP!Settled(d, L) /\ L2Sound(e.n, T) /\ L2Sound(e.n, L)
      /\ T \in SUBSET UP!Space /\ L \in SUBSET T /\ L \in SUBSET UP!Space
  BY CachesFacts DEF Caches, UP!SoundStates
<1>3. a \in Nat /\ a + 1 <= Extent /\ 1 \in Nat \ {0} /\ UP!Within(e.c, a, 1)
  <2>1. a \in Nat /\ a + 1 <= Extent
    BY ExtentFacts DEF Addresses
  <2> QED BY <2>1, OneByteWithin
<1> HIDE DEF k, h
<1>4. Reads(h, e, r.s)
  BY <1>1, <1>3, UpperReads
<1>5. UP!OnlyReads(e, r.s)
  <2>1. r.s = UP!ReadGeneric(e, a, 1).s
    BY UpperReadGeneric, Zenon
  <2> HIDE DEF r
  <2> QED BY <1>1, <1>2, <1>3, <2>1, L2IsDevice, UP!ReadClean
<1>6. t = r.s
  OBVIOUS
<1> HIDE DEF r
<1>7. t \in UP!SoundStates(h) /\ UP!Harmless(h, e, t, L)
  BY <1>2, <1>4, <1>6, Zenon DEF Reads
<1>8. UP!Coherent(t, L)
  BY <1>7, Zenon DEF UP!Harmless
<1>9. /\ UP!AllClean(t.c) /\ t.n \in L2Dev /\ L2Grain(t.n) = L2Grain(d.n)
      /\ UP!Keeps(d.n, t.n, T) /\ UP!Keeps(d.n, t.n, L)
  BY <1>1, <1>2, <1>5, <1>6, Zenon DEF UP!OnlyReads
<1>10. t.n.c.cfg \in L2Settings
  BY <1>1, <1>9, GrainKept
<1>11. Replaced(k, d, u, T)
  BY <1>1, <1>2, <1>9, <1>10, UpperOnOther
<1>12. u.n = t.n
  BY <1>1 DEF UP!States
<1>13. UP!Settled(u, L)
  BY <1>2, <1>9, <1>11, <1>12, SettledUnder
<1>14. u \in UP!SoundStates(k) /\ u.c = d.c /\ UP!Coherent(u, T) /\ UP!SameView(d, u, T)
  BY <1>11, Zenon DEF Replaced, UP!Beneath
<1>15. t.c.cfg = h /\ u.c.cfg = k
  <2>1. t \in UP!States(h) /\ u \in UP!States(k)
    BY <1>7, <1>14, Zenon DEF UP!SoundStates
  <2> QED BY <2>1, UP!StateFacts
<1> QED BY <1>1, <1>2, <1>7, <1>8, <1>9, <1>10, <1>12, <1>13, <1>14, <1>15, Zenon DEF Caches

\* reconfigure of L1, which flushes it first.
LEMMA DataReconfigured ==
  ASSUME LinesNest, NEW d, NEW e, NEW T, NEW L, Caches(d, e, T, L), NEW cfg \in DataSettings,
         NEW t, t = ReconfigureUpper(d, cfg), NEW u, u = [e EXCEPT !.n = t.n]
  PROVE  Caches(t, u, T, L) /\ UP!SameView(d, t, T)
<1> DEFINE k == d.c.cfg
           last == k.sets * k.ways
<1>1. /\ UP!Geometry(k) /\ d \in UP!States(k) /\ UP!Coherent(d, {}) /\ {} \in SUBSET UP!Space
      /\ UP!Coherent(d, T) /\ UP!Coherent(d, L) /\ UP!Settled(d, L)
      /\ T \in SUBSET UP!Space /\ L \in SUBSET UP!Space
      /\ d.n \in L2Dev /\ d.n.c.cfg \in L2Settings
  BY CachesFacts DEF Caches, UP!SoundStates
<1>2. UP!Geometry(cfg) /\ L2Grain(d.n) % cfg.size = 0
  <2>1. cfg \in UpperSettings
    BY DEF UpperSettings
  <2> QED BY <1>1, <2>1, UpperFits
<1> HIDE DEF k
<1>3. PICK f : /\ UP!Flushes(k, d, f)
               /\ FlushUpper(d) = [f[last] EXCEPT !.c = UP!Reset(f[last].c)]
  BY <1>1, UpperFlushed
<1> DEFINE v == f[last]
<1>4. t = UP!Reconfigure([v EXCEPT !.c = UP!Reset(v.c)], cfg)
  BY <1>3, UpperFresh, Zenon DEF ReconfigureUpper
<1>5. ASSUME NEW A \in SUBSET UP!Space, UP!Coherent(d, A)
      PROVE  UP!Harmless(k, d, v, A) /\ UP!AllClean(v.c) /\ UP!Renewed(cfg, d, t, A)
  <2>1. UP!Harmless(k, d, v, A) /\ UP!AllClean(v.c)
    BY <1>1, <1>3, <1>5, L2IsDevice, UP!FlushCleans
  <2> HIDE DEF v
  <2>2. UP!Renewed(cfg, d, t, A)
    BY <1>1, <1>2, <1>4, <1>5, <2>1, L2IsDevice, UP!ReconfigureShows
  <2> QED BY <2>1, <2>2
<1> HIDE DEF v
<1>6. /\ UP!Harmless(k, d, v, L)
      /\ UP!Renewed(cfg, d, t, {}) /\ UP!Renewed(cfg, d, t, T) /\ UP!Renewed(cfg, d, t, L)
  BY <1>1, <1>5
<1>7. /\ t \in UP!States(cfg) /\ UP!Coherent(t, {}) /\ UP!Coherent(t, T) /\ UP!Coherent(t, L)
      /\ UP!SameView(d, t, T) /\ UP!Empty(t.c) /\ L2Grain(t.n) = L2Grain(d.n)
  BY <1>6, Zenon DEF UP!Renewed, UP!Emptied
<1>8. t \in UP!SoundStates(cfg)
  BY <1>7, Zenon DEF UP!SoundStates
<1>9. t.n \in L2Dev /\ t.c \in UP!Levels(cfg)
  BY <1>7, UP!StateFacts
<1>10. t.n.c.cfg \in L2Settings
  BY <1>1, <1>7, <1>9, GrainKept
<1>11. UP!Settled(t, L)
  <2>1. L2Sound(t.n, L)
    BY <1>7, Zenon DEF UP!Coherent
  <2>2. \A a \in L : UP!ViewAt(t, a) = L2Holds(t.n, a)
    BY <1>1, <1>2, <1>7, <1>9, <2>1, UP!EmptyCoherent
  <2> QED BY <2>2, Zenon DEF UP!Settled
<1>12. \A b \in L : L2Holds(t.n, b) = L2Holds(d.n, b)
  <2>1. \A b \in L : L2Holds(v.n, b) = L2Holds(d.n, b)
    BY <1>1, <1>6, UP!HarmlessSettled
  <2>2. v \in UP!States(k)
    BY <1>6, Zenon DEF UP!Harmless
  <2>3. UP!Refitted(v, t, cfg)
    BY <1>1, <1>2, <1>4, <2>2, L2IsDevice, UP!ReconfigureIs
  <2>4. t.n = v.n
    BY <2>2, <2>3 DEF UP!Refitted, UP!States
  <2> QED BY <2>1, <2>4
<1>13. L \in SUBSET L
  OBVIOUS
<1>14. Caches(t, u, T, L)
  BY <1>7, <1>8, <1>10, <1>11, <1>12, <1>13, DataChanges
<1> QED BY <1>7, <1>14

\* reconfigure of the instruction cache, which has nothing to write back.
LEMMA InstructionReconfigured ==
  ASSUME LinesNest, NEW d, NEW e, NEW T, NEW L, Caches(d, e, T, L), NEW cfg \in InstructionSettings,
         NEW t, t = ReconfigureUpper(e, cfg)
  PROVE  Caches(d, t, T, L)
<1> DEFINE k == e.c.cfg
           last == k.sets * k.ways
<1>1. /\ UP!Geometry(k) /\ e \in UP!States(k) /\ UP!Coherent(e, {}) /\ {} \in SUBSET UP!Space
      /\ UP!Coherent(e, L) /\ UP!AllClean(e.c) /\ L \in SUBSET UP!Space
      /\ e.n \in L2Dev /\ d.n = e.n /\ d.n.c.cfg \in L2Settings
  BY CachesFacts DEF Caches, UP!SoundStates
<1>2. UP!Geometry(cfg) /\ L2Grain(e.n) % cfg.size = 0
  <2>1. cfg \in UpperSettings
    BY DEF UpperSettings
  <2> QED BY <1>1, <2>1, UpperFits
<1> HIDE DEF k
<1>3. PICK f : /\ UP!Flushes(k, e, f)
               /\ FlushUpper(e) = [f[last] EXCEPT !.c = UP!Reset(f[last].c)]
  BY <1>1, UpperFlushed
<1>4. f[last] = e
  BY <1>1, <1>3, UP!FlushIdle
<1>5. t = UP!Reconfigure([e EXCEPT !.c = UP!Reset(e.c)], cfg)
  <2>1. FlushUpper(e) = [e EXCEPT !.c = UP!Reset(e.c)]
    BY <1>3, <1>4
  <2> QED BY <2>1, UpperFresh, Zenon DEF ReconfigureUpper
<1>6. ASSUME NEW A \in SUBSET UP!Space, UP!Coherent(e, A)
      PROVE  UP!Renewed(cfg, e, t, A)
  <2>1. UP!Harmless(k, e, e, A)
    BY <1>1, <1>6, UP!HarmlessIdle
  <2> QED BY <1>1, <1>2, <1>5, <1>6, <2>1, L2IsDevice, UP!ReconfigureShows
<1>7. UP!Renewed(cfg, e, t, {}) /\ UP!Renewed(cfg, e, t, L)
  BY <1>1, <1>6
<1>8. t \in UP!States(cfg) /\ UP!Coherent(t, {}) /\ UP!Coherent(t, L) /\ UP!Empty(t.c)
  BY <1>7, Zenon DEF UP!Renewed, UP!Emptied
<1>9. t \in UP!SoundStates(cfg) /\ t.c.cfg = cfg
  BY <1>8, UP!StateFacts DEF UP!SoundStates
<1>10. UP!AllClean(t.c)
  BY <1>8 DEF UP!Empty, UP!AllClean
<1>11. t.n = e.n
  <2>1. UP!Refitted(e, t, cfg)
    BY <1>1, <1>2, <1>5, L2IsDevice, UP!ReconfigureIs
  <2> QED BY <1>1, <2>1 DEF UP!Refitted, UP!States
<1> QED BY <1>8, <1>9, <1>10, <1>11, Zenon DEF Caches

\* A stretch of memory is written below all the caches, where nothing that they
\* rely on lies.
LEMMA Bypassed ==
  ASSUME LinesNest, NEW d, NEW e, NEW L, Caches(d, e, L, L),
         NEW a \in Nat, NEW len \in Nat \ {0}, a + len <= Extent, NEW data \in UP!Cells(len),
         \A b \in L : b - a \notin 0 .. len - 1,
         NEW m, m = [d.n EXCEPT !.n = [d.n.n EXCEPT !.cell = Overwritten(d.n.n.cell, a, data)]],
         NEW t, t = [d EXCEPT !.n = m], NEW u, u = [e EXCEPT !.n = m]
  PROVE  Caches(t, u, L, L)
<1> DEFINE n == d.n
           k == n.c.cfg
           cells == [n.n EXCEPT !.cell = Overwritten(n.n.cell, a, data)]
<1>1. /\ n \in L2Dev /\ n.c.cfg \in L2Settings
      /\ L \in SUBSET LO!Space /\ LO!Coherent(n, L) /\ data \in LO!Cells(len)
  <2>1. n \in L2Dev /\ n.c.cfg \in L2Settings /\ L \in SUBSET LO!Space /\ L2Sound(n, L)
    BY CachesFacts, SameSets DEF Caches
  <2> QED BY <2>1, SameSets DEF L2Sound
<1>2. k \in Fitting /\ LO!Geometry(k) /\ n \in LO!States(k) /\ LO!Coherent(n, {}) /\ {} \in SUBSET LO!Space
  <2>1. k \in Fitting /\ LO!Geometry(k) /\ n \in LO!SoundStates(k) /\ n \in LO!States(k)
    BY <1>1, L2Facts
  <2> QED BY <2>1 DEF LO!SoundStates
<1>3. n.n \in MemDev
  BY <1>2, LO!StateFacts
<1>4. m = [n EXCEPT !.n = cells] /\ cells = [n.n EXCEPT !.cell = Overwritten(n.n.cell, a, data)]
  OBVIOUS
<1> HIDE DEF k, cells
<1>5. LO!Obeys(n.n, cells, a, len, data)
  <2> HIDE DEF n
  <2> QED BY <1>1, <1>3, <1>4, MemoryObeys
<1>6. cells \in LO!Devs(k.size)
  <2>1. cells \in MemDev /\ MemGrain(cells) = MemGrain(n.n) /\ MemGrain(n.n) % k.size = 0
    BY <1>2, <1>5, LO!StateFacts DEF LO!Obeys
  <2> QED BY <2>1 DEF LO!Devs
<1>7. LO!Keeps(n.n, cells, L) /\ LO!Keeps(n.n, cells, {})
  <2>1. ASSUME NEW A \in SUBSET LO!Space, \A b \in A : b - a \notin 0 .. len - 1
        PROVE  LO!Keeps(n.n, cells, A)
    <3>1. LO!Puts(n.n, cells, A, a, len, data)
      BY <1>5 DEF LO!Obeys, MemSound
    <3> QED BY <2>1, <3>1 DEF LO!Puts, LO!Keeps
  <2> QED BY <1>1, <1>2, <2>1
<1>8. LO!Beneath(k, n, m, L) /\ LO!Beneath(k, n, m, {})
  <2> HIDE DEF n
  <2>1. LO!Coherent(n, L) /\ L \in SUBSET LO!Space /\ n \in LO!States(k) /\ LO!Geometry(k)
    BY <1>1, <1>2
  <2>2. LO!Beneath(k, n, m, L)
    BY <1>4, <1>6, <1>7, <2>1, LO!DeviceUnder
  <2>3. LO!Beneath(k, n, m, {})
    BY <1>2, <1>4, <1>6, <1>7, LO!DeviceUnder
  <2> QED BY <2>2, <2>3
<1>9. m \in LO!SoundStates(k)
  BY <1>8, Zenon DEF LO!Beneath, LO!SoundStates
<1>10. m \in L2Dev /\ m.c.cfg \in L2Settings
  <2>1. m \in L2Dev /\ m.c.cfg = k
    BY <1>2, <1>9, L2Member
  <2> QED BY <1>1, <2>1 DEF k
<1>11. UP!Keeps(n, m, L)
  BY <1>8 DEF LO!Beneath, LO!SameView, UP!Keeps, L2Sound, L2Holds
<1> QED BY <1>10, <1>11, BelowChanges

\* Empty caches, as a reset and a change of processor leave them.
Blank(c, i, b) ==
  /\ \E k \in DataSettings : c \in UP!Levels(k) /\ UP!Empty(c)
  /\ \E h \in InstructionSettings : i \in UP!Levels(h) /\ UP!Empty(i)
  /\ \E l \in L2Settings : b \in LO!Levels(l) /\ LO!Empty(b)

\* What loads see is what the memory holds.
Holding(d, cells) == \A a \in UP!Space : UP!ViewAt(d, a) = cells[a]

\* Empty caches over memory show what it holds.
LEMMA FreshCaches ==
  ASSUME LinesNest, NEW c, NEW i, NEW b, Blank(c, i, b),
         NEW cells \in [0 .. AddressSpace - 1 -> Values],
         NEW n, n = Over(b, [cell |-> cells, ok |-> TRUE]),
         NEW d, d = Over(c, n), NEW e, e = Over(i, n)
  PROVE  Caches(d, e, UP!Space, UP!Space) /\ Holding(d, cells)
<1> PICK k \in DataSettings : c \in UP!Levels(k) /\ UP!Empty(c)
  BY DEF Blank
<1> PICK h \in InstructionSettings : i \in UP!Levels(h) /\ UP!Empty(i)
  BY DEF Blank
<1> PICK l \in L2Settings : b \in LO!Levels(l) /\ LO!Empty(b)
  BY DEF Blank
<1> DEFINE m == [cell |-> cells, ok |-> TRUE]
<1>1. m \in MemDev /\ (\A a : MemHolds(m, a) = cells[a])
  BY DEF MemDev, MemHolds
<1>2. n.c = b /\ n.n = m /\ n.err = "none" /\ n.script = Quiet /\ n = [c |-> b, n |-> m, err |-> "none", script |-> Quiet]
  BY DEF Over
<1> HIDE DEF m
<1>3. l \in Fitting /\ LO!Geometry(l) /\ MemGrain(m) % l.size = 0 /\ b.cfg = l
  BY SettingsFit, SameSets, LO!LevelFacts DEF MemGrain, Fitting
<1>4. n \in LO!States(l)
  <2>1. m \in LO!Devs(l.size)
    BY <1>1, <1>3 DEF LO!Devs
  <2> QED BY <1>2, <2>1, SameSets DEF LO!States
<1>5. ASSUME NEW A \in SUBSET LO!Space
      PROVE  LO!Coherent(n, A) /\ \A a \in A : LO!ViewAt(n, a) = cells[a]
  <2>1. n.c \in LO!Levels(l) /\ LO!Empty(n.c) /\ MemSound(n.n, A)
    BY <1>2 DEF MemSound
  <2>2. LO!Coherent(n, A) /\ \A a \in A : LO!ViewAt(n, a) = MemHolds(n.n, a)
    BY <1>3, <2>1, LO!EmptyCoherent
  <2> QED BY <1>1, <1>2, <2>2
<1>6. n \in L2Dev /\ n.c.cfg = l /\ L2Grain(n) = l.size
  <2>1. LO!Coherent(n, {})
    BY <1>5
  <2>2. n \in LO!SoundStates(l)
    BY <1>4, <2>1 DEF LO!SoundStates
  <2> QED BY <1>3, <2>2, L2Member
<1>7. ASSUME NEW A \in SUBSET UP!Space
      PROVE  L2Sound(n, A) /\ \A a \in A : L2Holds(n, a) = cells[a]
  BY <1>5, SameSets DEF L2Sound, L2Holds
<1> DEFINE Fits(cfg, x, s) == /\ s.c = x /\ s.n = n /\ x.cfg = cfg
                              /\ s \in UP!SoundStates(cfg)
                              /\ UP!Coherent(s, UP!Space)
                              /\ \A a \in UP!Space : UP!ViewAt(s, a) = L2Holds(s.n, a)
<1>8. ASSUME NEW cfg \in UpperSettings, NEW x \in UP!Levels(cfg), UP!Empty(x), NEW s, s = Over(x, n)
      PROVE  Fits(cfg, x, s)
  <2>1. s.c = x /\ s.n = n /\ s = [c |-> x, n |-> n, err |-> "none", script |-> Quiet]
    BY <1>8 DEF Over
  <2>2. UP!Geometry(cfg) /\ n \in UP!Devs(cfg.size)
    BY <1>6, UpperFits
  <2>3. s \in UP!States(cfg)
    BY <2>1, <2>2, SameSets DEF UP!States
  <2>4. ASSUME NEW A \in SUBSET UP!Space
        PROVE  UP!Coherent(s, A) /\ \A a \in A : UP!ViewAt(s, a) = L2Holds(s.n, a)
    <3>1. s.c \in UP!Levels(cfg) /\ UP!Empty(s.c) /\ L2Sound(s.n, A)
      BY <1>7, <1>8, <2>1
    <3> QED BY <2>2, <3>1, UP!EmptyCoherent
  <2>5. UP!Coherent(s, {})
    BY <2>4
  <2>6. s \in UP!SoundStates(cfg)
    BY <2>3, <2>5 DEF UP!SoundStates
  <2>7. x.cfg = cfg
    BY UP!LevelFacts
  <2> QED BY <2>1, <2>4, <2>6, <2>7
<1>9. k \in UpperSettings /\ h \in UpperSettings
  BY DEF UpperSettings
<1>10. /\ d.c = c /\ d.n = n /\ c.cfg = k /\ d \in UP!SoundStates(k) /\ UP!Coherent(d, UP!Space)
       /\ \A a \in UP!Space : UP!ViewAt(d, a) = L2Holds(d.n, a)
  <2>1. Fits(k, c, d)
    <3> HIDE DEF Fits
    <3> QED BY <1>8, <1>9
  <2> QED BY <2>1, Zenon
<1>11. e.c = i /\ e.n = n /\ i.cfg = h /\ e \in UP!SoundStates(h) /\ UP!Coherent(e, UP!Space)
  <2>1. Fits(h, i, e)
    <3> HIDE DEF Fits
    <3> QED BY <1>8, <1>9
  <2> QED BY <2>1, Zenon
<1>12. UP!AllClean(e.c)
  BY <1>11 DEF UP!Empty, UP!AllClean
<1>13. UP!Settled(d, UP!Space) /\ \A a \in UP!Space : UP!ViewAt(d, a) = cells[a]
  BY <1>7, <1>10 DEF UP!Settled
<1>14. UP!Space \in SUBSET UP!Space
  OBVIOUS
<1>15. Caches(d, e, UP!Space, UP!Space)
  BY <1>6, <1>10, <1>11, <1>12, <1>13, <1>14, Zenon DEF Caches
<1> QED BY <1>13, <1>15 DEF Holding

-----------------------------------------------------------------------------
(* From the variables to these states and back. *)

Shown(d) == [a \in Addresses |-> UP!ViewAt(d, a)]

\* What a cache in front of L2 shows.
LEMMA ThroughIs ==
  ASSUME NEW c, NEW b, NEW cells, NEW a
  PROVE  UP!ViewAt(Over(c, Over(b, [cell |-> cells, ok |-> TRUE])), a) =
           IF Upper!Resident(c, a) THEN Upper!Cell(c, a)
           ELSE IF Lower!Resident(b, a) THEN Lower!Cell(b, a) ELSE cells[a]
<1> DEFINE n == Over(b, [cell |-> cells, ok |-> TRUE])
           s == Over(c, n)
<1>1. s.c = c /\ s.n = n /\ n.c = b /\ n.n.cell = cells
  BY DEF Over
<1> HIDE DEF n, s
<1>2. UP!ViewAt(s, a) = IF Upper!Resident(c, a) THEN Upper!Cell(c, a) ELSE L2Holds(n, a)
  BY <1>1, UpperLookup, Zenon DEF UP!ViewAt
<1>3. L2Holds(n, a) = IF Lower!Resident(b, a) THEN Lower!Cell(b, a) ELSE cells[a]
  BY <1>1, LowerLookup, Zenon DEF L2Holds, LO!ViewAt, MemHolds
<1> QED BY <1>2, <1>3, Zenon DEF n, s

\* What loads see, before and after a step.
LEMMA ViewIs ==
  /\ View = Shown(DataState)
  /\ View' = Shown(DataState')
  /\ \A a : Through(instruction, a) = UP!ViewAt(InstructionState, a)
<1>1. \A a : Through(l1, a) = UP!ViewAt(DataState, a)
  <2>1. \A a : UP!ViewAt(DataState, a) =
                 IF Upper!Resident(l1, a) THEN Upper!Cell(l1, a)
                 ELSE IF Lower!Resident(l2, a) THEN Lower!Cell(l2, a) ELSE mem[a]
    BY ThroughIs DEF DataState, L2State
  <2> QED BY <2>1, Zenon DEF Through, SharedView
<1>2. \A a : Through(l1, a)' = UP!ViewAt(DataState', a)
  <2>1. \A a : UP!ViewAt(DataState', a) =
                 IF Upper!Resident(l1', a) THEN Upper!Cell(l1', a)
                 ELSE IF Lower!Resident(l2', a) THEN Lower!Cell(l2', a) ELSE mem'[a]
    BY ThroughIs DEF DataState, L2State
  <2> QED BY <2>1, Zenon DEF Through, SharedView
<1>3. \A a : Through(instruction, a) = UP!ViewAt(InstructionState, a)
  <2>1. \A a : UP!ViewAt(InstructionState, a) =
                 IF Upper!Resident(instruction, a) THEN Upper!Cell(instruction, a)
                 ELSE IF Lower!Resident(l2, a) THEN Lower!Cell(l2, a) ELSE mem[a]
    BY ThroughIs DEF InstructionState, L2State
  <2> QED BY <2>1, Zenon DEF Through, SharedView
<1>4. View = Shown(DataState)
  BY <1>1, Zenon DEF View, Shown
<1>5. View' = Shown(DataState')
  BY <1>2, Zenon DEF View, Shown
<1> QED BY <1>3, <1>4, <1>5

\* A state of the two levels is told by its parts.
LEMMA Rebuilt ==
  ASSUME NEW cfg, NEW s \in UP!States(cfg)
  PROVE  /\ Over(s.n.c, [cell |-> s.n.n.cell, ok |-> TRUE]) = s.n
         /\ Over(s.c, s.n) = s
         /\ Status(s) = "ok"
<1>1. s.n \in L2Dev
  BY UP!StateFacts
<1>2. PICK k : s.n \in LO!States(k)
  BY <1>1, L2Facts
<1>3. s.n.n \in MemDev
  BY <1>2, LO!StateFacts
<1>4. [cell |-> s.n.n.cell, ok |-> TRUE] = s.n.n /\ s.n.n.ok = TRUE
  BY <1>3 DEF MemDev
<1>5. s.n = [c |-> s.n.c, n |-> s.n.n, err |-> "none", script |-> Quiet]
  BY <1>2, SameSets DEF LO!States
<1>6. s = [c |-> s.c, n |-> s.n, err |-> "none", script |-> Quiet]
  BY SameSets DEF UP!States
<1>7. s.err = "none" /\ s.n.err = "none"
  BY <1>2, SameSets DEF LO!States, UP!States
<1>8. Status(s) = "ok"
  BY <1>4, <1>7 DEF Status
<1> QED BY <1>4, <1>5, <1>6, <1>8, Zenon DEF Over

\* The variables, after a step that leaves L1 in the state s.
LEMMA DataLands ==
  ASSUME NEW cfg, NEW s \in UP!States(cfg), l1' = s.c, Below(s), instruction' = instruction
  PROVE  DataState' = s /\ InstructionState' = [InstructionState EXCEPT !.n = s.n]
<1>1. Over(s.n.c, [cell |-> s.n.n.cell, ok |-> TRUE]) = s.n /\ Over(s.c, s.n) = s
  BY Rebuilt
<1>2. l2' = s.n.c /\ mem' = s.n.n.cell
  BY DEF Below
<1>3. L2State' = s.n
  BY <1>1, <1>2, Zenon DEF L2State
<1>4. DataState' = s
  BY <1>1, <1>3, Zenon DEF DataState
<1>5. InstructionState' = Over(instruction, s.n)
  BY <1>3, Zenon DEF InstructionState
<1>6. Over(instruction, s.n) = [InstructionState EXCEPT !.n = s.n]
  BY DEF InstructionState, Over
<1> QED BY <1>4, <1>5, <1>6

\* And the instruction cache.
LEMMA InstructionLands ==
  ASSUME NEW cfg, NEW s \in UP!States(cfg), instruction' = s.c, Below(s), l1' = l1
  PROVE  InstructionState' = s /\ DataState' = [DataState EXCEPT !.n = s.n]
<1>1. Over(s.n.c, [cell |-> s.n.n.cell, ok |-> TRUE]) = s.n /\ Over(s.c, s.n) = s
  BY Rebuilt
<1>2. l2' = s.n.c /\ mem' = s.n.n.cell
  BY DEF Below
<1>3. L2State' = s.n
  BY <1>1, <1>2, Zenon DEF L2State
<1>4. InstructionState' = s
  BY <1>1, <1>3, Zenon DEF InstructionState
<1>5. DataState' = Over(l1, s.n)
  BY <1>3, Zenon DEF DataState
<1>6. Over(l1, s.n) = [DataState EXCEPT !.n = s.n]
  BY DEF DataState, Over
<1> QED BY <1>4, <1>5, <1>6

\* And L2 alone.
LEMMA BelowLands ==
  ASSUME NEW m \in L2Dev, l2' = m.c, mem' = m.n.cell, l1' = l1, instruction' = instruction
  PROVE  /\ DataState' = [DataState EXCEPT !.n = m]
         /\ InstructionState' = [InstructionState EXCEPT !.n = m]
<1>1. PICK k : m \in LO!States(k)
  BY L2Facts
<1>2. m.n \in MemDev
  BY <1>1, LO!StateFacts
<1>3. [cell |-> m.n.cell, ok |-> TRUE] = m.n
  BY <1>2 DEF MemDev
<1>4. m = [c |-> m.c, n |-> m.n, err |-> "none", script |-> Quiet]
  BY <1>1, SameSets DEF LO!States
<1>5. L2State' = m
  BY <1>3, <1>4, Zenon DEF L2State, Over
<1>6. DataState' = Over(l1, m) /\ InstructionState' = Over(instruction, m)
  BY <1>5, Zenon DEF DataState, InstructionState
<1>7. Over(l1, m) = [DataState EXCEPT !.n = m] /\ Over(instruction, m) = [InstructionState EXCEPT !.n = m]
  BY DEF DataState, InstructionState, Over
<1> QED BY <1>6, <1>7

\* An access through L1 that completes, and one that throws.
LEMMA DataFinishes ==
  ASSUME NEW cfg, NEW s \in UP!States(cfg), NEW data, FinishData(s, data)
  PROVE  /\ DataState' = s /\ InstructionState' = [InstructionState EXCEPT !.n = s.n]
         /\ widgets' = widgets
         /\ reply' = [status |-> "ok", data |-> data]
<1>1. l1' = s.c /\ Below(s) /\ instruction' = instruction /\ widgets' = widgets
  BY DEF FinishData
<1>2. Status(s) = "ok"
  BY Rebuilt
<1>3. reply' = [status |-> "ok", data |-> data]
  BY <1>2, Zenon DEF FinishData, Reply
<1> QED BY <1>1, <1>3, DataLands

\* An operation that memory refuses leaves the caches as they then are.
LEMMA DataThrows ==
  ASSUME NEW cfg, NEW u \in UP!States(cfg), NEW data, NEW s, s = Thrown(u), FinishData(s, data)
  PROVE  /\ DataState' = u /\ InstructionState' = [InstructionState EXCEPT !.n = u.n]
         /\ widgets' = widgets
         /\ reply' = [status |-> "range", data |-> <<>>]
         /\ Status(s) = "range"
<1>1. s.c = u.c /\ s.n = u.n /\ s.err = "range"
  BY DEF Thrown, UP!States
<1>2. l1' = u.c /\ Below(u) /\ instruction' = instruction /\ widgets' = widgets
  BY <1>1 DEF FinishData, Below
<1>3. Status(s) = "range"
  BY <1>1 DEF Status
<1>4. reply' = [status |-> "range", data |-> <<>>]
  BY <1>3 DEF FinishData, Reply
<1> QED BY <1>2, <1>3, <1>4, DataLands

-----------------------------------------------------------------------------
(* The histories. *)

\* The memory changes a step can have made, of cells that are all in S.
Writable(S) ==
  {acc \in Accesses : acc[1] + acc[2] <= MemSize /\ acc[1] .. acc[1] + acc[2] - 1 \subseteq S}

Changes(S) ==
  UNION {[acc : {acc}, old : LO!Cells(acc[2]), new : LO!Cells(acc[2])] : acc \in Writable(S)}

\* What a change is.
LEMMA ChangeIs ==
  ASSUME NEW S, NEW ch \in Changes(S)
  PROVE  /\ ch.acc \in Accesses
         /\ ch.acc \in Nat \X (Nat \ {0})
         /\ ch.acc[1] \in Nat /\ ch.acc[2] \in Nat \ {0}
         /\ ch.acc[1] + ch.acc[2] <= MemSize
         /\ ch.acc[1] .. ch.acc[1] + ch.acc[2] - 1 \subseteq S
         /\ ch.old \in UP!Cells(ch.acc[2]) /\ ch.new \in UP!Cells(ch.acc[2])
<1>1. PICK acc \in Writable(S) : ch \in [acc : {acc}, old : LO!Cells(acc[2]), new : LO!Cells(acc[2])]
  BY DEF Changes
<1>2. ch.acc = acc /\ ch.old \in LO!Cells(acc[2]) /\ ch.new \in LO!Cells(acc[2])
  BY <1>1
<1>3. acc \in Accesses /\ acc[1] + acc[2] <= MemSize /\ acc[1] .. acc[1] + acc[2] - 1 \subseteq S
  BY DEF Writable
<1>4. acc \in Nat \X (Nat \ {0})
  BY <1>3, AccessesAssumption
<1>5. acc[1] \in Nat /\ acc[2] \in Nat \ {0}
  BY <1>4
<1> QED BY <1>2, <1>3, <1>4, <1>5, SameSets

\* And the change a store records.
LEMMA ChangeMade ==
  ASSUME NEW S, NEW acc \in Accesses, acc[1] + acc[2] <= MemSize,
         acc[1] .. acc[1] + acc[2] - 1 \subseteq S,
         NEW old \in LO!Cells(acc[2]), NEW new \in LO!Cells(acc[2])
  PROVE  [acc |-> acc, old |-> old, new |-> new] \in Changes(S)
<1>1. acc \in Writable(S)
  BY DEF Writable
<1> QED BY <1>1 DEF Changes

\* A store makes more cells writable, never fewer.
LEMMA ChangesGrow ==
  ASSUME NEW S, NEW R, S \subseteq R
  PROVE  Changes(S) \subseteq Changes(R)
<1>1. Writable(S) \subseteq Writable(R)
  BY DEF Writable
<1> QED BY <1>1 DEF Changes

\* A history keeps its latest steps only.
LEMMA RecentIs ==
  ASSUME NEW A, NEW stack \in Seq(A)
  PROVE  Recent(stack) \in Seq(A)
<1> DEFINE k == Len(stack) - MaxHistory + 1
           m == Max({1, k})
<1>1. k \in Int
  BY HistoryAssumption
<1>2. m \in Nat \ {0}
  <2> HIDE DEF k
  <2>1. \E x \in {1, k} : \A y \in {1, k} : x >= y
    BY <1>1
  <2>2. m \in {1, k} /\ \A y \in {1, k} : m >= y
    BY <2>1, Zenon DEF Max
  <2> QED BY <1>1, <2>2
<1> HIDE DEF m
<1>3. SubSeq(stack, m, Len(stack)) \in Seq(A)
  BY <1>2
<1> QED BY <1>3, Zenon DEF Recent, m, k

\* The step that is undone or redone, and the others.
LEMMA StackIs ==
  ASSUME NEW A, NEW stack \in Seq(A), stack # <<>>
  PROVE  Last(stack) \in A /\ Front(stack) \in Seq(A)
BY DEF Last, Front

\* The bytes a step delta holds, from index 0.
LEMMA FromZeroIs ==
  ASSUME NEW len \in Nat, NEW data \in Seq(Values), Len(data) = len
  PROVE  FromZero(data) \in LO!Cells(len)
<1>1. \A i \in 0 .. len - 1 : data[i + 1] \in Values
  OBVIOUS
<1> QED BY <1>1 DEF FromZero, LO!Cells

-----------------------------------------------------------------------------
(* The inductive invariant.  What L1 shows is known everywhere, or, where an  *)
(* undo bypasses the caches, at the addresses the program has not written.    *)

Loaded == LO!Space \ stored
Trust  == IF UndoBypassesCaches THEN Loaded ELSE LO!Space

Consistent ==
  /\ Caches(DataState, InstructionState, Trust, Loaded)
  /\ widgets \in Widgets
  /\ stored \subseteq Addresses
  /\ undo \in Seq(Changes(stored)) /\ redo \in Seq(Changes(stored))
  /\ Running

\* Nothing that loads see has changed.
Unseen == UP!SameView(DataState, DataState', Trust)

\* A step that writes no new cell.
LEMMA SameTrust ==
  ASSUME stored' = stored
  PROVE  Trust' = Trust /\ Loaded' = Loaded
BY DEF Trust, Loaded

\* The sets of addresses.
LEMMA TrustFacts ==
  /\ Loaded \subseteq Trust /\ Trust \subseteq UP!Space
  /\ ~UndoBypassesCaches => Trust = UP!Space /\ Trust' = UP!Space
  /\ UndoBypassesCaches => Trust = Loaded
BY SameSets DEF Trust, Loaded

\* What a load answers.
Answered(acc) ==
  \E data \in UP!Cells(acc[2]) :
    /\ reply' = [status |-> "ok", data |-> data]
    /\ \A i \in 0 .. acc[2] - 1 : acc[1] + i \in Trust => data[i] = UP!ViewAt(DataState, acc[1] + i)

\* The numbers of an access.
LEMMA AccessIs ==
  ASSUME NEW acc \in Accesses
  PROVE  /\ acc \in Nat \X (Nat \ {0}) /\ acc[1] \in Nat /\ acc[2] \in Nat \ {0}
         /\ OutOfRange(acc[1], acc[2]) <=> ~(acc[1] + acc[2] <= MemSize)
         /\ acc[1] + acc[2] <= MemSize => acc[1] + acc[2] <= Extent
<1>1. acc \in Nat \X (Nat \ {0})
  BY AccessesAssumption
<1>2. acc[1] \in Nat /\ acc[2] \in Nat \ {0}
  BY <1>1
<1> QED BY <1>1, <1>2, ExtentFacts DEF OutOfRange

\* A load shows what was there, and answers it.
LEMMA LoadStep ==
  ASSUME LinesNest, NoSpanning, Consistent, NEW acc \in Accesses, Load(acc)
  PROVE  Consistent' /\ Unseen /\ Answered(acc)
<1> DEFINE d == DataState
           k == d.c.cfg
           r == Upper!ReadGeneric(d, acc[1], acc[2])
<1>1. /\ ~OutOfRange(acc[1], acc[2]) /\ FinishData(r.s, r.data)
      /\ undo' = undo /\ redo' = redo /\ stored' = stored
  BY Zenon DEF Load, FinishLoad
<1>2. acc[1] \in Nat /\ acc[2] \in Nat \ {0} /\ acc[1] + acc[2] <= Extent
  BY <1>1, AccessIs
<1>3. Caches(d, InstructionState, Trust, Loaded)
  BY DEF Consistent
<1> HIDE DEF d
<1>4. /\ UP!Geometry(k) /\ d \in UP!SoundStates(k) /\ k \in DataSettings
      /\ UP!Coherent(d, Trust) /\ Trust \in SUBSET UP!Space
  BY <1>3, CachesFacts DEF Caches
<1>5. UP!Within(d.c, acc[1], acc[2])
  BY <1>4 DEF NoSpanning, UP!Within, UP!Block
<1>6. Reads(k, d, r.s) /\ Finds(d, r.data, acc[1], acc[2])
  BY <1>2, <1>4, <1>5, UpperReads
<1> HIDE DEF r
<1>7. r.s \in UP!States(k)
  BY <1>6 DEF Reads, UP!SoundStates
<1>8. /\ DataState' = r.s /\ InstructionState' = [InstructionState EXCEPT !.n = r.s.n]
      /\ widgets' = widgets /\ reply' = [status |-> "ok", data |-> r.data]
  BY <1>1, <1>7, DataFinishes
<1>9. Caches(DataState', InstructionState', Trust, Loaded) /\ UP!SameView(d, DataState', Trust)
  BY <1>3, <1>6, <1>8, DataReads
<1>10. Trust' = Trust /\ Loaded' = Loaded
  BY <1>1, SameTrust
<1>11. Running'
  BY <1>8 DEF Running
<1>12. Consistent'
  BY <1>1, <1>8, <1>9, <1>10, <1>11 DEF Consistent
<1>13. Answered(acc)
  BY <1>4, <1>6, <1>8 DEF Finds, Answered, d
<1>14. Unseen
  BY <1>9, Zenon DEF Unseen, d
<1> QED BY <1>12, <1>13, <1>14

\* A load that is refused.
LEMMA RefuseLoadStep ==
  ASSUME Consistent, NEW acc \in Accesses, RefuseLoad(acc)
  PROVE  Consistent' /\ View' = View
<1>1. /\ l1' = l1 /\ instruction' = instruction /\ l2' = l2 /\ mem' = mem /\ widgets' = widgets
      /\ undo' = undo /\ redo' = redo /\ stored' = stored
      /\ reply' = [status |-> "range", data |-> <<>>]
  BY DEF RefuseLoad, Reply, caches
<1>2. DataState' = DataState /\ InstructionState' = InstructionState
  BY <1>1 DEF DataState, InstructionState, L2State
<1>3. Trust' = Trust /\ Loaded' = Loaded
  BY <1>1, SameTrust
<1>4. Running'
  BY <1>1 DEF Running
<1>5. Consistent'
  BY <1>1, <1>2, <1>3, <1>4 DEF Consistent
<1>6. View' = View
  BY <1>2, ViewIs, Zenon
<1> QED BY <1>5, <1>6

\* A fetch shows loads and fetches what was there.
LEMMA FetchStep ==
  ASSUME LinesNest, Consistent, NEW a \in Code, Fetch(a)
  PROVE  Consistent' /\ Unseen /\ reply' = reply /\ request' = request
<1> DEFINE d == DataState
           e == InstructionState
           t == Upper!ReadGeneric(e, a, 1).s
<1>1. FinishFetch(a, t)
  BY Zenon DEF Fetch
<1>2. Caches(d, e, Trust, Loaded) /\ a \in Addresses
  BY AccessesAssumption DEF Consistent
<1> HIDE DEF d, e
<1>3. Caches([d EXCEPT !.n = t.n], t, Trust, Loaded) /\ UP!SameView(d, [d EXCEPT !.n = t.n], Trust)
  <2> DEFINE u == [d EXCEPT !.n = t.n]
  <2>1. t = Upper!ReadGeneric(e, a, 1).s /\ u = [d EXCEPT !.n = t.n]
    OBVIOUS
  <2> HIDE DEF t, u
  <2>2. Caches(u, t, Trust, Loaded) /\ UP!SameView(d, u, Trust)
    BY <1>2, <2>1, InstructionReads
  <2> QED BY <2>2 DEF u
<1> HIDE DEF t
<1>4. t \in UP!States(t.c.cfg)
  BY <1>3 DEF Caches, UP!SoundStates
<1>5. Status(t) = "ok"
  BY <1>4, Rebuilt
<1>6. /\ instruction' = t.c /\ Below(t) /\ reply' = reply /\ request' = request
      /\ l1' = l1 /\ widgets' = widgets /\ undo' = undo /\ redo' = redo /\ stored' = stored
  BY <1>1, <1>5 DEF FinishFetch
<1>7. InstructionState' = t /\ DataState' = [d EXCEPT !.n = t.n]
  BY <1>4, <1>6, InstructionLands DEF d
<1>8. Trust' = Trust /\ Loaded' = Loaded
  BY <1>6, SameTrust
<1>9. Running'
  BY <1>6 DEF Running, Consistent
<1>10. Consistent'
  BY <1>3, <1>6, <1>7, <1>8, <1>9 DEF Consistent
<1>11. Unseen
  BY <1>3, <1>7, Zenon DEF Unseen, d
<1> QED BY <1>6, <1>10, <1>11

\* Fewer addresses are known.
LEMMA CachesShrink ==
  ASSUME NEW d, NEW e, NEW T, NEW L, Caches(d, e, T, L), NEW S \in SUBSET T, L \in SUBSET S
  PROVE  Caches(d, e, S, L)
<1>1. d \in UP!States(d.c.cfg) /\ UP!Coherent(d, T)
  BY DEF Caches, UP!SoundStates
<1>2. UP!Coherent(d, S)
  BY <1>1, UpperShrinks
<1>3. S \in SUBSET UP!Space
  BY DEF Caches
<1> QED BY <1>2, <1>3, Zenon DEF Caches

\* Once an access has thrown, reading its bytes does nothing.
LEMMA ReadBytesFails ==
  ASSUME NEW s, ~Upper!Ok(s), NEW acc \in Nat \X (Nat \ {0}), NEW r, r = ReadBytes(s, acc)
  PROVE  r.s = s
<1> DEFINE seq == Bytes(acc)
           base == [s |-> s, data |-> <<>>]
           f == FR!Stages(base, seq)
           S == {i \in Nat : i <= acc[2] => f[i].s = s}
<1>1. acc[2] \in Nat
  OBVIOUS
<1>2. seq \in Seq(Nat) /\ Len(seq) = acc[2]
  BY BytesAre
<1>3. r = FR!Folded(base, seq)
  <2>1. DOMAIN seq = 1 .. Len(seq)
    BY <1>2
  <2> HIDE DEF seq, base
  <2>2. FoldLeft(ReadByte, base, seq) = FR!Folded(base, seq)
    BY <2>1, Zenon DEF FoldLeft, MapThenFoldSet, FR!Folded, FR!Folds, FR!At, FR!Latest, Max
  <2> QED BY <2>2, Zenon DEF ReadBytes, seq, base
<1> HIDE DEF seq
<1>4. /\ f[0] = base
      /\ \A i \in 1 .. Len(seq) : f[i] = ReadByte(f[i - 1], seq[i])
      /\ f[Len(seq)] = r
  <2> HIDE DEF base
  <2>1. f = FR!Stages(base, seq) /\ seq \in Seq(Nat)
    BY <1>2
  <2> HIDE DEF f
  <2>2. /\ f[0] = base
        /\ \A i \in 1 .. Len(seq) : f[i] = ReadByte(f[i - 1], seq[i])
        /\ f[Len(seq)] = FR!Folded(base, seq)
    BY <2>1, FR!FoldedPrefixes
  <2> QED BY <1>3, <2>2
<1> HIDE DEF f
<1>5. 0 \in S
  BY <1>4
<1>6. ASSUME NEW i \in Nat, i \in S PROVE i + 1 \in S
  <2> SUFFICES ASSUME i + 1 <= acc[2] PROVE f[i + 1].s = s
    OBVIOUS
  <2>1. f[i].s = s
    BY <1>1, <1>6
  <2>2. f[i + 1] = ReadByte(f[i], seq[i + 1])
    <3>1. i + 1 \in 1 .. Len(seq) /\ (i + 1) - 1 = i
      BY <1>1, <1>2
    <3> QED BY <1>4, <3>1
  <2>3. f[i + 1] = f[i]
    BY <2>1, <2>2, Zenon DEF ReadByte
  <2> QED BY <2>1, <2>3
<1>7. acc[2] \in S
  <2> HIDE DEF S
  <2> QED BY <1>1, <1>5, <1>6, LO!Induction
<1> QED BY <1>1, <1>2, <1>4, <1>7

\* The states of a store whose cells are all in memory.
LEMMA StoreWrites ==
  ASSUME NEW k, UP!Geometry(k), NEW d \in UP!SoundStates(k), NEW acc \in Accesses,
         acc[1] + acc[2] <= MemSize, NEW data \in UP!Cells(acc[2]), UP!Within(d.c, acc[1], acc[2]),
         NEW old, old = ReadBytes(d, acc), NEW new, new = ReadBytes(Written(old.s, acc, data), acc)
  PROVE  /\ Writes(k, d, new.s, acc[1], acc[2], data)
         /\ FromZero(old.data) \in LO!Cells(acc[2]) /\ FromZero(new.data) \in LO!Cells(acc[2])
<1>1. /\ acc \in Nat \X (Nat \ {0}) /\ acc[1] \in Nat /\ acc[2] \in Nat \ {0} /\ acc[2] \in Nat
      /\ ~(acc[1] + acc[2] > MemSize)
  BY AccessIs, ExtentFacts
<1>2. ASSUME NEW s \in UP!SoundStates(k), NEW r, r = ReadBytes(s, acc)
      PROVE  Reads(k, s, r.s) /\ FromZero(r.data) \in LO!Cells(acc[2])
  <2>1. ReadSoFar(k, s, r, acc, acc[2])
    BY <1>1, <1>2, ReadBytesIs DEF Stopped
  <2>2. Reads(k, s, r.s) /\ r.data \in Seq(Values) /\ Len(r.data) = acc[2]
    BY <2>1, Zenon DEF ReadSoFar
  <2> QED BY <1>1, <2>2, FromZeroIs
<1>3. Reads(k, d, old.s) /\ FromZero(old.data) \in LO!Cells(acc[2])
  BY <1>2
<1> DEFINE w == Written(old.s, acc, data)
<1>4. Writes(k, old.s, w, acc[1], acc[2], data)
  <2>1. old.s \in UP!SoundStates(k) /\ old.s \in UP!States(k)
    BY <1>3 DEF Reads, UP!SoundStates
  <2>2. Upper!Ok(old.s)
    BY <2>1, L2IsDevice, UP!StateOk, UpperFresh
  <2>3. w = Upper!WriteGeneric(old.s, acc[1], data, acc[2])
    BY <2>2, Zenon DEF Written
  <2>4. UP!Within(old.s.c, acc[1], acc[2])
    <3>1. d \in UP!States(k)
      BY DEF UP!SoundStates
    <3>2. old.s.c.cfg = k /\ d.c.cfg = k
      BY <2>1, <3>1, UP!StateFacts
    <3> QED BY <3>2, Zenon DEF UP!Within, UP!Block
  <2> HIDE DEF w
  <2> QED BY <1>1, <2>1, <2>3, <2>4, UpperWrites
<1>5. new = ReadBytes(w, acc)
  OBVIOUS
<1> HIDE DEF w
<1>6. w \in UP!SoundStates(k)
  BY <1>4, Zenon DEF Writes
<1>7. Reads(k, w, new.s) /\ FromZero(new.data) \in LO!Cells(acc[2])
  BY <1>2, <1>5, <1>6
<1>8. Writes(k, old.s, new.s, acc[1], acc[2], data)
  BY <1>4, <1>7, WritesThenReads
<1>9. Writes(k, d, new.s, acc[1], acc[2], data)
  BY <1>3, <1>8, ReadsThenWrites
<1> QED BY <1>3, <1>7, <1>9

\* And of one that throws while it reads the bytes from before.
LEMMA StoreStops ==
  ASSUME NEW k, UP!Geometry(k), NEW d \in UP!SoundStates(k), NEW acc \in Accesses,
         ~(acc[1] + acc[2] <= MemSize), NEW data,
         NEW old, old = ReadBytes(d, acc), NEW new, new = ReadBytes(Written(old.s, acc, data), acc)
  PROVE  \E u : Reads(k, d, u) /\ new.s = Thrown(u)
<1>1. acc \in Nat \X (Nat \ {0}) /\ acc[1] \in Nat /\ acc[2] \in Nat \ {0} /\ acc[2] # 0
  BY AccessIs
<1>2. Stopped(k, d, old, acc, acc[2])
  BY <1>1, ReadBytesIs DEF ReadSoFar
<1>3. PICK u : Reads(k, d, u) /\ old.s = Thrown(u)
  BY <1>2 DEF Stopped
<1>4. u \in UP!States(k)
  BY <1>3 DEF Reads, UP!SoundStates
<1>5. old.s.err = "range"
  BY <1>3, <1>4 DEF Thrown, UP!States
<1>6. ~Upper!Ok(old.s)
  BY <1>5 DEF Upper!Ok
<1>7. Written(old.s, acc, data) = old.s
  BY <1>6, Zenon DEF Written
<1>8. new.s = old.s
  BY <1>1, <1>6, <1>7, ReadBytesFails
<1> QED BY <1>3, <1>8

\* What a step that writes at an access shows.
Wrote(acc, data) == Shows(DataState, DataState', Trust, acc[1], acc[2], data)

\* A step that leaves what it can know of the memory, once more cells have been
\* written.
LEMMA TrustShrinks ==
  ASSUME stored \subseteq stored', Caches(DataState', InstructionState', Trust, Loaded')
  PROVE  Caches(DataState', InstructionState', Trust', Loaded')
<1>1. Loaded' \subseteq Loaded
  BY DEF Loaded
<1>2. Trust' \in SUBSET Trust /\ Loaded' \in SUBSET Trust'
  BY <1>1 DEF Trust, Loaded
<1> QED BY <1>2, CachesShrink

\* A store of cells that are all in memory.
LEMMA StoreStep ==
  ASSUME LinesNest, NoSpanning, Consistent, NEW acc \in Accesses, NEW data \in UP!Cells(acc[2]),
         Store(acc, data), acc[1] + acc[2] <= MemSize
  PROVE  Consistent' /\ Wrote(acc, data) /\ reply' = [status |-> "ok", data |-> <<>>]
<1> DEFINE d == DataState
           k == d.c.cfg
           old == ReadBytes(d, acc)
           new == ReadBytes(Written(old.s, acc, data), acc)
           cells == acc[1] .. acc[1] + acc[2] - 1
           change == [acc |-> acc, old |-> FromZero(old.data), new |-> FromZero(new.data)]
<1>1. FinishStore(acc, old, new)
  BY Zenon DEF Store, StoreAfter
<1>2. Caches(d, InstructionState, Trust, Loaded)
  BY DEF Consistent
<1>3. acc[1] \in Nat /\ acc[2] \in Nat \ {0}
  BY AccessIs
<1> HIDE DEF d
<1>4. /\ UP!Geometry(k) /\ d \in UP!SoundStates(k) /\ k \in DataSettings
  BY <1>2, CachesFacts DEF Caches
<1>5. UP!Within(d.c, acc[1], acc[2])
  BY <1>4 DEF NoSpanning, UP!Within, UP!Block
<1>6. /\ Writes(k, d, new.s, acc[1], acc[2], data)
      /\ FromZero(old.data) \in LO!Cells(acc[2]) /\ FromZero(new.data) \in LO!Cells(acc[2])
  <2> DEFINE o == old
             n == new
  <2>1. o = ReadBytes(d, acc) /\ n = ReadBytes(Written(o.s, acc, data), acc)
    OBVIOUS
  <2> HIDE DEF o, n
  <2>2. /\ Writes(k, d, n.s, acc[1], acc[2], data)
        /\ FromZero(o.data) \in LO!Cells(acc[2]) /\ FromZero(n.data) \in LO!Cells(acc[2])
    BY <1>4, <1>5, <2>1, StoreWrites
  <2> QED BY <2>2 DEF o, n
<1> HIDE DEF old, new
<1>7. new.s \in UP!States(k)
  BY <1>6 DEF Writes, UP!SoundStates
<1>8. FinishData(new.s, <<>>) /\ Status(new.s) = "ok"
  BY <1>1, <1>7, Rebuilt DEF FinishStore
<1>9. /\ DataState' = new.s /\ InstructionState' = [InstructionState EXCEPT !.n = new.s.n]
      /\ widgets' = widgets /\ reply' = [status |-> "ok", data |-> <<>>]
  BY <1>7, <1>8, DataFinishes
<1>10. /\ undo' = IF old.data = new.data THEN undo ELSE Recent(Append(undo, change))
       /\ redo' = <<>>
       /\ stored' = stored \cup cells
  BY <1>1, <1>8, Zenon DEF FinishStore
<1>11. stored \subseteq stored' /\ stored' \subseteq Addresses /\ cells \subseteq stored'
  <2>1. cells \subseteq Addresses
    BY <1>3, ExtentFacts DEF Addresses
  <2> QED BY <1>10, <2>1 DEF Consistent
<1>12. Loaded' \in SUBSET Loaded /\ Apart(Loaded', acc[1], acc[2])
  <2>1. Loaded' \in SUBSET Loaded
    BY <1>11 DEF Loaded
  <2>2. ASSUME NEW b \in Loaded', b - acc[1] \in 0 .. acc[2] - 1 PROVE FALSE
    <3>1. b \notin cells /\ b \in LO!Space
      BY <1>11, <2>2 DEF Loaded
    <3>2. b \in Nat
      BY <3>1, ExtentFacts DEF LO!Space
    <3> QED BY <1>3, <2>2, <3>1, <3>2
  <2> QED BY <2>1, <2>2 DEF Apart
<1>13. Caches(DataState', InstructionState', Trust, Loaded') /\ Shows(d, DataState', Trust, acc[1], acc[2], data)
  BY <1>2, <1>6, <1>9, <1>12, DataWrites
<1>14. Caches(DataState', InstructionState', Trust', Loaded')
  BY <1>11, <1>13, TrustShrinks
<1>15. undo' \in Seq(Changes(stored')) /\ redo' \in Seq(Changes(stored'))
  <2>1. change \in Changes(stored')
    BY <1>6, <1>11, ChangeMade
  <2>2. undo \in Seq(Changes(stored))
    BY DEF Consistent
  <2>3. undo \in Seq(Changes(stored'))
    <3>1. Changes(stored) \subseteq Changes(stored')
      BY <1>11, ChangesGrow
    <3> QED BY <2>2, <3>1
  <2> HIDE DEF change
  <2>4. Append(undo, change) \in Seq(Changes(stored'))
    BY <2>1, <2>3
  <2>5. Recent(Append(undo, change)) \in Seq(Changes(stored'))
    BY <2>4, RecentIs
  <2> QED BY <1>10, <2>3, <2>5
<1>16. Running'
  BY <1>9 DEF Running
<1>17. Consistent'
  BY <1>9, <1>11, <1>14, <1>15, <1>16 DEF Consistent
<1>18. Wrote(acc, data)
  BY <1>13, Zenon DEF Wrote, d
<1> QED BY <1>9, <1>17, <1>18

\* A store that reaches beyond the memory.
LEMMA RefuseStoreStep ==
  ASSUME LinesNest, Consistent, NEW acc \in Accesses, NEW data,
         Store(acc, data), ~(acc[1] + acc[2] <= MemSize)
  PROVE  Consistent' /\ Unseen /\ reply' = [status |-> "range", data |-> <<>>]
<1> DEFINE d == DataState
           k == d.c.cfg
           old == ReadBytes(d, acc)
           new == ReadBytes(Written(old.s, acc, data), acc)
<1>1. FinishStore(acc, old, new)
  BY Zenon DEF Store, StoreAfter
<1>2. Caches(d, InstructionState, Trust, Loaded)
  BY DEF Consistent
<1> HIDE DEF d
<1>3. UP!Geometry(k) /\ d \in UP!SoundStates(k)
  BY <1>2, CachesFacts DEF Caches
<1>4. PICK u : Reads(k, d, u) /\ new.s = Thrown(u)
  <2> DEFINE o == old
             n == new
  <2>1. o = ReadBytes(d, acc) /\ n = ReadBytes(Written(o.s, acc, data), acc)
    OBVIOUS
  <2> HIDE DEF o, n
  <2>2. \E u : Reads(k, d, u) /\ n.s = Thrown(u)
    BY <1>3, <2>1, StoreStops
  <2> QED BY <2>2 DEF n
<1> HIDE DEF old, new
<1>5. u \in UP!States(k)
  BY <1>4 DEF Reads, UP!SoundStates
<1>6. FinishData(new.s, <<>>)
  BY <1>1 DEF FinishStore
<1>7. /\ DataState' = u /\ InstructionState' = [InstructionState EXCEPT !.n = u.n]
      /\ widgets' = widgets /\ reply' = [status |-> "range", data |-> <<>>]
      /\ Status(new.s) = "range"
  BY <1>4, <1>5, <1>6, DataThrows
<1>8. undo' = undo /\ redo' = redo /\ stored' = stored
  BY <1>1, <1>7 DEF FinishStore
<1>9. Caches(DataState', InstructionState', Trust, Loaded) /\ UP!SameView(d, DataState', Trust)
  BY <1>2, <1>4, <1>7, DataReads
<1>10. Trust' = Trust /\ Loaded' = Loaded
  BY <1>8, SameTrust
<1>11. Running'
  BY <1>7 DEF Running
<1>12. Consistent'
  BY <1>7, <1>8, <1>9, <1>10, <1>11 DEF Consistent
<1>13. Unseen
  BY <1>9, Zenon DEF Unseen, d
<1> QED BY <1>7, <1>12, <1>13

\* What is written back or again is known to have been written.
LEMMA ChangeApart ==
  ASSUME NEW ch \in Changes(stored)
  PROVE  Apart(Loaded, ch.acc[1], ch.acc[2])
<1>1. /\ ch.acc[1] \in Nat /\ ch.acc[2] \in Nat \ {0}
      /\ ch.acc[1] .. ch.acc[1] + ch.acc[2] - 1 \subseteq stored
  BY ChangeIs
<1>2. ASSUME NEW b \in Loaded, b - ch.acc[1] \in 0 .. ch.acc[2] - 1 PROVE FALSE
  <2>1. b \notin stored /\ b \in Nat
    BY ExtentFacts DEF Loaded, LO!Space
  <2>2. b \in ch.acc[1] .. ch.acc[1] + ch.acc[2] - 1
    BY <1>1, <1>2, <2>1
  <2> QED BY <1>1, <2>1, <2>2
<1> QED BY <1>2 DEF Apart

\* A change is undone or done again through L1.
LEMMA ChangeStep ==
  ASSUME LinesNest, Consistent, NEW ch \in Changes(stored), NEW data \in UP!Cells(ch.acc[2]),
         FinishData(WriteBytes(DataState, ch.acc, data), <<>>), stored' = stored
  PROVE  /\ Caches(DataState', InstructionState', Trust', Loaded')
         /\ widgets' = widgets
         /\ reply' = [status |-> "ok", data |-> <<>>]
         /\ Wrote(ch.acc, data)
<1> DEFINE d == DataState
           k == d.c.cfg
           acc == ch.acc
           t == WriteBytes(d, acc, data)
<1>1. /\ acc \in Nat \X (Nat \ {0}) /\ acc[1] + acc[2] <= MemSize
      /\ Apart(Loaded, acc[1], acc[2])
  BY ChangeIs, ChangeApart
<1>2. Caches(d, InstructionState, Trust, Loaded)
  BY DEF Consistent
<1>3. FinishData(t, <<>>) /\ data \in UP!Cells(acc[2])
  OBVIOUS
<1> HIDE DEF d, acc
<1>4. UP!Geometry(k) /\ d \in UP!SoundStates(k)
  BY <1>2, CachesFacts DEF Caches
<1>5. Writes(k, d, t, acc[1], acc[2], data)
  BY <1>1, <1>3, <1>4, WriteBytesIs
<1> HIDE DEF t
<1>6. t \in UP!States(k)
  BY <1>5 DEF Writes, UP!SoundStates
<1>7. /\ DataState' = t /\ InstructionState' = [InstructionState EXCEPT !.n = t.n]
      /\ widgets' = widgets /\ reply' = [status |-> "ok", data |-> <<>>]
  BY <1>3, <1>6, DataFinishes
<1>8. Loaded \in SUBSET Loaded
  OBVIOUS
<1>9. Caches(DataState', InstructionState', Trust, Loaded) /\ Shows(d, DataState', Trust, acc[1], acc[2], data)
  BY <1>1, <1>2, <1>5, <1>7, <1>8, DataWrites
<1>10. Trust' = Trust /\ Loaded' = Loaded
  BY SameTrust
<1> QED BY <1>7, <1>9, <1>10, Zenon DEF Wrote, d, acc

\* Other cells in a memory that has, or has not, thrown.
LEMMA CellReplaced ==
  ASSUME NEW cells, NEW new, NEW ok
  PROVE  [[cell |-> cells, ok |-> ok] EXCEPT !.cell = new] = [cell |-> new, ok |-> ok]
OBVIOUS

\* A change is undone below the caches.
LEMMA BypassStep ==
  ASSUME LinesNest, Consistent, NEW ch \in Changes(stored), UndoBypassesCaches,
         UndoneBelowCaches(ch), stored' = stored
  PROVE  /\ Caches(DataState', InstructionState', Trust', Loaded')
         /\ widgets' = widgets
         /\ reply' = [status |-> "ok", data |-> <<>>]
<1> DEFINE d == DataState
           e == InstructionState
           a == ch.acc[1]
           n == d.n
           m == [n EXCEPT !.n = [n.n EXCEPT !.cell = Overwritten(n.n.cell, a, ch.old)]]
           t == [d EXCEPT !.n = m]
           u == [e EXCEPT !.n = m]
<1>1. /\ a \in Nat /\ ch.acc[2] \in Nat \ {0} /\ a + ch.acc[2] <= Extent
      /\ ch.old \in UP!Cells(ch.acc[2]) /\ Apart(Loaded, a, ch.acc[2])
  BY ChangeIs, ChangeApart, AccessIs
<1>2. Caches(d, e, Loaded, Loaded)
  BY TrustFacts DEF Consistent
<1>3. /\ l1' = l1 /\ instruction' = instruction /\ l2' = l2 /\ widgets' = widgets
      /\ mem' = Overwritten(mem, a, ch.old)
      /\ reply' = [status |-> "ok", data |-> <<>>]
  BY DEF UndoneBelowCaches, caches, Reply
<1>4. n = Over(l2, [cell |-> mem, ok |-> TRUE])
  BY DEF DataState, L2State, Over
<1>5. m = Over(l2, [cell |-> Overwritten(mem, a, ch.old), ok |-> TRUE])
  <2> DEFINE o == [cell |-> mem, ok |-> TRUE]
             x == Overwritten(mem, a, ch.old)
  <2>1. n.n = o /\ o.cell = mem /\ n = [c |-> l2, n |-> o, err |-> "none", script |-> Quiet]
    BY <1>4 DEF Over
  <2>2. Overwritten(n.n.cell, a, ch.old) = x
    BY <2>1, Zenon
  <2>3. [o EXCEPT !.cell = x] = [cell |-> x, ok |-> TRUE]
    <3> HIDE DEF x
    <3> QED BY CellReplaced, Zenon
  <2>4. m = [n EXCEPT !.n = [cell |-> x, ok |-> TRUE]]
    BY <2>1, <2>2, <2>3, Zenon
  <2> DEFINE p == [cell |-> x, ok |-> TRUE]
  <2>5. [n EXCEPT !.n = p] = Over(l2, p)
    <3> HIDE DEF o, p, n
    <3> QED BY <2>1 DEF Over
  <2> QED BY <2>4, <2>5
<1>6. t = Over(l1, m) /\ u = Over(instruction, m)
  BY DEF DataState, InstructionState, Over
<1> HIDE DEF a
<1>7. DataState' = t /\ InstructionState' = u
  <2> HIDE DEF m, t, u
  <2> QED BY <1>3, <1>5, <1>6, Zenon DEF DataState, InstructionState, L2State
<1>8. m = [d.n EXCEPT !.n = [d.n.n EXCEPT !.cell = Overwritten(d.n.n.cell, a, ch.old)]]
      /\ t = [d EXCEPT !.n = m] /\ u = [e EXCEPT !.n = m]
  OBVIOUS
<1>9. Caches(t, u, Loaded, Loaded)
  <2> HIDE DEF d, e, m, t, u
  <2> QED BY <1>1, <1>2, <1>8, Bypassed DEF Apart
<1>10. Loaded' = Loaded /\ Trust' = Loaded
  BY SameTrust, TrustFacts
<1> QED BY <1>3, <1>7, <1>9, <1>10, Zenon

\* An undo.
LEMMA UndoStep ==
  ASSUME LinesNest, Consistent, Undo
  PROVE  /\ Consistent'
         /\ Last(undo) \in Changes(stored)
         /\ ~UndoBypassesCaches => Wrote(Last(undo).acc, Last(undo).old)
         /\ reply' = [status |-> "ok", data |-> <<>>]
<1> DEFINE ch == Last(undo)
<1>1. /\ undo # <<>> /\ Undone(ch) /\ stored' = stored
      /\ undo' = Front(undo) /\ redo' = Append(redo, ch)
  BY Zenon DEF Undo
<1>2. undo \in Seq(Changes(stored)) /\ redo \in Seq(Changes(stored))
  BY DEF Consistent
<1>3. ch \in Changes(stored) /\ Front(undo) \in Seq(Changes(stored))
  BY <1>1, <1>2, StackIs
<1>4. ch.old \in UP!Cells(ch.acc[2])
  BY <1>3, ChangeIs
<1> HIDE DEF ch
<1>5. /\ Caches(DataState', InstructionState', Trust', Loaded')
      /\ widgets' = widgets
      /\ reply' = [status |-> "ok", data |-> <<>>]
      /\ ~UndoBypassesCaches => Wrote(ch.acc, ch.old)
  <2>1. CASE UndoBypassesCaches
    <3>1. UndoneBelowCaches(ch)
      BY <1>1, <2>1 DEF Undone
    <3> QED BY <1>1, <1>3, <2>1, <3>1, BypassStep
  <2>2. CASE ~UndoBypassesCaches
    <3>1. FinishData(WriteBytes(DataState, ch.acc, ch.old), <<>>)
      BY <1>1, <2>2 DEF Undone
    <3> QED BY <1>1, <1>3, <1>4, <3>1, ChangeStep
  <2> QED BY <2>1, <2>2
<1>6. undo' \in Seq(Changes(stored')) /\ redo' \in Seq(Changes(stored'))
  BY <1>1, <1>2, <1>3
<1>7. Running'
  BY <1>5 DEF Running
<1>8. Consistent'
  BY <1>1, <1>5, <1>6, <1>7 DEF Consistent
<1> QED BY <1>3, <1>5, <1>8 DEF ch

\* A redo.
LEMMA RedoStep ==
  ASSUME LinesNest, Consistent, Redo
  PROVE  /\ Consistent'
         /\ Last(redo) \in Changes(stored)
         /\ Wrote(Last(redo).acc, Last(redo).new)
         /\ reply' = [status |-> "ok", data |-> <<>>]
<1> DEFINE ch == Last(redo)
<1>1. /\ redo # <<>> /\ FinishData(WriteBytes(DataState, ch.acc, ch.new), <<>>) /\ stored' = stored
      /\ undo' = Recent(Append(undo, ch)) /\ redo' = Front(redo)
  BY Zenon DEF Redo
<1>2. undo \in Seq(Changes(stored)) /\ redo \in Seq(Changes(stored))
  BY DEF Consistent
<1>3. ch \in Changes(stored) /\ Front(redo) \in Seq(Changes(stored))
  BY <1>1, <1>2, StackIs
<1>4. ch.new \in UP!Cells(ch.acc[2])
  BY <1>3, ChangeIs
<1> HIDE DEF ch
<1>5. /\ Caches(DataState', InstructionState', Trust', Loaded')
      /\ widgets' = widgets
      /\ reply' = [status |-> "ok", data |-> <<>>]
      /\ Wrote(ch.acc, ch.new)
  BY <1>1, <1>3, <1>4, ChangeStep
<1>6. undo' \in Seq(Changes(stored')) /\ redo' \in Seq(Changes(stored'))
  <2>1. Append(undo, ch) \in Seq(Changes(stored))
    BY <1>2, <1>3
  <2>2. Recent(Append(undo, ch)) \in Seq(Changes(stored))
    BY <2>1, RecentIs
  <2> QED BY <1>1, <1>3, <2>2
<1>7. Running'
  BY <1>5 DEF Running
<1>8. Consistent'
  BY <1>1, <1>5, <1>6, <1>7 DEF Consistent
<1> QED BY <1>3, <1>5, <1>8 DEF ch

-----------------------------------------------------------------------------
(* Settings and programs. *)

\* The parts of a consistent state.
LEMMA ConsistentFacts ==
  ASSUME LinesNest, Consistent
  PROVE  /\ Caches(DataState, InstructionState, Trust, Loaded)
         /\ DataState = Over(l1, L2State) /\ InstructionState = Over(instruction, L2State)
         /\ DataState.n = L2State /\ L2State \in L2Dev /\ L2State.c.cfg \in L2Settings
         /\ \E k \in DataSettings : l1 \in UP!Levels(k)
         /\ \E k \in InstructionSettings : instruction \in UP!Levels(k)
         /\ \E k \in L2Settings : l2 \in LO!Levels(k)
         /\ mem \in [0 .. AddressSpace - 1 -> Values]
<1>1. Caches(DataState, InstructionState, Trust, Loaded)
  BY DEF Consistent
<1>2. DataState = Over(l1, L2State) /\ InstructionState = Over(instruction, L2State)
  BY Zenon DEF DataState, InstructionState
<1>3. /\ DataState.n = L2State /\ DataState.c = l1 /\ InstructionState.c = instruction
      /\ L2State.c = l2 /\ L2State.n.cell = mem
  BY DEF DataState, InstructionState, L2State, Over
<1>4. L2State \in L2Dev /\ L2State.c.cfg \in L2Settings
  BY <1>1, <1>3, CachesFacts DEF Caches
<1>5. /\ DataState \in UP!States(l1.cfg) /\ l1.cfg \in DataSettings
      /\ InstructionState \in UP!States(instruction.cfg) /\ instruction.cfg \in InstructionSettings
  BY <1>1, <1>3 DEF Caches, UP!SoundStates
<1>6. l1 \in UP!Levels(l1.cfg) /\ instruction \in UP!Levels(instruction.cfg)
  BY <1>3, <1>5, UP!StateFacts
<1>7. L2State \in LO!States(l2.cfg) /\ l2.cfg \in L2Settings
  BY <1>3, <1>4, L2Facts
<1>8. l2 \in LO!Levels(l2.cfg) /\ L2State.n \in MemDev
  BY <1>3, <1>7, LO!StateFacts
<1>9. mem \in [0 .. AddressSpace - 1 -> Values]
  BY <1>3, <1>8 DEF MemDev
<1> QED BY <1>1, <1>2, <1>3, <1>4, <1>5, <1>6, <1>7, <1>8, <1>9

\* L2 goes from n to m under both caches.
LEMMA RefitChanges ==
  ASSUME LinesNest, NEW d, NEW e, NEW T, NEW L, Caches(d, e, T, L), NEW m, Refits(d.n, m),
         NEW t, t = [d EXCEPT !.n = m], NEW u, u = [e EXCEPT !.n = m]
  PROVE  Caches(t, u, T, L) /\ UP!SameView(d, t, T)
<1>1. L2Sound(d.n, T) /\ L2Sound(d.n, L) /\ T \in SUBSET UP!Space /\ L \in SUBSET UP!Space
  BY CachesFacts DEF Caches
<1>2. m \in L2Dev /\ m.c.cfg \in L2Settings /\ UP!Keeps(d.n, m, T) /\ UP!Keeps(d.n, m, L)
  BY <1>1, Zenon DEF Refits
<1> QED BY <1>2, BelowChanges

\* L2 follows the settings of the caches above.
LEMMA FollowFits ==
  ASSUME LinesNest, Consistent, NEW w \in Widgets
  PROVE  Refits(L2State, Follow(w)) /\ Enforced(w) \in Widgets
<1>1. L2State \in L2Dev /\ L2State.c.cfg \in L2Settings
  BY ConsistentFacts
<1>2. Enforced(w) \in Widgets
  BY EnforcedFits
<1>3. Enforced(w).l2 \in L2Settings
  BY <1>2 DEF Widgets
<1>4. CASE Enforced(w) = w
  BY <1>1, <1>4, RefitsIdle DEF Follow
<1>5. CASE Enforced(w) # w
  <2> DEFINE cfg == Enforced(w).l2
             n == L2State
             m == Follow(w)
  <2>1. m = ReconfigureLower(n, cfg)
    BY <1>5, Zenon DEF Follow
  <2>2. cfg \in L2Settings /\ n \in L2Dev
    BY <1>1, <1>3
  <2> HIDE DEF cfg, n, m
  <2>3. Refits(n, m)
    BY <2>1, <2>2, LowerReconfigured
  <2> QED BY <1>2, <2>3 DEF n, m
<1> QED BY <1>2, <1>4, <1>5

\* The settings of L1 are changed.
LEMMA ReconfigureL1Step ==
  ASSUME LinesNest, Consistent, NEW cfg \in L1Configs, ReconfigureL1(cfg)
  PROVE  Consistent' /\ Unseen /\ reply' = [status |-> "ok", data |-> <<>>]
<1> DEFINE d == DataState
           e == InstructionState
           w == WithL1(cfg)
           m == Follow(w)
           d1 == [d EXCEPT !.n = m]
           e1 == [e EXCEPT !.n = m]
           t == ReconfigureUpper(Over(l1, m), cfg)
           u == [e1 EXCEPT !.n = t.n]
<1>1. FinishL1(t, w)
  BY Zenon DEF ReconfigureL1
<1>2. w \in Widgets /\ cfg \in DataSettings
  BY DEF WithL1, Widgets, DataSettings, Consistent
<1> HIDE DEF w
<1>3. Refits(d.n, m) /\ Enforced(w) \in Widgets /\ Caches(d, e, Trust, Loaded)
  BY <1>2, FollowFits, ConsistentFacts
<1>4. d1 = Over(l1, m)
  BY ConsistentFacts DEF Over
<1>5. Caches(d1, e1, Trust, Loaded) /\ UP!SameView(d, d1, Trust)
  <2> HIDE DEF d, e, m
  <2> QED BY <1>3, RefitChanges
<1>6. t = ReconfigureUpper(d1, cfg)
  BY <1>4, Zenon
<1>7. Caches(t, u, Trust, Loaded) /\ UP!SameView(d1, t, Trust)
  <2> HIDE DEF d1, e1, t
  <2> QED BY <1>2, <1>5, <1>6, DataReconfigured
<1>8. t \in UP!States(t.c.cfg)
  BY <1>7 DEF Caches, UP!SoundStates
<1>9. u = [e EXCEPT !.n = t.n]
  <2>1. e = Over(instruction, L2State)
    BY ConsistentFacts
  <2> HIDE DEF e, m, t
  <2> QED BY <2>1 DEF Over
<1> HIDE DEF d, e, m, d1, e1, t, u
<1>10. Status(t) = "ok"
  BY <1>8, Rebuilt
<1>11. /\ l1' = t.c /\ Below(t) /\ instruction' = instruction
       /\ widgets' = Enforced(w) /\ reply' = [status |-> "ok", data |-> <<>>]
       /\ undo' = undo /\ redo' = redo /\ stored' = stored
  BY <1>1, <1>10 DEF FinishL1, FinishUpper, Reply
<1>12. DataState' = t /\ InstructionState' = u
  BY <1>8, <1>9, <1>11, DataLands DEF e
<1>13. Trust' = Trust /\ Loaded' = Loaded
  BY <1>11, SameTrust
<1>14. Running'
  BY <1>11 DEF Running
<1>15. Consistent'
  BY <1>3, <1>7, <1>11, <1>12, <1>13, <1>14 DEF Consistent
<1>16. Unseen
  BY <1>5, <1>7, <1>12 DEF Unseen, UP!SameView, d
<1> QED BY <1>11, <1>15, <1>16

\* Those of the instruction cache.
LEMMA ReconfigureInstructionStep ==
  ASSUME LinesNest, Consistent, NEW cfg \in InstructionConfigs, ReconfigureInstruction(cfg)
  PROVE  Consistent' /\ Unseen /\ reply' = [status |-> "ok", data |-> <<>>]
<1> DEFINE d == DataState
           e == InstructionState
           w == WithInstruction(cfg)
           m == Follow(w)
           d1 == [d EXCEPT !.n = m]
           e1 == [e EXCEPT !.n = m]
           t == ReconfigureUpper(Over(instruction, m), cfg)
<1>1. FinishInstruction(t, w)
  BY Zenon DEF ReconfigureInstruction
<1>2. w \in Widgets /\ cfg \in InstructionSettings
  BY DEF WithInstruction, Widgets, InstructionSettings, Consistent
<1> HIDE DEF w
<1>3. Refits(d.n, m) /\ Enforced(w) \in Widgets /\ Caches(d, e, Trust, Loaded)
  BY <1>2, FollowFits, ConsistentFacts
<1>4. e1 = Over(instruction, m)
  BY ConsistentFacts DEF Over
<1>5. Caches(d1, e1, Trust, Loaded) /\ UP!SameView(d, d1, Trust)
  <2> HIDE DEF d, e, m
  <2> QED BY <1>3, RefitChanges
<1>6. t = ReconfigureUpper(e1, cfg)
  BY <1>4, Zenon
<1>7. Caches(d1, t, Trust, Loaded)
  <2> HIDE DEF d1, e1, t
  <2> QED BY <1>2, <1>5, <1>6, InstructionReconfigured
<1>8. t \in UP!States(t.c.cfg) /\ d1.n = t.n
  BY <1>7 DEF Caches, UP!SoundStates
<1>9. d1 = [d EXCEPT !.n = t.n]
  <2>1. d = Over(l1, L2State)
    BY ConsistentFacts
  <2>2. d1.n = m
    <3> HIDE DEF d, m
    <3> QED BY <2>1 DEF Over
  <2> QED BY <1>8, <2>2
<1> HIDE DEF d, e, m, d1, e1, t
<1>10. Status(t) = "ok"
  BY <1>8, Rebuilt
<1>11. /\ instruction' = t.c /\ Below(t) /\ l1' = l1
       /\ widgets' = Enforced(w) /\ reply' = [status |-> "ok", data |-> <<>>]
       /\ undo' = undo /\ redo' = redo /\ stored' = stored
  BY <1>1, <1>10 DEF FinishInstruction, FinishUpper, Reply
<1>12. InstructionState' = t /\ DataState' = d1
  BY <1>8, <1>9, <1>11, InstructionLands DEF d
<1>13. Trust' = Trust /\ Loaded' = Loaded
  BY <1>11, SameTrust
<1>14. Running'
  BY <1>11 DEF Running
<1>15. Consistent'
  BY <1>3, <1>7, <1>11, <1>12, <1>13, <1>14 DEF Consistent
<1>16. Unseen
  BY <1>5, <1>12, Zenon DEF Unseen, d
<1> QED BY <1>11, <1>15, <1>16

\* And those of L2.
LEMMA ReconfigureL2Step ==
  ASSUME LinesNest, Consistent, NEW cfg \in L2Configs, ReconfigureL2(cfg)
  PROVE  Consistent' /\ Unseen /\ reply' = [status |-> "ok", data |-> <<>>]
<1> DEFINE d == DataState
           e == InstructionState
           m == ReconfigureLower(L2State, cfg)
<1>1. /\ l2' = m.c /\ mem' = m.n.cell /\ l1' = l1 /\ instruction' = instruction
      /\ widgets' = [widgets EXCEPT !.l2 = cfg] /\ reply' = [status |-> "ok", data |-> <<>>]
      /\ undo' = undo /\ redo' = redo /\ stored' = stored
  BY DEF ReconfigureL2, Reply
<1>2. cfg \in L2Settings
  BY SettingsFit
<1>3. widgets' \in Widgets
  BY <1>1, <1>2 DEF Widgets, Consistent
<1>4. Refits(d.n, m) /\ Caches(d, e, Trust, Loaded)
  BY <1>2, LowerReconfigured, ConsistentFacts
<1> HIDE DEF m
<1>5. m \in L2Dev
  BY <1>4 DEF Refits
<1>6. DataState' = [d EXCEPT !.n = m] /\ InstructionState' = [e EXCEPT !.n = m]
  BY <1>1, <1>5, BelowLands
<1> HIDE DEF d, e
<1>7. Caches(DataState', InstructionState', Trust, Loaded) /\ UP!SameView(d, DataState', Trust)
  BY <1>4, <1>6, RefitChanges
<1>8. Trust' = Trust /\ Loaded' = Loaded
  BY <1>1, SameTrust
<1>9. Running'
  BY <1>1 DEF Running
<1>10. Consistent'
  BY <1>1, <1>3, <1>7, <1>8, <1>9 DEF Consistent
<1>11. Unseen
  BY <1>7, Zenon DEF Unseen, d
<1> QED BY <1>1, <1>10, <1>11

\* A step that empties the caches, after which no step can be undone.
LEMMA FreshStep ==
  ASSUME LinesNest, Consistent, Blank(l1', instruction', l2'),
         mem' \in [0 .. AddressSpace - 1 -> Values], Fresh, widgets' = widgets,
         reply' = [status |-> "ok", data |-> <<>>]
  PROVE  Consistent' /\ Holding(DataState', mem')
<1> DEFINE n == Over(l2', [cell |-> mem', ok |-> TRUE])
<1>1. DataState' = Over(l1', n) /\ InstructionState' = Over(instruction', n)
  BY Zenon DEF DataState, InstructionState, L2State
<1> HIDE DEF n
<1>2. Caches(DataState', InstructionState', UP!Space, UP!Space) /\ Holding(DataState', mem')
  BY <1>1, FreshCaches DEF n
<1>3. undo' = <<>> /\ redo' = <<>> /\ stored' = {}
  BY DEF Fresh
<1>4. Trust' = UP!Space /\ Loaded' = UP!Space
  BY <1>3, SameSets DEF Trust, Loaded
<1>5. Running'
  BY DEF Running
<1>6. Consistent'
  BY <1>2, <1>3, <1>4, <1>5 DEF Consistent
<1> QED BY <1>2, <1>6

\* A reset empties the three caches.
LEMMA EmptiedBlank ==
  ASSUME LinesNest, Consistent, Emptied
  PROVE  Blank(l1', instruction', l2') /\ widgets' = widgets
<1>1. /\ l1' = UP!Reset(l1) /\ instruction' = UP!Reset(instruction) /\ l2' = LO!Reset(l2)
      /\ widgets' = widgets
  BY UpperFresh, LowerFresh DEF Emptied
<1>2. PICK k \in DataSettings : l1 \in UP!Levels(k)
  BY ConsistentFacts
<1>3. PICK h \in InstructionSettings : instruction \in UP!Levels(h)
  BY ConsistentFacts
<1>4. PICK l \in L2Settings : l2 \in LO!Levels(l)
  BY ConsistentFacts
<1>5. UP!Geometry(k) /\ UP!Geometry(h) /\ LO!Geometry(l) /\ 0 \in Values
  BY SettingsFit, SameSets, ExtentFacts DEF UpperSettings
<1>6. UP!Reset(l1) \in UP!Levels(k) /\ UP!Empty(UP!Reset(l1))
  BY <1>2, <1>5, UP!ResetIs
<1>7. UP!Reset(instruction) \in UP!Levels(h) /\ UP!Empty(UP!Reset(instruction))
  BY <1>3, <1>5, UP!ResetIs
<1>8. LO!Reset(l2) \in LO!Levels(l) /\ LO!Empty(LO!Reset(l2))
  BY <1>4, <1>5, LO!ResetIs
<1> QED BY <1>1, <1>6, <1>7, <1>8 DEF Blank

\* The caches of a new processor are empty.
LEMMA SetupBlank ==
  ASSUME LinesNest
  PROVE  Blank(Upper!Setup(DefaultConfig), Upper!Setup(DefaultConfig), Lower!Setup(DefaultConfig))
<1>1. /\ DefaultConfig \in DataSettings /\ DefaultConfig \in InstructionSettings
      /\ DefaultConfig \in L2Settings
  BY SettingsFit DEF DataSettings, InstructionSettings
<1>2. UP!Geometry(DefaultConfig) /\ LO!Geometry(DefaultConfig) /\ 0 \in Values
  BY <1>1, SettingsFit, SameSets, ExtentFacts
<1>3. UP!Setup(DefaultConfig) \in UP!Levels(DefaultConfig) /\ UP!Empty(UP!Setup(DefaultConfig))
  BY <1>2, UP!SetupIs
<1>4. LO!Setup(DefaultConfig) \in LO!Levels(DefaultConfig) /\ LO!Empty(LO!Setup(DefaultConfig))
  BY <1>2, LO!SetupIs
<1>5. /\ UP!Setup(DefaultConfig) = Upper!Setup(DefaultConfig)
      /\ LO!Setup(DefaultConfig) = Lower!Setup(DefaultConfig)
  BY UpperFresh, LowerFresh
<1> QED BY <1>1, <1>3, <1>4, <1>5 DEF Blank

\* Cleared memory.
LEMMA ClearedIs ==
  Cleared \in [0 .. AddressSpace - 1 -> Values] /\ \A a \in UP!Space : Cleared[a] = 0
BY ExtentFacts, SameSets DEF Cleared, LO!Space

\* What loads see after a step that empties the caches.
LEMMA HoldingShown ==
  ASSUME NEW d, NEW cells, Holding(d, cells)
  PROVE  Shown(d) = [a \in Addresses |-> cells[a]]
<1>1. \A a \in Addresses : UP!ViewAt(d, a) = cells[a]
  BY ExtentFacts, SameSets DEF Holding
<1> QED BY <1>1 DEF Shown

\* A stop.
LEMMA ResetAllStep ==
  ASSUME LinesNest, Consistent, ResetAll
  PROVE  /\ Consistent' /\ View' = [a \in Addresses |-> 0]
         /\ reply' = [status |-> "ok", data |-> <<>>]
<1>1. Emptied /\ mem' = Cleared /\ Fresh /\ reply' = [status |-> "ok", data |-> <<>>]
  BY DEF ResetAll, Reply
<1>2. Consistent' /\ Holding(DataState', Cleared)
  BY <1>1, EmptiedBlank, ClearedIs, FreshStep
<1>3. View' = [a \in Addresses |-> Cleared[a]]
  BY <1>2, ViewIs, HoldingShown
<1>4. \A a \in Addresses : Cleared[a] = 0
  BY ClearedIs, ExtentFacts, SameSets
<1> QED BY <1>1, <1>2, <1>3, <1>4

\* A program is loaded.
LEMMA LoadProgramStep ==
  ASSUME LinesNest, Consistent, NEW image \in Images, LoadProgram(image)
  PROVE  Consistent' /\ View' = image /\ reply' = [status |-> "ok", data |-> <<>>]
<1> DEFINE cells == [a \in DOMAIN mem |-> IF a \in Addresses THEN image[a] ELSE 0]
<1>1. Emptied /\ mem' = cells /\ Fresh /\ reply' = [status |-> "ok", data |-> <<>>]
  BY DEF LoadProgram, Reply
<1>2. image \in [Addresses -> Values] /\ 0 \in Values
  BY ImagesAssumption
<1>3. mem \in [0 .. AddressSpace - 1 -> Values]
  BY ConsistentFacts
<1>4. cells \in [0 .. AddressSpace - 1 -> Values] /\ \A a \in Addresses : cells[a] = image[a]
  <2>1. Addresses \subseteq DOMAIN mem
    BY <1>3, ExtentFacts DEF Addresses
  <2> QED BY <1>2, <1>3, <2>1
<1> HIDE DEF cells
<1>5. Consistent' /\ Holding(DataState', cells)
  BY <1>1, <1>4, EmptiedBlank, FreshStep
<1>6. View' = [a \in Addresses |-> cells[a]]
  BY <1>5, ViewIs, HoldingShown
<1>7. View' = image
  BY <1>2, <1>4, <1>6
<1> QED BY <1>1, <1>5, <1>7

\* The processor is changed.
LEMMA ChangeProcessorStep ==
  ASSUME LinesNest, Consistent, ChangeProcessor
  PROVE  /\ Consistent' /\ View' = [a \in Addresses |-> 0]
         /\ reply' = [status |-> "ok", data |-> <<>>]
<1>1. /\ l1' = Upper!Setup(DefaultConfig) /\ instruction' = Upper!Setup(DefaultConfig)
      /\ l2' = Lower!Setup(DefaultConfig) /\ widgets' = widgets
      /\ mem' = Cleared /\ Fresh /\ reply' = [status |-> "ok", data |-> <<>>]
  BY DEF ChangeProcessor, Reply
<1>2. Blank(l1', instruction', l2')
  BY <1>1, SetupBlank
<1>3. Consistent' /\ Holding(DataState', Cleared)
  BY <1>1, <1>2, ClearedIs, FreshStep
<1>4. View' = [a \in Addresses |-> Cleared[a]]
  BY <1>3, ViewIs, HoldingShown
<1>5. \A a \in Addresses : Cleared[a] = 0
  BY ClearedIs, ExtentFacts, SameSets
<1> QED BY <1>1, <1>3, <1>4, <1>5

\* The first state.
LEMMA InitConsistent ==
  ASSUME LinesNest, Init
  PROVE  /\ Consistent /\ View = [a \in Addresses |-> 0]
         /\ reply = [status |-> "ok", data |-> <<>>]
<1> DEFINE n == Over(l2, [cell |-> mem, ok |-> TRUE])
<1>1. /\ l1 = Upper!Setup(DefaultConfig) /\ instruction = Upper!Setup(DefaultConfig)
      /\ l2 = Lower!Setup(DefaultConfig) /\ mem = Cleared
      /\ widgets = [l1 |-> DefaultConfig, instruction |-> DefaultConfig, l2 |-> DefaultConfig]
      /\ undo = <<>> /\ redo = <<>> /\ stored = {}
      /\ reply = [status |-> "ok", data |-> <<>>]
  BY DEF Init
<1>2. Blank(l1, instruction, l2) /\ mem \in [0 .. AddressSpace - 1 -> Values]
  BY <1>1, SetupBlank, ClearedIs
<1>3. DataState = Over(l1, n) /\ InstructionState = Over(instruction, n)
  BY Zenon DEF DataState, InstructionState, L2State
<1> HIDE DEF n
<1>4. Caches(DataState, InstructionState, UP!Space, UP!Space) /\ Holding(DataState, mem)
  BY <1>2, <1>3, FreshCaches DEF n
<1>5. Trust = UP!Space /\ Loaded = UP!Space
  BY <1>1, SameSets DEF Trust, Loaded
<1>6. widgets \in Widgets
  BY <1>1, SettingsFit DEF Widgets, DataSettings, InstructionSettings
<1>7. Running
  BY <1>1 DEF Running
<1>8. Consistent
  BY <1>1, <1>4, <1>5, <1>6, <1>7 DEF Consistent
<1>9. View = [a \in Addresses |-> mem[a]]
  BY <1>4, ViewIs, HoldingShown
<1>10. \A a \in Addresses : Cleared[a] = 0
  BY ClearedIs, ExtentFacts, SameSets
<1> QED BY <1>1, <1>8, <1>9, <1>10

-----------------------------------------------------------------------------
(* The theorems. *)

\* Every step keeps the hierarchy consistent.
LEMMA NextConsistent ==
  ASSUME NoSpanning, LinesNest, Consistent, [Next]_vars
  PROVE  Consistent'
<1>1. ASSUME NEW acc \in Accesses, Load(acc) \/ RefuseLoad(acc) PROVE Consistent'
  BY <1>1, LoadStep, RefuseLoadStep
<1>2. ASSUME NEW store \in Stores, Store(store[1], store[2]) PROVE Consistent'
  <2> DEFINE acc == store[1]
             data == store[2]
  <2>1. acc \in Accesses /\ data \in UP!Cells(acc[2]) /\ Store(acc, data)
    BY <1>2, StoresAssumption DEF UP!Cells
  <2> HIDE DEF acc, data
  <2> QED BY <2>1, StoreStep, RefuseStoreStep
<1>3. ASSUME NEW a \in Code, Fetch(a) PROVE Consistent'
  BY <1>3, FetchStep
<1>4. CASE Undo
  BY <1>4, UndoStep
<1>5. CASE Redo
  BY <1>5, RedoStep
<1>6. ASSUME NEW cfg \in L1Configs, ReconfigureL1(cfg) PROVE Consistent'
  BY <1>6, ReconfigureL1Step
<1>7. ASSUME NEW cfg \in InstructionConfigs, ReconfigureInstruction(cfg) PROVE Consistent'
  BY <1>7, ReconfigureInstructionStep
<1>8. ASSUME NEW cfg \in L2Configs, ReconfigureL2(cfg) PROVE Consistent'
  BY <1>8, ReconfigureL2Step
<1>9. CASE ResetAll
  BY <1>9, ResetAllStep
<1>10. ASSUME NEW image \in Images, LoadProgram(image) PROVE Consistent'
  BY <1>10, LoadProgramStep
<1>11. CASE ChangeProcessor
  BY <1>11, ChangeProcessorStep
<1>12. CASE UNCHANGED vars
  <2>1. /\ l1' = l1 /\ instruction' = instruction /\ l2' = l2 /\ mem' = mem /\ widgets' = widgets
        /\ undo' = undo /\ redo' = redo /\ stored' = stored /\ reply' = reply
    BY <1>12 DEF vars, caches
  <2>2. DataState' = DataState /\ InstructionState' = InstructionState
    BY <2>1 DEF DataState, InstructionState, L2State
  <2>3. Trust' = Trust /\ Loaded' = Loaded
    BY <2>1, SameTrust
  <2> QED BY <2>1, <2>2, <2>3 DEF Consistent, Running
<1> QED BY <1>1, <1>2, <1>3, <1>4, <1>5, <1>6, <1>7, <1>8, <1>9, <1>10, <1>11, <1>12, Zenon DEF Next

\* As long as no access spans two lines of L1 and the lines of L2 are made of whole
\* lines of the caches above, every level is what its settings make of it, no
\* line of the instruction cache is dirty, and no clean line differs from what lies
\* below it at a cell that the program has not written, nor, unless an undo
\* bypasses the caches, one of L1 or L2 at any cell; the program never ends on a
\* line that does not fit.
THEOREM AlwaysConsistent ==
  ASSUME NoSpanning, LinesNest
  PROVE  Spec => []Consistent
<1>1. Init => Consistent
  BY InitConsistent
<1>2. Consistent /\ [Next]_vars => Consistent'
  BY NextConsistent
<1> QED BY <1>1, <1>2, PTL DEF Spec

\* What a consistent hierarchy fetches.
LEMMA ConsistentFetches ==
  ASSUME LinesNest, Consistent
  PROVE  FetchesWhatWasLoaded
<1> DEFINE d == DataState
           e == InstructionState
<1>1. Caches(d, e, Trust, Loaded)
  BY DEF Consistent
<1>2. \A a \in Addresses : View[a] = UP!ViewAt(d, a)
  BY ViewIs DEF Shown
<1>3. \A a : Through(instruction, a) = UP!ViewAt(e, a)
  BY ViewIs
<1> HIDE DEF d, e
<1>4. /\ UP!Geometry(e.c.cfg) /\ e \in UP!States(e.c.cfg) /\ Loaded \in SUBSET UP!Space
      /\ UP!Coherent(e, Loaded) /\ UP!AllClean(e.c) /\ UP!Settled(d, Loaded) /\ d.n = e.n
  BY <1>1, CachesFacts DEF Caches
<1>5. ASSUME NEW a \in Addresses \ stored PROVE Through(instruction, a) = View[a]
  <2>1. a \in Loaded
    BY ExtentFacts DEF Loaded
  <2>2. UP!ViewAt(e, a) = L2Holds(e.n, a)
    BY <1>4, <2>1, UP!CleanShows
  <2>3. UP!ViewAt(d, a) = L2Holds(d.n, a)
    BY <1>4, <2>1 DEF UP!Settled
  <2> QED BY <1>2, <1>3, <1>4, <2>2, <2>3
<1> QED BY <1>5 DEF FetchesWhatWasLoaded

\* A fetch finds what loads find, wherever the program has not stored: whether or
\* not an undo bypasses the caches, and across every change of settings.
THEOREM FetchesLoaded ==
  ASSUME NoSpanning, LinesNest
  PROVE  Spec => []FetchesWhatWasLoaded
<1>1. Consistent => FetchesWhatWasLoaded
  BY ConsistentFetches
<1> QED BY <1>1, AlwaysConsistent, PTL

\* What loads see, where nothing they see has changed.
LEMMA UnseenView ==
  ASSUME ~UndoBypassesCaches, Unseen
  PROVE  View' = View
<1>1. \A a \in Addresses : UP!ViewAt(DataState, a) = UP!ViewAt(DataState', a)
  BY TrustFacts, ExtentFacts, SameSets DEF Unseen, UP!SameView
<1>2. Shown(DataState) = Shown(DataState')
  BY <1>1, Zenon DEF Shown
<1> QED BY <1>2, ViewIs

\* What they see of a store, an undo or a redo.
LEMMA WroteView ==
  ASSUME ~UndoBypassesCaches, NEW acc \in Accesses, NEW data \in UP!Cells(acc[2]), Wrote(acc, data)
  PROVE  /\ View' = Overwritten(View, acc[1], data)
         /\ View' = Flat!Overwritten(View, acc, data)
<1>1. acc[1] \in Nat /\ acc[2] \in Nat \ {0} /\ DOMAIN data = 0 .. acc[2] - 1
  BY AccessIs DEF UP!Cells
<1>2. \A a \in Addresses :
        UP!ViewAt(DataState', a) =
          IF a - acc[1] \in 0 .. acc[2] - 1 THEN data[a - acc[1]] ELSE UP!ViewAt(DataState, a)
  BY TrustFacts, ExtentFacts, SameSets DEF Wrote, Shows
<1>3. \A a \in Addresses : View[a] = UP!ViewAt(DataState, a)
  BY ViewIs DEF Shown
<1>4. View' = [a \in Addresses |-> UP!ViewAt(DataState', a)] /\ DOMAIN View = Addresses
  BY ViewIs DEF Shown, View
<1> DEFINE V == View
           W == View'
<1> HIDE DEF V, W
<1>5. W = [a \in Addresses |-> IF a - acc[1] \in 0 .. acc[2] - 1 THEN data[a - acc[1]] ELSE V[a]]
  BY <1>2, <1>3, <1>4 DEF V, W
<1>6. DOMAIN V = Addresses
  BY <1>4 DEF V
<1>7. W = Overwritten(V, acc[1], data)
  BY <1>1, <1>5, <1>6 DEF Overwritten
<1>8. \A a \in Addresses : a - acc[1] \in 0 .. acc[2] - 1 <=> acc[1] <= a /\ a < acc[1] + acc[2]
  BY <1>1 DEF Addresses
<1>9. W = Flat!Overwritten(V, acc, data)
  BY <1>5, <1>6, <1>8 DEF Flat!Overwritten
<1> QED BY <1>7, <1>9 DEF V, W

\* What a load answers is what they see.
LEMMA AnsweredView ==
  ASSUME ~UndoBypassesCaches, NEW acc \in Accesses, acc[1] + acc[2] <= MemSize, Answered(acc)
  PROVE  reply' = [status |-> "ok", data |-> Flat!Span(View, acc)]
<1>1. PICK data \in UP!Cells(acc[2]) :
        /\ reply' = [status |-> "ok", data |-> data]
        /\ \A i \in 0 .. acc[2] - 1 :
             acc[1] + i \in Trust => data[i] = UP!ViewAt(DataState, acc[1] + i)
  BY DEF Answered
<1>2. acc[1] \in Nat /\ acc[2] \in Nat \ {0} /\ data \in [0 .. acc[2] - 1 -> Values]
  BY AccessIs DEF UP!Cells
<1>3. \A a \in Addresses : View[a] = UP!ViewAt(DataState, a)
  BY ViewIs DEF Shown
<1>4. ASSUME NEW i \in 0 .. acc[2] - 1 PROVE data[i] = View[acc[1] + i]
  <2>1. acc[1] + i \in Addresses
    BY <1>2, ExtentFacts DEF Addresses
  <2>2. acc[1] + i \in Trust
    BY <2>1, TrustFacts, ExtentFacts, SameSets
  <2> QED BY <1>1, <1>3, <2>1, <2>2
<1> DEFINE V == View
<1>5. \A i \in 0 .. acc[2] - 1 : data[i] = V[acc[1] + i]
  BY <1>4
<1> HIDE DEF V
<1>6. data = Flat!Span(V, acc)
  BY <1>2, <1>5 DEF Flat!Span
<1> QED BY <1>1, <1>6 DEF V

\* Where an undo goes through L1, a program reads after it the bytes of before the
\* store, in whatever levels the lines are, after whatever steps, changes of settings
\* and loads in between.
THEOREM UndoRestores ==
  ASSUME NoSpanning, LinesNest, ~UndoBypassesCaches
  PROVE  Spec => UndoRestoresMemory
<1>1. ASSUME Consistent, Undo PROVE View' = Overwritten(View, Last(undo).acc[1], Last(undo).old)
  <2> DEFINE ch == Last(undo)
  <2>1. ch \in Changes(stored) /\ Wrote(ch.acc, ch.old)
    BY <1>1, UndoStep
  <2> HIDE DEF ch
  <2>2. ch.acc \in Accesses /\ ch.old \in UP!Cells(ch.acc[2])
    BY <2>1, ChangeIs
  <2>3. View' = Overwritten(View, ch.acc[1], ch.old)
    BY <2>1, <2>2, WroteView
  <2> QED BY <2>3 DEF ch
<1>2. Consistent /\ [Next]_vars =>
        [Undo => View' = Overwritten(View, Last(undo).acc[1], Last(undo).old)]_vars
  BY <1>1, Zenon
<1> QED BY <1>2, AlwaysConsistent, PTL DEF Spec, UndoRestoresMemory

\* Every step of the hierarchy is one of the flat memory, or changes nothing there.
LEMMA FlatStep ==
  ASSUME NoSpanning, LinesNest, ~UndoBypassesCaches, Consistent, [Next]_vars
  PROVE  [Flat!Next]_(Flat!vars)
<1>1. ASSUME NEW acc \in Accesses, Load(acc) PROVE Flat!Next
  <2>1. acc[1] + acc[2] <= MemSize
    BY <1>1, AccessIs DEF Load
  <2>2. View' = View /\ reply' = [status |-> "ok", data |-> Flat!Span(View, acc)]
    BY <1>1, <2>1, LoadStep, UnseenView, AnsweredView
  <2>3. request' = <<"read", acc>>
    BY <1>1, Zenon DEF Load, Requested
  <2>4. Flat!Read(acc)
    BY <2>1, <2>2, <2>3, Zenon DEF Flat!Read, Flat!InRange
  <2> QED BY <2>4, Zenon DEF Flat!Next
<1>2. ASSUME NEW acc \in Accesses, ~(acc[1] + acc[2] <= MemSize), View' = View,
             request' \in Flat!Requests(acc), reply' = [status |-> "range", data |-> <<>>]
      PROVE  Flat!Next
  <2>1. Flat!Refuse(acc, "range")
    BY <1>2, Zenon DEF Flat!Refuse, Flat!InRange
  <2> QED BY <2>1, Zenon DEF Flat!Next
<1>3. ASSUME NEW acc \in Accesses, RefuseLoad(acc) PROVE Flat!Next
  <2>1. ~(acc[1] + acc[2] <= MemSize)
    BY <1>3, AccessIs DEF RefuseLoad
  <2>2. reply' = [status |-> "range", data |-> <<>>]
    BY <1>3 DEF RefuseLoad, Reply
  <2>3. request' \in Flat!Requests(acc)
    BY <1>3, Zenon DEF RefuseLoad, Requested, Flat!Requests
  <2> QED BY <1>2, <1>3, <2>1, <2>2, <2>3, RefuseLoadStep
<1>4. ASSUME NEW acc \in Accesses, acc[1] + acc[2] <= MemSize, NEW data \in UP!Cells(acc[2]),
             Wrote(acc, data), request' = <<"write", acc, data>>,
             reply' = [status |-> "ok", data |-> <<>>]
      PROVE  Flat!Next
  <2>1. View' = Flat!Overwritten(View, acc, data)
    BY <1>4, WroteView
  <2>2. Flat!Write(acc, data)
    BY <1>4, <2>1, Zenon DEF Flat!Write, Flat!InRange
  <2>3. data \in Flat!DataOf(acc)
    BY DEF UP!Cells, Flat!DataOf
  <2> QED BY <2>2, <2>3, Zenon DEF Flat!Next
<1>5. ASSUME NEW store \in Stores, Store(store[1], store[2]) PROVE Flat!Next
  <2> DEFINE acc == store[1]
             data == store[2]
  <2>1. acc \in Accesses /\ data \in UP!Cells(acc[2]) /\ Store(acc, data)
    BY <1>5, StoresAssumption DEF UP!Cells
  <2> HIDE DEF acc, data
  <2>2. request' = <<"write", acc, data>>
    BY <2>1, Zenon DEF Store, Requested
  <2>3. CASE acc[1] + acc[2] <= MemSize
    BY <1>4, <2>1, <2>2, <2>3, StoreStep
  <2>4. CASE ~(acc[1] + acc[2] <= MemSize)
    <3>1. data \in Flat!DataOf(acc)
      BY <2>1 DEF UP!Cells, Flat!DataOf
    <3>2. request' \in Flat!Requests(acc)
      BY <2>2, <3>1, Zenon DEF Flat!Requests
    <3> QED BY <1>2, <2>1, <2>4, <3>2, RefuseStoreStep, UnseenView
  <2> QED BY <2>3, <2>4
<1>6. ASSUME NEW a \in Code, Fetch(a) PROVE UNCHANGED Flat!vars
  BY <1>6, FetchStep, UnseenView DEF Flat!vars
<1>7. CASE Undo
  <2> DEFINE ch == Last(undo)
  <2>1. /\ ch \in Changes(stored) /\ Wrote(ch.acc, ch.old)
        /\ reply' = [status |-> "ok", data |-> <<>>]
    BY <1>7, UndoStep
  <2>2. request' = <<"write", ch.acc, ch.old>>
    BY <1>7, Zenon DEF Undo, Requested
  <2> HIDE DEF ch
  <2>3. ch.acc \in Accesses /\ ch.acc[1] + ch.acc[2] <= MemSize /\ ch.old \in UP!Cells(ch.acc[2])
    BY <2>1, ChangeIs
  <2> QED BY <1>4, <2>1, <2>2, <2>3
<1>8. CASE Redo
  <2> DEFINE ch == Last(redo)
  <2>1. /\ ch \in Changes(stored) /\ Wrote(ch.acc, ch.new)
        /\ reply' = [status |-> "ok", data |-> <<>>]
    BY <1>8, RedoStep
  <2>2. request' = <<"write", ch.acc, ch.new>>
    BY <1>8, Zenon DEF Redo, Requested
  <2> HIDE DEF ch
  <2>3. ch.acc \in Accesses /\ ch.acc[1] + ch.acc[2] <= MemSize /\ ch.new \in UP!Cells(ch.acc[2])
    BY <2>1, ChangeIs
  <2> QED BY <1>4, <2>1, <2>2, <2>3
<1>9. ASSUME Unseen, request' = <<"manage">>, reply' = [status |-> "ok", data |-> <<>>]
      PROVE  Flat!Next
  <2>1. Flat!Manage("ok")
    BY <1>9, UnseenView, Zenon DEF Flat!Manage
  <2> QED BY <2>1, Zenon DEF Flat!Next
<1>10. ASSUME NEW cfg \in L1Configs, ReconfigureL1(cfg) PROVE Flat!Next
  <2>1. request' = <<"manage">>
    BY <1>10, Zenon DEF ReconfigureL1, FinishL1, FinishUpper, Requested
  <2> QED BY <1>9, <1>10, <2>1, ReconfigureL1Step
<1>11. ASSUME NEW cfg \in InstructionConfigs, ReconfigureInstruction(cfg) PROVE Flat!Next
  <2>1. request' = <<"manage">>
    BY <1>11, Zenon DEF ReconfigureInstruction, FinishInstruction, FinishUpper, Requested
  <2> QED BY <1>9, <1>11, <2>1, ReconfigureInstructionStep
<1>12. ASSUME NEW cfg \in L2Configs, ReconfigureL2(cfg) PROVE Flat!Next
  <2>1. request' = <<"manage">>
    BY <1>12, Zenon DEF ReconfigureL2, Requested
  <2> QED BY <1>9, <1>12, <2>1, ReconfigureL2Step
<1>13. ASSUME View' = [a \in Addresses |-> 0], request' = <<"reset">>,
              reply' = [status |-> "ok", data |-> <<>>]
       PROVE  Flat!Next
  BY <1>13, Zenon DEF Flat!Next, Flat!Reset, Flat!Addresses, Addresses
<1>14. CASE ResetAll \/ ChangeProcessor
  <2>1. request' = <<"reset">>
    BY <1>14, Zenon DEF ResetAll, ChangeProcessor, Requested
  <2> QED BY <1>13, <1>14, <2>1, ResetAllStep, ChangeProcessorStep
<1>15. ASSUME NEW image \in Images, LoadProgram(image) PROVE Flat!Next
  <2>1. request' = <<"load", image>>
    BY <1>15, Zenon DEF LoadProgram, Requested
  <2>2. Flat!Load(image)
    BY <1>15, <2>1, LoadProgramStep, Zenon DEF Flat!Load
  <2> QED BY <2>2, Zenon DEF Flat!Next
<1>16. CASE UNCHANGED vars
  <2>1. l1' = l1 /\ l2' = l2 /\ mem' = mem /\ request' = request /\ reply' = reply
    BY <1>16 DEF vars, caches
  <2>2. DataState' = DataState
    BY <2>1 DEF DataState, L2State
  <2>3. View' = View
    BY <2>2, ViewIs, Zenon
  <2> QED BY <2>1, <2>3 DEF Flat!vars
<1> QED BY <1>1, <1>3, <1>5, <1>6, <1>7, <1>8, <1>10, <1>11, <1>12, <1>14, <1>15, <1>16, Zenon DEF Next

\* The first state of the hierarchy is that of the flat memory.
LEMMA FlatInit ==
  ASSUME LinesNest, Init
  PROVE  Flat!Init
<1>1. request = <<"reset">>
  BY Zenon DEF Init
<1> QED BY <1>1, InitConsistent, Zenon DEF Flat!Init, Flat!Addresses, Addresses

\* Where an undo goes through L1, no access spans two lines of L1 and the lines of
\* L2 are made of whole lines of the caches above, the three caches over memory are
\* a flat memory to loads and stores: of any size, whatever the user makes of the
\* settings.
THEOREM HierarchyIsFlat ==
  ASSUME NoSpanning, LinesNest, ~UndoBypassesCaches
  PROVE  Spec => ImplementsFlatMemory
<1>1. Init => Flat!Init
  BY FlatInit
<1>2. Consistent /\ [Next]_vars => [Flat!Next]_(Flat!vars)
  BY FlatStep
<1> QED BY <1>1, <1>2, AlwaysConsistent, PTL DEF Spec, ImplementsFlatMemory, Flat!Spec
=============================================================================
