---------------------------- MODULE CacheProofs -----------------------------
(***************************************************************************)
(* Proofs about Cache, for every configuration, memory size, set of        *)
(* accesses and behaviour of a replacement script.  First the types.       *)
(* Then, as long as no access spans two lines, that the cache is coherent  *)
(* and implements FlatMemory: what each operation does to one level, put   *)
(* together along Next in the end.                                         *)
(***************************************************************************)
EXTENDS CacheOrder, WellFoundedInduction, FiniteSetTheorems, SequenceTheorems, TLAPS

-----------------------------------------------------------------------------
(* Arithmetic of addresses. *)

\* A nonempty set of naturals has a least element, and Least returns it.
LEMMA LeastIsLeast ==
  ASSUME NEW S \in SUBSET Nat, S # {}
  PROVE  /\ Least(S) \in S
         /\ \A y \in S : Least(S) <= y
<1>1. PICK x \in S : \A y \in S : <<y, x>> \notin OpToRel(<, Nat)
  BY WFMin, NatLessThanWellFounded, Zenon
<1>2. \A y \in S : ~(y < x)
  BY <1>1, Zenon DEF OpToRel
<1>3. \A y \in S : x <= y
  BY <1>2
<1> QED BY <1>1, <1>3 DEF Least

\* Division with remainder.
LEMMA DivMod ==
  ASSUME NEW a \in Nat, NEW n \in Nat \ {0}
  PROVE  /\ a \div n \in Nat
         /\ a % n \in 0 .. n - 1
         /\ a = n * (a \div n) + (a % n)
OBVIOUS

\* Quotient and remainder are unique.
LEMMA DivModUnique ==
  ASSUME NEW n \in Nat \ {0}, NEW q \in Nat, NEW r \in 0 .. n - 1
  PROVE  (n * q + r) \div n = q /\ (n * q + r) % n = r
OBVIOUS

-----------------------------------------------------------------------------
(* Typing. *)

\* The states an operation on a level of configuration cfg runs through.
States(cfg) ==
  [c      : Levels(cfg),
   n      : [Addresses -> Values],
   err    : {"none", "script", "absent"},
   script : [answer : Int, fails : {"never", "onAccess", "onInsert"}]]

\* What a configuration a user can choose says of its numbers.
LEMMA GeometryFacts ==
  ASSUME NEW cfg, GeometryOK(cfg)
  PROVE  /\ cfg \in CacheConfigs
         /\ cfg.sets \in Nat \ {0}
         /\ cfg.ways \in Nat \ {0}
         /\ cfg.size \in Nat \ {0}
         /\ MemSize % cfg.size = 0
BY ConfigsAssumption DEF GeometryOK, CacheConfigs

\* The sets, ways and lines of a level in its types.
LEMMA LevelFacts ==
  ASSUME NEW cfg, NEW c \in Levels(cfg)
  PROVE  /\ c.cfg = cfg
         /\ Sets(c) = 0 .. cfg.sets - 1
         /\ Ways(c) = 0 .. cfg.ways - 1
         /\ Offsets(c) = 0 .. cfg.size - 1
         /\ c.line \in [Sets(c) -> [Ways(c) -> Lines(cfg)]]
         /\ c.recency \in [Sets(c) -> [Ways(c) -> Ways(c)]]
         /\ c.arrival \in [Sets(c) -> [Ways(c) -> Ways(c)]]
BY DEF Levels, PerWay, Sets, Ways, Offsets

\* An address splits into a tag, a set and an offset.
LEMMA AddressTypes ==
  ASSUME NEW cfg, GeometryOK(cfg), NEW c \in Levels(cfg), NEW a \in Nat
  PROVE  /\ Block(c, a) \in Nat
         /\ SetOf(c, a) \in Sets(c)
         /\ Tag(c, a) \in Nat
         /\ Offset(c, a) \in Offsets(c)
         /\ Aligned(c, a) \in Nat
         /\ Aligned(c, a) = cfg.size * Block(c, a)
         /\ Offset(c, a) \in 0 .. cfg.size - 1
         /\ a = cfg.size * Block(c, a) + Offset(c, a)
<1>1. /\ cfg.size \in Nat \ {0}
      /\ cfg.sets \in Nat \ {0}
      /\ c.cfg = cfg
  BY GeometryFacts, LevelFacts
<1>2. /\ Block(c, a) \in Nat
      /\ Offset(c, a) \in Offsets(c)
      /\ a = cfg.size * Block(c, a) + Offset(c, a)
  BY <1>1, DivMod DEF Block, Offset, Offsets
<1>3. Tag(c, a) \in Nat /\ SetOf(c, a) \in Sets(c)
  BY <1>1, <1>2, DivMod DEF Tag, SetOf, Sets
<1>4. cfg.size * Block(c, a) \in Nat /\ Offset(c, a) \in Nat
  BY <1>1, <1>2 DEF Offsets
<1>5. Aligned(c, a) = cfg.size * Block(c, a)
  BY <1>2, <1>4 DEF Aligned
<1> QED BY <1>1, <1>2, <1>3, <1>4, <1>5 DEF Offsets

\* A line of memory lies in memory as a whole.
LEMMA LineInMemory ==
  ASSUME NEW cfg, GeometryOK(cfg), NEW c \in Levels(cfg), NEW a \in Addresses,
         NEW o \in Offsets(c)
  PROVE  Aligned(c, a) + o \in Addresses
<1> DEFINE n == cfg.size
           b == Block(c, a)
           k == MemSize \div cfg.size
<1>1. /\ n \in Nat \ {0}
      /\ c.cfg = cfg
      /\ MemSize % n = 0
      /\ MemSize \in Nat
      /\ a \in Nat
  BY GeometryFacts, LevelFacts, MemSizeAssumption DEF Addresses
<1>2. MemSize = n * k /\ k \in Nat
  <2>1. ASSUME NEW m \in Nat, NEW d \in Nat \ {0}
        PROVE  m \div d \in Nat /\ m = d * (m \div d) + (m % d)
    BY DivMod
  <2>2. k \in Nat /\ MemSize = n * k + (MemSize % n)
    BY <1>1, <2>1
  <2>3. n * k \in Nat
    BY <1>1, <2>2
  <2> HIDE DEF n, k
  <2> QED BY <1>1, <2>2, <2>3
<1>3. /\ b \in Nat
      /\ Aligned(c, a) = n * b
      /\ Offset(c, a) \in Nat
      /\ a = n * b + Offset(c, a)
  BY <1>1, AddressTypes DEF Offsets
<1>4. n * b < n * k
  BY <1>1, <1>2, <1>3 DEF Addresses
<1>5. n * b + n <= n * k
  <2>1. n \in Nat \ {0} /\ b \in Nat /\ k \in Nat
    BY <1>1, <1>2, <1>3
  <2>2. b < k
    BY <2>1, <1>4, SMT
  <2>3. n * (b + 1) <= n * k
    BY <2>1, <2>2, SMT
  <2> QED BY <2>1, <2>3
<1>6. o \in Nat /\ o < n
  BY <1>1 DEF Offsets
<1>7. n * b \in Nat
  BY <1>1, <1>3
<1> HIDE DEF n, b, k
<1> QED BY <1>1, <1>2, <1>3, <1>5, <1>6, <1>7 DEF Addresses

\* findWay returns a way of the set, whose line is valid and holds the block.
LEMMA WayOfResident ==
  ASSUME NEW cfg, GeometryOK(cfg), NEW c \in Levels(cfg), NEW a \in Nat,
         Resident(c, a)
  PROVE  WayOf(c, a) \in Matching(c, SetOf(c, a), Tag(c, a))
<1>1. Matching(c, SetOf(c, a), Tag(c, a)) \in SUBSET Nat
  BY GeometryFacts, LevelFacts DEF Matching
<1> QED BY <1>1, LeastIsLeast DEF Resident, WayOf, FindWay

\* Renewing a way keeps the ranks of a set below the number of its ways.
LEMMA NewestType ==
  ASSUME NEW n \in Nat \ {0}, NEW order \in [0 .. n - 1 -> 0 .. n - 1],
         NEW w \in 0 .. n - 1
  PROVE  Newest(order, w, n) \in [0 .. n - 1 -> 0 .. n - 1]
<1>1. \A x, y \in 0 .. n - 1 : x > y => x - 1 \in 0 .. n - 1
  OBVIOUS
<1>2. n - 1 \in 0 .. n - 1
  OBVIOUS
<1>3. ASSUME NEW v \in 0 .. n - 1
      PROVE  Newest(order, w, n)[v] \in 0 .. n - 1
  <2>1. order[v] \in 0 .. n - 1 /\ order[w] \in 0 .. n - 1
    OBVIOUS
  <2> QED BY <1>1, <1>2, <2>1, Zenon DEF Newest
<1> QED BY <1>3, Zenon DEF Newest

\* An operation's steps keep its state within the types: one lemma for each.

\* A callback of a script changes nothing but the error.
LEMMA CallHookType ==
  ASSUME NEW cfg, NEW s \in States(cfg), NEW hook
  PROVE  CallHook(s, hook) \in States(cfg)
BY DEF CallHook, States

\* Replacing one entry of a table of sets and ways.
LEMMA PerWayUpdate ==
  ASSUME NEW cfg, NEW S, NEW f \in PerWay(cfg, S),
         NEW set \in 0 .. cfg.sets - 1,
         NEW g \in [0 .. cfg.ways - 1 -> S]
  PROVE  [f EXCEPT ![set] = g] \in PerWay(cfg, S)
BY DEF PerWay

\* Touching a way keeps a level typed.
LEMMA TouchWayType ==
  ASSUME NEW cfg, GeometryOK(cfg), NEW s \in States(cfg),
         NEW set \in Sets(s.c), NEW w \in Ways(s.c)
  PROVE  TouchWay(s, set, w) \in States(cfg)
<1> DEFINE r == Newest(s.c.recency[set], w, s.c.cfg.ways)
           s1 == [s EXCEPT !.c.recency[set] = r]
<1>1. s.c \in Levels(cfg)
  BY DEF States
<1>2. r \in [0 .. cfg.ways - 1 -> 0 .. cfg.ways - 1]
  <2>1. /\ cfg.ways \in Nat \ {0}
        /\ s.c.cfg = cfg
    BY <1>1, GeometryFacts, LevelFacts
  <2>2. /\ set \in 0 .. cfg.sets - 1
        /\ w \in 0 .. cfg.ways - 1
        /\ s.c.recency \in PerWay(cfg, 0 .. cfg.ways - 1)
    BY <1>1, <2>1 DEF Levels, Sets, Ways
  <2>3. s.c.recency[set] \in [0 .. cfg.ways - 1 -> 0 .. cfg.ways - 1]
    BY <2>2 DEF PerWay
  <2> QED BY <2>1, <2>2, <2>3, NewestType
<1>3. [s.c.recency EXCEPT ![set] = r] \in PerWay(cfg, 0 .. cfg.ways - 1)
  <2>1. s.c.recency \in PerWay(cfg, 0 .. cfg.ways - 1) /\ set \in 0 .. cfg.sets - 1
    BY <1>1, LevelFacts, ZenonT(60) DEF Levels
  <2> HIDE DEF r
  <2> QED BY <1>2, <2>1, PerWayUpdate
<1>4. s1 \in States(cfg)
  <2> HIDE DEF r
  <2> QED BY <1>1, <1>3 DEF States, Levels
<1> QED BY <1>4, CallHookType DEF TouchWay

\* Touching the line of a resident address keeps a level typed.
LEMMA TouchAtType ==
  ASSUME NEW cfg, GeometryOK(cfg), NEW s \in States(cfg), NEW a \in Nat,
         Resident(s.c, a)
  PROVE  TouchAt(s, a) \in States(cfg)
<1>1. s.c \in Levels(cfg)
  BY DEF States
<1>2. SetOf(s.c, a) \in Sets(s.c) /\ WayOf(s.c, a) \in Ways(s.c)
  BY <1>1, AddressTypes, WayOfResident DEF Matching
<1> QED BY <1>2, TouchWayType DEF TouchAt

\* Touching a line leaves the lines and what is below alone.
LEMMA TouchAtFrame ==
  ASSUME NEW cfg, NEW s \in States(cfg), NEW a
  PROVE  /\ TouchAt(s, a).c.line = s.c.line
         /\ TouchAt(s, a).c.cfg = s.c.cfg
         /\ TouchAt(s, a).n = s.n
BY DEF TouchAt, TouchWay, CallHook, States, Levels

\* The start of a line lies above every earlier line.
LEMMA NextLineAbove ==
  ASSUME NEW n \in Nat \ {0}, NEW p \in Nat, NEW q \in Nat,
         NEW r \in 0 .. n - 1, NEW t \in 0 .. n - 1,
         n * p + r <= n * q + t, p # q
  PROVE  n * p + n <= n * q
<1>1. n * p \in Nat /\ n * q \in Nat
  OBVIOUS
<1>2. CASE q < p
  <2>1. n * q + n <= n * p
    BY <1>2
  <2> QED BY <1>1, <2>1
<1>3. CASE p < q
  BY <1>3
<1> QED BY <1>2, <1>3

\* The second line of an access that spans two begins inside the access.
LEMMA SecondLineInside ==
  ASSUME NEW cfg, GeometryOK(cfg), NEW c \in Levels(cfg), NEW a \in Nat,
         NEW len \in Nat \ {0}, Spans(c, a, len)
  PROVE  SecondLine(c, a) - a \in 0 .. len - 1 /\ SecondLine(c, a) \in Nat
<1> DEFINE n == cfg.size
           p == Block(c, a)
           r == Offset(c, a)
<1>1. PICK e \in Nat : e = a + len - 1
  OBVIOUS
<1> DEFINE q == Block(c, e)
           t == Offset(c, e)
<1>2. n \in Nat \ {0} /\ c.cfg = cfg
  BY GeometryFacts, LevelFacts
<1>3. p \in Nat /\ r \in 0 .. n - 1 /\ a = n * p + r /\ Aligned(c, a) = n * p
  BY AddressTypes, ZenonT(60)
<1>4. q \in Nat /\ t \in 0 .. n - 1 /\ e = n * q + t
  BY AddressTypes, ZenonT(60)
<1>5. p # q
  BY <1>1 DEF Spans
<1>6. SecondLine(c, a) = n * p + n
  BY <1>2, <1>3 DEF SecondLine
<1> HIDE DEF n, p, q, r, t
<1>7. n * p + n <= n * q
  BY <1>1, <1>2, <1>3, <1>4, <1>5, NextLineAbove
<1>8. n * p \in Nat /\ n * q \in Nat
  BY <1>2, <1>3, <1>4
<1> QED BY <1>1, <1>2, <1>3, <1>4, <1>6, <1>7, <1>8

\* Every cell of an access that hits is resident, its second line too.
LEMMA HitFacts ==
  ASSUME NEW cfg, GeometryOK(cfg), NEW c \in Levels(cfg), NEW a \in Nat,
         NEW len \in Nat \ {0}, IsHit(c, a, len)
  PROVE  /\ Resident(c, a)
         /\ Spans(c, a, len) => SecondLine(c, a) \in Nat /\ Resident(c, SecondLine(c, a))
<1>1. Resident(c, a)
  <2>1. 0 \in 0 .. len - 1 /\ a + 0 = a
    OBVIOUS
  <2> QED BY <2>1, Zenon DEF IsHit
<1>2. ASSUME Spans(c, a, len)
      PROVE  SecondLine(c, a) \in Nat /\ Resident(c, SecondLine(c, a))
  <2>1. SecondLine(c, a) - a \in 0 .. len - 1 /\ SecondLine(c, a) \in Nat
    BY <1>2, SecondLineInside
  <2>2. a + (SecondLine(c, a) - a) = SecondLine(c, a)
    BY <2>1
  <2>3. Resident(c, a + (SecondLine(c, a) - a))
    BY <2>1, Zenon DEF IsHit
  <2> QED BY <2>1, <2>2, <2>3
<1> QED BY <1>1, <1>2

\* Residency depends on the lines alone.
LEMMA ResidentFrame ==
  ASSUME NEW c, NEW d, c.cfg = d.cfg, c.line = d.line
  PROVE  /\ \A a : Resident(c, a) <=> Resident(d, a)
         /\ \A a, len : IsHit(c, a, len) <=> IsHit(d, a, len)
BY DEF Resident, IsHit, Matching, Ways, SetOf, Tag, Block

\* A hit keeps a level typed.
LEMMA TouchLinesType ==
  ASSUME NEW cfg, GeometryOK(cfg), NEW s \in States(cfg), NEW a \in Nat,
         NEW len \in Nat \ {0}, IsHit(s.c, a, len)
  PROVE  TouchLines(s, a, len) \in States(cfg)
<1> DEFINE s1 == TouchAt(s, a)
           b == SecondLine(s.c, a)
<1>1. s.c \in Levels(cfg)
  BY DEF States
<1>2. s1 \in States(cfg)
  BY <1>1, HitFacts, TouchAtType
<1>3. ASSUME Spans(s.c, a, len)
      PROVE  TouchAt(s1, b) \in States(cfg)
  <2>1. b \in Nat /\ Resident(s.c, b)
    BY <1>1, <1>3, HitFacts
  <2>2. Resident(s1.c, b)
    BY <2>1, TouchAtFrame, ResidentFrame
  <2> HIDE DEF s1, b
  <2> QED BY <1>2, <2>1, <2>2, TouchAtType
<1> QED BY <1>2, <1>3 DEF TouchLines

\* Main memory stays a function from addresses to values.
LEMMA MemWriteType ==
  ASSUME NEW m \in [Addresses -> Values], NEW a, NEW len,
         NEW data \in [0 .. len - 1 -> Values]
  PROVE  MemWrite(m, a, data) \in [Addresses -> Values]
BY DEF MemWrite

\* Replacing one line keeps a level typed.
LEMMA LineUpdateType ==
  ASSUME NEW cfg, NEW s \in States(cfg), NEW set \in Sets(s.c), NEW w \in Ways(s.c),
         NEW l \in Lines(cfg)
  PROVE  [s EXCEPT !.c.line[set][w] = l] \in States(cfg)
<1>1. /\ s.c \in Levels(cfg)
      /\ set \in 0 .. cfg.sets - 1
      /\ w \in 0 .. cfg.ways - 1
      /\ s.c.line \in PerWay(cfg, Lines(cfg))
  BY DEF States, Levels, Sets, Ways
<1>2. [s.c.line EXCEPT ![set][w] = l] \in PerWay(cfg, Lines(cfg))
  BY <1>1 DEF PerWay
<1> QED BY <1>1, <1>2 DEF States, Levels

\* A write-back keeps the level and memory typed.
LEMMA WriteBackType ==
  ASSUME NEW cfg, GeometryOK(cfg), NEW s \in States(cfg),
         NEW set \in Sets(s.c), NEW w \in Ways(s.c)
  PROVE  WriteBack(s, set, w) \in States(cfg)
<1> DEFINE l == s.c.line[set][w]
           below == MemWrite(s.n, LineStart(s.c, set, l.tag), l.data)
<1>1. s.c \in Levels(cfg) /\ s.n \in [Addresses -> Values]
  BY DEF States
<1>2. l \in Lines(cfg)
  BY <1>1, LevelFacts
<1>3. below \in [Addresses -> Values]
  BY <1>1, <1>2, MemWriteType DEF Lines
<1>4. WriteBack(s, set, w) =
        IF l.valid /\ l.dirty THEN [s EXCEPT !.n = below, !.c.line[set][w].dirty = FALSE]
                              ELSE s
  BY DEF WriteBack, MemOk
<1>5. [s EXCEPT !.c.line[set][w] = [l EXCEPT !.dirty = FALSE]] \in States(cfg)
  <2>1. [l EXCEPT !.dirty = FALSE] \in Lines(cfg)
    BY <1>2 DEF Lines
  <2> HIDE DEF l
  <2> QED BY <2>1, LineUpdateType
<1>6. [s EXCEPT !.n = below, !.c.line[set][w].dirty = FALSE] \in States(cfg)
  <2>1. [s EXCEPT !.n = below, !.c.line[set][w].dirty = FALSE] =
          [[s EXCEPT !.c.line[set][w] = [l EXCEPT !.dirty = FALSE]] EXCEPT !.n = below]
    BY <1>1 DEF States, Levels
  <2> HIDE DEF below, l
  <2> QED BY <1>3, <1>5, <2>1 DEF States
<1> QED BY <1>4, <1>6

\* An eviction keeps the level and memory typed.
LEMMA EvictType ==
  ASSUME NEW cfg, GeometryOK(cfg), NEW s \in States(cfg), NEW set \in Sets(s.c)
  PROVE  /\ Evict(s, set) \in States(cfg)
         /\ Ok(Evict(s, set)) => EvictWay(s, set) \in Ways(s.c)
<1> DEFINE w == EvictWay(s, set)
           s1 == IF s.c.cfg.write = "WriteBack" THEN WriteBack(s, set, w) ELSE s
<1>1. CASE w \notin Ways(s.c)
  BY <1>1 DEF Evict, Ok, States
<1>2. CASE w \in Ways(s.c)
  <2>1. s1 \in States(cfg)
    BY <1>2, WriteBackType
  <2>2. set \in Sets(s1.c) /\ w \in Ways(s1.c)
    BY <1>2, <2>1, LevelFacts DEF States
  <2>3. [s1 EXCEPT !.c.line[set][w].valid = FALSE] \in States(cfg)
    <3>1. s1.c.line[set][w] \in Lines(cfg)
      BY <2>1, <2>2, LevelFacts, SMTT(60) DEF States
    <3>2. [s1.c.line[set][w] EXCEPT !.valid = FALSE] \in Lines(cfg)
      BY <3>1 DEF Lines
    <3>3. [s1 EXCEPT !.c.line[set][w] = [s1.c.line[set][w] EXCEPT !.valid = FALSE]]
            \in States(cfg)
      BY <2>1, <2>2, <3>2, LineUpdateType
    <3>4. [s1 EXCEPT !.c.line[set][w].valid = FALSE] =
            [s1 EXCEPT !.c.line[set][w] = [s1.c.line[set][w] EXCEPT !.valid = FALSE]]
      BY <2>1 DEF States, Levels
    <3> QED BY <3>3, <3>4
  <2> HIDE DEF s1
  <2>4. \/ Evict(s, set) = s1
        \/ Evict(s, set) = [s1 EXCEPT !.c.line[set][w].valid = FALSE]
    BY <1>2 DEF Evict, s1
  <2> QED BY <1>2, <2>1, <2>3, <2>4
<1> QED BY <1>1, <1>2

\* BringIn up to the hook, with what it has read from below.
Brought(s, a, w, n, data) ==
  [s EXCEPT !.n = n,
            !.c.line[SetOf(s.c, a)][w] = [valid |-> TRUE, dirty |-> FALSE,
                                          tag |-> Tag(s.c, a), data |-> data],
            !.c.recency[SetOf(s.c, a)] = Newest(@, w, s.c.cfg.ways),
            !.c.arrival[SetOf(s.c, a)] = Newest(@, w, s.c.cfg.ways)]

\* The line it fetches.
Fetched(s, a) == [i \in 0 .. s.c.cfg.size - 1 |-> s.n[Aligned(s.c, a) + i]]

FetchedLine(s, a) ==
  [valid |-> TRUE, dirty |-> FALSE, tag |-> Tag(s.c, a), data |-> Fetched(s, a)]

\* A level with line l in way w of a set, which becomes its newest.
WithLine(c, set, w, l) ==
  [c EXCEPT
     !.line    = [c.line EXCEPT ![set][w] = l],
     !.recency = [c.recency EXCEPT ![set] = Newest(c.recency[set], w, c.cfg.ways)],
     !.arrival = [c.arrival EXCEPT ![set] = Newest(c.arrival[set], w, c.cfg.ways)]]

\* Main memory always answers, so a line brought in is the one it holds; the
\* hook can only add its error.
LEMMA BringInIs ==
  ASSUME NEW cfg, NEW s \in States(cfg), NEW a, NEW w
  PROVE  LET u == [s EXCEPT !.c = WithLine(s.c, SetOf(s.c, a), w, FetchedLine(s, a))]
         IN  BringIn(s, a, w) = u \/ BringIn(s, a, w) = [u EXCEPT !.err = "script"]
<1> DEFINE got == MemReadLine(s.n, Aligned(s.c, a), s.c.cfg.size)
           data == IF MemOk(got.n) THEN got.data ELSE s.c.line[SetOf(s.c,a)][w].data
           d == WithLine(s.c, SetOf(s.c, a), w, FetchedLine(s, a))
           u == Brought(s, a, w, got.n, data)
<1>1. BringIn(s, a, w) = IF Ok(u) THEN CallHook(u, "onInsert") ELSE u
  BY DEF BringIn, Brought
<1>2. got.n = s.n /\ data = Fetched(s, a)
  BY DEF MemReadLine, MemOk, Fetched
<1>3. u = Brought(s, a, w, s.n, Fetched(s, a))
  <2> HIDE DEF got, data
  <2> QED BY <1>2
<1> HIDE DEF u
<1>4. u = [s EXCEPT !.c = d]
  <2>1. s.c \in Levels(cfg)
    BY DEF States
  <2> DEFINE set == SetOf(s.c, a)
             l == FetchedLine(s, a)
             rec == Newest(s.c.recency[set], w, s.c.cfg.ways)
             arr == Newest(s.c.arrival[set], w, s.c.cfg.ways)
  <2>2. u = [s EXCEPT !.n = s.n, !.c.line[set][w] = l,
                      !.c.recency[set] = rec, !.c.arrival[set] = arr]
    BY <1>3 DEF Brought, FetchedLine
  <2>3. d = [s.c EXCEPT !.line    = [s.c.line EXCEPT ![set][w] = l],
                        !.recency = [s.c.recency EXCEPT ![set] = rec],
                        !.arrival = [s.c.arrival EXCEPT ![set] = arr]]
    BY DEF WithLine
  <2> HIDE DEF set, l, rec, arr, d
  <2>4. u.c = d
    <3>1. /\ u.c.line = [s.c.line EXCEPT ![set][w] = l]
          /\ u.c.recency = [s.c.recency EXCEPT ![set] = rec]
          /\ u.c.arrival = [s.c.arrival EXCEPT ![set] = arr]
      BY <2>1, <2>2, ZenonT(30) DEF States, Levels
    <3>2. u.c = [s.c EXCEPT !.line = u.c.line, !.recency = u.c.recency,
                            !.arrival = u.c.arrival]
      BY <2>1, <2>2, ZenonT(30) DEF States, Levels
    <3> QED BY <2>3, <3>1, <3>2, Zenon
  <2>5. u = [s EXCEPT !.c = u.c]
    BY <2>1, <2>2, ZenonT(30) DEF States, Levels
  <2> QED BY <2>4, <2>5
<1>5. BringIn(s, a, w) = u \/ BringIn(s, a, w) = [u EXCEPT !.err = "script"]
  BY <1>1, Zenon DEF CallHook
<1> DEFINE v == [s EXCEPT !.c = d]
<1>6. BringIn(s, a, w) = v \/ BringIn(s, a, w) = [v EXCEPT !.err = "script"]
  <2> HIDE DEF v
  <2> QED BY <1>4, <1>5 DEF v
<1> QED BY <1>6

\* Bringing in a line keeps the level and memory typed.
LEMMA BringInType ==
  ASSUME NEW cfg, GeometryOK(cfg), NEW s \in States(cfg), NEW a \in Addresses,
         NEW w \in Ways(s.c)
  PROVE  BringIn(s, a, w) \in States(cfg)
<1> DEFINE set  == SetOf(s.c, a)
           data == Fetched(s, a)
           l    == FetchedLine(s, a)
           rec  == Newest(s.c.recency[set], w, s.c.cfg.ways)
           arr  == Newest(s.c.arrival[set], w, s.c.cfg.ways)
           d    == WithLine(s.c, set, w, l)
<1>1. /\ s.c \in Levels(cfg)
      /\ s.n \in [Addresses -> Values]
      /\ s.c.cfg = cfg
      /\ a \in Nat
  BY DEF States, Levels, Addresses
<1>2. /\ set \in 0 .. cfg.sets - 1
      /\ w \in 0 .. cfg.ways - 1
      /\ Tag(s.c, a) \in Nat
  <2>1. set \in Sets(s.c) /\ Tag(s.c, a) \in Nat
    BY <1>1, AddressTypes
  <2> QED BY <1>1, <2>1 DEF Sets, Ways
<1>3. data \in [0 .. cfg.size - 1 -> Values]
  <2>1. \A i \in 0 .. cfg.size - 1 : Aligned(s.c, a) + i \in Addresses
    BY <1>1, LineInMemory, LevelFacts, ZenonT(60)
  <2> QED BY <1>1, <2>1 DEF Fetched
<1>4. l \in Lines(cfg)
  <2> HIDE DEF data
  <2> QED BY <1>2, <1>3 DEF Lines, FetchedLine, data
<1>5. rec \in [0 .. cfg.ways - 1 -> 0 .. cfg.ways - 1]
  <2>1. s.c.recency[set] \in [0 .. cfg.ways - 1 -> 0 .. cfg.ways - 1]
    BY <1>1, <1>2 DEF Levels, PerWay
  <2> QED BY <1>1, <1>2, <2>1, GeometryFacts, NewestType
<1>6. arr \in [0 .. cfg.ways - 1 -> 0 .. cfg.ways - 1]
  <2>1. s.c.arrival[set] \in [0 .. cfg.ways - 1 -> 0 .. cfg.ways - 1]
    BY <1>1, <1>2 DEF Levels, PerWay
  <2> QED BY <1>1, <1>2, <2>1, GeometryFacts, NewestType
<1>7. d \in Levels(cfg)
  <2> HIDE DEF l, rec, arr, set
  <2>1. /\ [s.c.line EXCEPT ![set][w] = l] \in PerWay(cfg, Lines(cfg))
        /\ [s.c.recency EXCEPT ![set] = rec] \in PerWay(cfg, 0 .. cfg.ways - 1)
        /\ [s.c.arrival EXCEPT ![set] = arr] \in PerWay(cfg, 0 .. cfg.ways - 1)
    BY <1>1, <1>2, <1>4, <1>5, <1>6 DEF Levels, PerWay
  <2> QED BY <1>1, <2>1 DEF WithLine, Levels, rec, arr
<1> HIDE DEF d
<1>8. [s EXCEPT !.c = d] \in States(cfg)
  BY <1>7 DEF States
<1>9. [[s EXCEPT !.c = d] EXCEPT !.err = "script"] \in States(cfg)
  BY <1>8 DEF States
<1> QED BY <1>8, <1>9, BringInIs, Zenon DEF d

\* The work of a miss on one line keeps the level and memory typed.
LEMMA FillType ==
  ASSUME NEW cfg, GeometryOK(cfg), NEW s \in States(cfg), NEW a \in Addresses
  PROVE  Fill(s, a) \in States(cfg)
<1> DEFINE s1 == Evict(s, SetOf(s.c, a))
           w  == EvictWay(s, SetOf(s.c, a))
<1>1. s.c \in Levels(cfg) /\ a \in Nat
  BY DEF States, Addresses
<1>2. s1 \in States(cfg) /\ (Ok(s1) => w \in Ways(s.c))
  BY <1>1, AddressTypes, EvictType
<1>3. Ways(s1.c) = Ways(s.c)
  BY <1>1, <1>2, LevelFacts DEF States
<1> HIDE DEF s1, w
<1>4. Ok(s1) => BringIn(s1, a, w) \in States(cfg)
  BY <1>2, <1>3, BringInType
<1> QED BY <1>2, <1>4 DEF Fill, s1, w

\* The cells of an access that is in range are addresses.
LEMMA AccessInMemory ==
  ASSUME NEW a \in Nat, NEW len \in Nat \ {0}, ~OutOfRange(a, len)
  PROVE  \A i \in 0 .. len - 1 : a + i \in Addresses
BY MemSizeAssumption DEF OutOfRange, Addresses

\* The work of a miss keeps the level and memory typed.
LEMMA BringInLinesType ==
  ASSUME NEW cfg, GeometryOK(cfg), NEW s \in States(cfg), NEW a \in Nat,
         NEW len \in Nat \ {0}, ~OutOfRange(a, len)
  PROVE  BringInLines(s, a, len) \in States(cfg)
<1> DEFINE s1 == Fill(s, a)
           b  == SecondLine(s.c, a)
<1>1. s.c \in Levels(cfg)
  BY DEF States
<1>2. a \in Addresses
  BY AccessInMemory
<1>3. s1 \in States(cfg)
  BY <1>2, FillType
<1>4. ASSUME Spans(s.c, a, len)
      PROVE  b \in Addresses
  <2>1. b - a \in 0 .. len - 1 /\ b \in Nat
    BY <1>1, <1>4, SecondLineInside
  <2>2. a + (b - a) \in Addresses
    BY <2>1, AccessInMemory
  <2> HIDE DEF b
  <2> QED BY <2>1, <2>2
<1> HIDE DEF s1
<1>5. Spans(s.c, a, len) => Fill(s1, b) \in States(cfg)
  BY <1>3, <1>4, FillType
<1> QED BY <1>3, <1>5 DEF BringInLines, s1

\* A byte is missing unless the access would hit.
LEMMA PresentIsHit ==
  ASSUME NEW s, NEW a, NEW len
  PROVE  Present(s, a, len) =
           IF Ok(s) /\ ~IsHit(s.c, a, len) THEN [s EXCEPT !.err = "absent"] ELSE s
BY Zenon DEF Present, IsHit

\* The test for missing bytes keeps the types, and passes only on a hit.
LEMMA PresentType ==
  ASSUME NEW cfg, NEW s \in States(cfg), NEW a, NEW len
  PROVE  /\ Present(s, a, len) \in States(cfg)
         /\ Ok(Present(s, a, len)) => IsHit(Present(s, a, len).c, a, len)
BY PresentIsHit DEF States, Ok, MemOk

\* A read keeps the level and memory typed.
LEMMA ReadGenericType ==
  ASSUME NEW cfg, GeometryOK(cfg), NEW s \in States(cfg), NEW a \in Nat,
         NEW len \in Nat \ {0}, ~OutOfRange(a, len)
  PROVE  ReadGeneric(s, a, len).s \in States(cfg)
<1>1. IsHit(s.c, a, len) => TouchLines(s, a, len) \in States(cfg)
  BY TouchLinesType
<1>2. BringInLines(s, a, len) \in States(cfg)
  BY BringInLinesType
<1> QED BY <1>1, <1>2, PresentType DEF ReadGeneric

\* Storing bytes in resident lines keeps the level typed.
LEMMA PutBytesType ==
  ASSUME NEW cfg, NEW c \in Levels(cfg), NEW a, NEW len,
         NEW data \in [0 .. len - 1 -> Values]
  PROVE  PutBytes(c, a, data, len) \in Levels(cfg)
<1> DEFINE put(set, w) ==
             IF Landing(c, a, len, set, w) = {} THEN c.line[set][w]
             ELSE [c.line[set][w] EXCEPT
                     !.dirty = (c.cfg.write = "WriteBack"),
                     !.data  = [o \in Offsets(c) |->
                        IF \E i \in Landing(c, a, len, set, w) : Offset(c, a + i) = o
                        THEN data[CHOOSE i \in Landing(c, a, len, set, w) :
                                    Offset(c, a + i) = o]
                        ELSE c.line[set][w].data[o]]]
<1>1. ASSUME NEW set \in Sets(c), NEW w \in Ways(c)
      PROVE  put(set, w) \in Lines(cfg)
  <2> DEFINE here == Landing(c, a, len, set, w)
             l    == c.line[set][w]
             new  == [o \in Offsets(c) |->
                        IF \E i \in here : Offset(c, a + i) = o
                        THEN data[CHOOSE i \in here : Offset(c, a + i) = o]
                        ELSE l.data[o]]
  <2>1. l \in Lines(cfg) /\ Offsets(c) = 0 .. cfg.size - 1
    BY LevelFacts
  <2>2. here \subseteq 0 .. len - 1
    BY DEF Landing
  <2>3. ASSUME NEW o \in Offsets(c)
        PROVE  new[o] \in Values
    <3>1. l.data[o] \in Values
      BY <2>1 DEF Lines
    <3> QED BY <2>2, <3>1
  <2>4. new \in [0 .. cfg.size - 1 -> Values]
    BY <2>1, <2>3
  <2> HIDE DEF new, l
  <2>5. [l EXCEPT !.dirty = (c.cfg.write = "WriteBack"), !.data = new] \in Lines(cfg)
    BY <2>1, <2>4 DEF Lines
  <2> QED BY <2>1, <2>5 DEF new, l
<1>2. PutBytes(c, a, data, len) =
        [c EXCEPT !.line = [set \in Sets(c) |-> [w \in Ways(c) |-> put(set, w)]]]
  BY DEF PutBytes
<1> HIDE DEF put
<1>3. [set \in Sets(c) |-> [w \in Ways(c) |-> put(set, w)]] \in PerWay(cfg, Lines(cfg))
  BY <1>1, LevelFacts, ZenonT(60) DEF PerWay
<1> QED BY <1>2, <1>3 DEF Levels

\* Storing bytes, in memory too when writing through, keeps the types.
LEMMA StoreType ==
  ASSUME NEW cfg, NEW s \in States(cfg), NEW a, NEW len,
         NEW data \in [0 .. len - 1 -> Values]
  PROVE  Store(s, a, data, len) \in States(cfg)
<1> DEFINE s1  == Present(s, a, len)
           put == [s1 EXCEPT !.c = PutBytes(@, a, data, len)]
<1>1. s1 \in States(cfg)
  BY PresentType
<1> HIDE DEF s1
<1>2. PutBytes(s1.c, a, data, len) \in Levels(cfg)
  BY <1>1, PutBytesType DEF States
<1>3. put \in States(cfg)
  BY <1>1, <1>2 DEF States
<1> HIDE DEF put
<1>4. [put EXCEPT !.n = MemWrite(@, a, data)] \in States(cfg)
  <2>1. MemWrite(put.n, a, data) \in [Addresses -> Values]
    BY <1>3, MemWriteType DEF States
  <2> QED BY <1>3, <2>1 DEF States
<1> QED BY <1>1, <1>3, <1>4 DEF Store, s1, put

\* A write keeps the level and memory typed.
LEMMA WriteGenericType ==
  ASSUME NEW cfg, GeometryOK(cfg), NEW s \in States(cfg), NEW a \in Nat,
         NEW len \in Nat \ {0}, ~OutOfRange(a, len),
         NEW data \in [0 .. len - 1 -> Values]
  PROVE  WriteGeneric(s, a, data, len) \in States(cfg)
<1>1. IsHit(s.c, a, len) => Store(TouchLines(s, a, len), a, data, len) \in States(cfg)
  BY TouchLinesType, StoreType
<1>2. Store(BringInLines(s, a, len), a, data, len) \in States(cfg)
  BY BringInLinesType, StoreType
<1>3. [s EXCEPT !.n = MemWrite(@, a, data)] \in States(cfg)
  <2>1. MemWrite(s.n, a, data) \in [Addresses -> Values]
    BY MemWriteType DEF States
  <2> QED BY <2>1 DEF States
<1> QED BY <1>1, <1>2, <1>3 DEF WriteGeneric

\* A fresh level is typed.
LEMMA SetupType ==
  ASSUME NEW cfg, GeometryOK(cfg)
  PROVE  Setup(cfg) \in Levels(cfg)
BY GeometryFacts, ValuesAssumption
   DEF Setup, Levels, PerWay, Lines, EmptyLine, Ranks

\* An emptied level is typed.
LEMMA ResetType ==
  ASSUME NEW cfg, GeometryOK(cfg), NEW c \in Levels(cfg)
  PROVE  Reset(c) \in Levels(cfg)
<1>1. /\ c.cfg = cfg
      /\ Setup(cfg).line \in PerWay(cfg, Lines(cfg))
      /\ Ranks(cfg) \in PerWay(cfg, 0 .. cfg.ways - 1)
  BY SetupType DEF Levels, Setup
<1> QED BY <1>1 DEF Reset, Levels

\* A nonempty set of naturals with an upper bound has a greatest element.
LEMMA GreatestIsGreatest ==
  ASSUME NEW n \in Nat, NEW S \in SUBSET (0 .. n), S # {}
  PROVE  /\ Greatest(S) \in S
         /\ \A y \in S : y <= Greatest(S)
<1> DEFINE T == {n - x : x \in S}
<1>1. T \in SUBSET Nat /\ T # {}
  <2>1. \A x \in 0 .. n : n - x \in Nat
    OBVIOUS
  <2> QED BY <2>1, Zenon
<1>2. Least(T) \in T /\ \A t \in T : Least(T) <= t
  BY <1>1, LeastIsLeast
<1>3. PICK x \in S : Least(T) = n - x
  BY <1>2
<1>4. \A y \in S : n - y \in T /\ n - x <= n - y
  BY <1>2, <1>3
<1>5. \A y \in S : y <= x
  BY <1>4
<1> QED BY <1>5 DEF Greatest

\* Writing back every dirty line keeps memory typed.
LEMMA WrittenBackType ==
  ASSUME NEW cfg, GeometryOK(cfg), NEW c \in Levels(cfg), NEW m \in [Addresses -> Values]
  PROVE  WrittenBack(m, c) \in [Addresses -> Values]
<1>1. ASSUME NEW a \in Addresses, DirtyWays(c, a) # {}
      PROVE  c.line[SetOf(c, a)][Greatest(DirtyWays(c, a))].data[Offset(c, a)] \in Values
  <2>1. a \in Nat
    BY DEF Addresses
  <2>2. SetOf(c, a) \in Sets(c) /\ Offset(c, a) \in 0 .. cfg.size - 1
    BY <2>1, AddressTypes
  <2>3. Greatest(DirtyWays(c, a)) \in Ways(c)
    <3>1. DirtyWays(c, a) \in SUBSET (0 .. cfg.ways - 1) /\ cfg.ways - 1 \in Nat
      BY LevelFacts, GeometryFacts DEF DirtyWays, Matching
    <3>2. Greatest(DirtyWays(c, a)) \in DirtyWays(c, a)
      BY <1>1, <3>1, GreatestIsGreatest
    <3> QED BY <3>2 DEF DirtyWays, Matching
  <2>4. c.line[SetOf(c, a)][Greatest(DirtyWays(c, a))] \in Lines(cfg)
    BY <2>2, <2>3, LevelFacts
  <2> QED BY <2>2, <2>4 DEF Lines
<1> QED BY <1>1 DEF WrittenBack

\* A flush keeps the level and memory typed.
LEMMA FlushType ==
  ASSUME NEW cfg, GeometryOK(cfg), NEW s \in States(cfg)
  PROVE  Flush(s) \in States(cfg)
BY ResetType, WrittenBackType DEF Flush, States

\* A level fits every configuration of the same geometry.
LEMMA SameGeometry ==
  ASSUME NEW cfg, NEW c \in Levels(cfg), NEW new, new.sets = cfg.sets,
         new.ways = cfg.ways, new.size = cfg.size
  PROVE  [c EXCEPT !.cfg = new] \in Levels(new)
BY DEF Levels, PerWay, Lines

\* A change of settings keeps the level and memory typed.
LEMMA ReconfigureType ==
  ASSUME NEW cfg, GeometryOK(cfg), NEW s \in States(cfg), NEW new \in Configs
  PROVE  \E cfg2 : GeometryOK(cfg2) /\ Reconfigure(s, new) \in States(cfg2)
<1>1. GeometryOK(new)
  BY ConfigsAssumption DEF GeometryOK
<1>2. CASE ~Ok(s)
  BY <1>2 DEF Reconfigure
<1>3. CASE Ok(s) /\ new.repl = "Custom" /\ s.c.path = "bad"
  <2> DEFINE mixed == [cfg EXCEPT !.write = new.write, !.alloc = new.alloc]
  <2>1. GeometryOK(mixed) /\ mixed.sets = cfg.sets /\ mixed.ways = cfg.ways
          /\ mixed.size = cfg.size
    BY <1>1 DEF GeometryOK, CacheConfigs
  <2>2. s.c \in Levels(cfg) /\ s.c.cfg = cfg
    BY DEF States, Levels
  <2>3. [s.c EXCEPT !.cfg = mixed] \in Levels(mixed)
    <3> HIDE DEF mixed
    <3> QED BY <2>1, <2>2, SameGeometry
  <2>4. Reconfigure(s, new) = [s EXCEPT !.err = "script", !.c = [s.c EXCEPT !.cfg = mixed]]
    <3>1. Reconfigure(s, new) =
            [s EXCEPT !.err = "script",
                      !.c.cfg = [@ EXCEPT !.write = new.write, !.alloc = new.alloc]]
      BY <1>3, Zenon DEF Reconfigure
    <3> QED BY <2>2, <3>1 DEF States, Levels
  <2> HIDE DEF mixed
  <2>5. Reconfigure(s, new) \in States(mixed)
    BY <2>3, <2>4 DEF States
  <2> QED BY <2>1, <2>5
<1>4. CASE Ok(s) /\ ~(new.repl = "Custom" /\ s.c.path = "bad")
  <2> DEFINE loaded == new.repl = "Custom" /\ s.c.path = "good"
             c1 == [Setup(new) EXCEPT !.path = s.c.path, !.loaded = loaded]
  <2>1. c1 \in Levels(new)
    <3>1. loaded \in BOOLEAN /\ s.c.path \in {"none", "good", "bad"}
      BY DEF States, Levels
    <3>2. Setup(new) \in Levels(new)
      BY <1>1, SetupType
    <3> HIDE DEF loaded
    <3> QED BY <3>1, <3>2 DEF Levels
  <2>2. Reconfigure(s, new) = [s EXCEPT !.c = c1]
    BY <1>4, Zenon DEF Reconfigure
  <2> HIDE DEF c1
  <2>3. Reconfigure(s, new) \in States(new)
    BY <2>1, <2>2 DEF States
  <2> QED BY <1>1, <2>3
<1> QED BY <1>2, <1>3, <1>4

\* Loading a script keeps the level and memory typed.
LEMMA LoadScriptType ==
  ASSUME NEW cfg, GeometryOK(cfg), NEW c \in Levels(cfg), NEW path \in Paths
  PROVE  \E cfg2 : GeometryOK(cfg2) /\ LoadCustomPolicyScript(c, path) \in Levels(cfg2)
<1>1. path \in {"good", "bad"}
  BY PathsAssumption
<1>2. CASE path = "bad"
  BY <1>2 DEF LoadCustomPolicyScript, Levels
<1>3. CASE path = "good"
  <2> DEFINE custom == [cfg EXCEPT !.repl = "Custom"]
             c1     == [c EXCEPT !.cfg = custom]
  <2>1. GeometryOK(custom) /\ custom.sets = cfg.sets /\ custom.ways = cfg.ways
          /\ custom.size = cfg.size
    BY DEF GeometryOK, CacheConfigs
  <2>2. c1 \in Levels(custom)
    <3> HIDE DEF custom
    <3> QED BY <2>1, SameGeometry
  <2>3. LoadCustomPolicyScript(c, path) = [c1 EXCEPT !.path = path, !.loaded = TRUE]
    BY <1>3 DEF LoadCustomPolicyScript, Levels
  <2> HIDE DEF custom, c1
  <2>4. LoadCustomPolicyScript(c, path) \in Levels(custom)
    BY <1>1, <2>2, <2>3 DEF Levels
  <2> QED BY <2>1, <2>4
<1> QED BY <1>1, <1>2, <1>3

-----------------------------------------------------------------------------
(* Type correctness. *)

\* An operation begins in a typed state.
LEMMA StartType ==
  ASSUME TypeOK, NEW script \in [answer : Int, fails : {"never", "onAccess", "onInsert"}]
  PROVE  Start(script) \in States(cache.cfg)
BY DEF TypeOK, Start, States

\* Whatever state an operation ends in, the variables it leaves are typed.
LEMMA FinishType ==
  ASSUME NEW cfg, GeometryOK(cfg), NEW s \in States(cfg), NEW data,
         Finish(s, data)
  PROVE  TypeOK'
<1>1. cache' \in Levels(cfg) /\ cache'.cfg = cfg /\ mem' \in [Addresses -> Values]
  BY DEF Finish, States, Levels
<1>2. reply'.status \in {"ok", "range", "script", "absent"}
  BY DEF Finish, Status, States
<1> QED BY <1>1, <1>2 DEF TypeOK, GeometryOK, Levels, Lines, PerWay, CacheConfigs, Addresses

\* The initial states are typed.
LEMMA TypeInit ==
  ASSUME Init
  PROVE  TypeOK
<1>1. PICK cfg \in Configs : cache = Setup(cfg)
  BY DEF Init
<1>2. GeometryOK(cfg)
  BY ConfigsAssumption DEF GeometryOK
<1>3. cache \in Levels(cfg) /\ cache.cfg = cfg
  BY <1>1, <1>2, SetupType DEF Levels
<1> QED BY <1>2, <1>3, ValuesAssumption DEF Init, TypeOK

\* Every operation keeps the types.
LEMMA TypeNext ==
  ASSUME TypeOK, [Next]_vars
  PROVE  TypeOK'
<1>1. GeometryOK(cache.cfg)
  BY DEF TypeOK
<1>2. ASSUME NEW acc \in Accesses, NEW script \in Scripts, Read(acc[1], acc[2], script)
      PROVE  TypeOK'
  <2>1. acc[1] \in Nat /\ acc[2] \in Nat \ {0}
    BY AccessesAssumption
  <2>2. Start(script) \in States(cache.cfg)
    BY ScriptsAssumption, StartType
  <2>3. ReadGeneric(Start(script), acc[1], acc[2]).s \in States(cache.cfg)
    BY <1>1, <1>2, <2>1, <2>2, ReadGenericType DEF Read
  <2> QED BY <1>1, <1>2, <2>3, FinishType DEF Read
<1>3. ASSUME NEW acc \in Accesses, NEW script \in Scripts,
             NEW data \in [0 .. acc[2] - 1 -> Values],
             Write(acc[1], acc[2], data, script)
      PROVE  TypeOK'
  <2>1. acc[1] \in Nat /\ acc[2] \in Nat \ {0}
    BY AccessesAssumption
  <2>2. Start(script) \in States(cache.cfg)
    BY ScriptsAssumption, StartType
  <2>3. WriteGeneric(Start(script), acc[1], data, acc[2]) \in States(cache.cfg)
    BY <1>1, <1>3, <2>1, <2>2, WriteGenericType DEF Write
  <2> QED BY <1>1, <1>3, <2>3, FinishType DEF Write
<1>4. ASSUME NEW acc \in Accesses, Refuse(acc[1], acc[2])
      PROVE  TypeOK'
  BY <1>4 DEF Refuse, TypeOK
<1>5. ASSUME NEW cfg \in Configs, ReconfigureCache(cfg)
      PROVE  TypeOK'
  <2> DEFINE s == Start([answer |-> 0, fails |-> "never"])
  <2>1. Flush(s) \in States(cache.cfg)
    BY <1>1, StartType, FlushType
  <2>2. PICK cfg2 : GeometryOK(cfg2) /\ Reconfigure(Flush(s), cfg) \in States(cfg2)
    BY <1>1, <2>1, ReconfigureType
  <2>3. Finish(Reconfigure(Flush(s), cfg), <<>>)
    BY <1>5 DEF ReconfigureCache
  <2> HIDE DEF s
  <2> QED BY <2>2, <2>3, FinishType
<1>6. ASSUME NEW path \in Paths, LoadScript(path)
      PROVE  TypeOK'
  <2>1. PICK cfg2 : GeometryOK(cfg2) /\ cache' \in Levels(cfg2)
    BY <1>1, <1>6, LoadScriptType DEF LoadScript, TypeOK
  <2>2. cache'.cfg = cfg2
    BY <2>1 DEF Levels
  <2> QED BY <1>6, <2>1, <2>2 DEF LoadScript, TypeOK
<1>7. CASE ResetAll
  <2>1. cache' \in Levels(cache.cfg) /\ cache'.cfg = cache.cfg
    BY <1>1, <1>7, ResetType DEF ResetAll, TypeOK, Reset, Levels
  <2> QED BY <1>1, <1>7, <2>1, ValuesAssumption DEF ResetAll, TypeOK
<1>8. CASE UNCHANGED vars
  BY <1>8 DEF vars, TypeOK
<1> QED BY <1>2, <1>3, <1>4, <1>5, <1>6, <1>7, <1>8 DEF Next, DataOf

\* Whatever the user configures, loads and runs, the lines and replacement
\* ranks of the cache fit its configuration and memory holds values.
THEOREM TypeCorrect == Spec => []TypeOK
<1>1. Init => TypeOK
  BY TypeInit
<1>2. TypeOK /\ [Next]_vars => TypeOK'
  BY TypeNext
<1> QED BY <1>1, <1>2, PTL DEF Spec

-----------------------------------------------------------------------------
(* When no access spans two lines. *)

\* Every access lies within one line of every configuration.  Without it the
\* code is wrong: see the run span_corrupt.
NoSpanning ==
  \A acc \in Accesses, cfg \in Configs :
    acc[1] \div cfg.size = (acc[1] + acc[2] - 1) \div cfg.size

-----------------------------------------------------------------------------
(* The invariants and the view, as operators on a level and its memory.    *)

Unique(c) ==
  \A set \in Sets(c), v, w \in Ways(c) :
    /\ c.line[set][v].valid
    /\ c.line[set][w].valid
    /\ c.line[set][v].tag = c.line[set][w].tag
    => v = w

Clean(c, m) ==
  \A a \in Addresses :
    \A w \in Matching(c, SetOf(c, a), Tag(c, a)) :
      ~c.line[SetOf(c, a)][w].dirty =>
         c.line[SetOf(c, a)][w].data[Offset(c, a)] = m[a]

DirtyWriteBack(c) ==
  \A set \in Sets(c), w \in Ways(c) :
    c.line[set][w].dirty => c.cfg.write = "WriteBack"

Coherent(s) == Unique(s.c) /\ Clean(s.c, s.n) /\ DirtyWriteBack(s.c)

ViewAt(s, a) == IF Resident(s.c, a) THEN Cell(s.c, a) ELSE s.n[a]

SameView(s, t) == \A a \in Addresses : ViewAt(s, a) = ViewAt(t, a)

-----------------------------------------------------------------------------
(* Addresses as coordinates: a set, a tag and an offset. *)

\* A line starts where its set and tag say.
LEMMA LineStartAligned ==
  ASSUME NEW cfg, GeometryOK(cfg), NEW c \in Levels(cfg), NEW a \in Nat
  PROVE  LineStart(c, SetOf(c, a), Tag(c, a)) = Aligned(c, a)
<1>1. cfg.sets \in Nat \ {0} /\ cfg.size \in Nat \ {0} /\ c.cfg = cfg
  BY GeometryFacts, LevelFacts
<1>2. Block(c, a) \in Nat /\ Aligned(c, a) = cfg.size * Block(c, a)
  BY AddressTypes
<1>3. /\ Tag(c, a) = Block(c, a) \div cfg.sets
      /\ SetOf(c, a) = Block(c, a) % cfg.sets
  BY <1>1 DEF Tag, SetOf
<1>4. /\ Tag(c, a) \in Nat
      /\ SetOf(c, a) \in 0 .. cfg.sets - 1
      /\ Block(c, a) = cfg.sets * Tag(c, a) + SetOf(c, a)
  <2>1. /\ Block(c, a) \div cfg.sets \in Nat
        /\ Block(c, a) % cfg.sets \in 0 .. cfg.sets - 1
        /\ Block(c, a) =
             cfg.sets * (Block(c, a) \div cfg.sets) + (Block(c, a) % cfg.sets)
    BY <1>1, <1>2, DivMod, Zenon
  <2> QED BY <1>3, <2>1, Zenon
<1>5. Tag(c, a) * cfg.sets + SetOf(c, a) = Block(c, a)
  BY <1>1, <1>4
<1>6. LineStart(c, SetOf(c, a), Tag(c, a)) = Block(c, a) * cfg.size
  BY <1>1, <1>5 DEF LineStart
<1> QED BY <1>1, <1>2, <1>6

\* The cells of a line are the addresses with its set and tag.
LEMMA CellsOfLine ==
  ASSUME NEW cfg, GeometryOK(cfg), NEW c \in Levels(cfg),
         NEW set \in Sets(c), NEW tag \in Nat, NEW b \in Nat
  PROVE  /\ b - LineStart(c, set, tag) \in 0 .. cfg.size - 1
              <=> SetOf(c, b) = set /\ Tag(c, b) = tag
         /\ SetOf(c, b) = set /\ Tag(c, b) = tag =>
              b - LineStart(c, set, tag) = Offset(c, b)
<1> DEFINE n == cfg.size
           k == cfg.sets
           p == k * tag + set
<1>1. n \in Nat \ {0} /\ k \in Nat \ {0} /\ c.cfg = cfg /\ set \in 0 .. k - 1
  BY GeometryFacts, LevelFacts
<1>2. p \in Nat /\ k * tag \in Nat
  BY <1>1
<1>3. LineStart(c, set, tag) = n * p
  <2>1. tag * k + set = p
    BY <1>1
  <2>2. LineStart(c, set, tag) = p * n
    BY <1>1, <2>1 DEF LineStart
  <2> HIDE DEF p, n
  <2> QED BY <1>1, <1>2, <2>2
<1>4. n * p \in Nat
  <2> HIDE DEF p, n
  <2> QED BY <1>1, <1>2
<1>5. ASSUME b - LineStart(c, set, tag) \in 0 .. n - 1
      PROVE  SetOf(c, b) = set /\ Tag(c, b) = tag
  <2>1. PICK r \in 0 .. n - 1 : r = b - n * p
    BY <1>3, <1>5
  <2>2. b = n * p + r
    BY <1>1, <1>4, <2>1
  <2>3. b \div n = p
    <3> HIDE DEF p, n
    <3>1. (n * p + r) \div n = p
      BY <1>1, <1>2, DivModUnique, Zenon
    <3> QED BY <2>2, <3>1, Zenon
  <2>4. p \div k = tag /\ p % k = set
    <3> HIDE DEF k
    <3> QED BY <1>1, DivModUnique
  <2> QED BY <1>1, <2>3, <2>4 DEF SetOf, Tag, Block
<1>6. ASSUME SetOf(c, b) = set, Tag(c, b) = tag
      PROVE  b - LineStart(c, set, tag) = Offset(c, b) /\ Offset(c, b) \in 0 .. n - 1
  <2>1. LineStart(c, set, tag) = Aligned(c, b)
    BY <1>6, LineStartAligned
  <2>2. /\ Aligned(c, b) = b - Offset(c, b)
        /\ Offset(c, b) \in 0 .. n - 1
    BY AddressTypes DEF Aligned
  <2> QED BY <1>1, <2>1, <2>2
<1> QED BY <1>5, <1>6

\* Writing a line changes the cells with its set and tag, and no others.
LEMMA MemWriteLine ==
  ASSUME NEW cfg, GeometryOK(cfg), NEW c \in Levels(cfg),
         NEW set \in Sets(c), NEW tag \in Nat,
         NEW data \in [0 .. cfg.size - 1 -> Values],
         NEW m \in [Addresses -> Values], NEW b \in Addresses
  PROVE  MemWrite(m, LineStart(c, set, tag), data)[b] =
           IF SetOf(c, b) = set /\ Tag(c, b) = tag THEN data[Offset(c, b)] ELSE m[b]
<1>1. b \in Nat /\ b \in DOMAIN m
  BY DEF Addresses
<1>2. MemWrite(m, LineStart(c, set, tag), data)[b] =
        IF b - LineStart(c, set, tag) \in 0 .. cfg.size - 1
        THEN data[b - LineStart(c, set, tag)] ELSE m[b]
  BY <1>1 DEF MemWrite
<1> QED BY <1>1, <1>2, CellsOfLine

-----------------------------------------------------------------------------
(* What the steps of an operation do to coherence and to the view. *)

\* At most one way holds an address, and it is the one that is read.
LEMMA OneWay ==
  ASSUME NEW cfg, GeometryOK(cfg), NEW c \in Levels(cfg), Unique(c), NEW a \in Nat,
         NEW w \in Matching(c, SetOf(c, a), Tag(c, a))
  PROVE  /\ Resident(c, a)
         /\ WayOf(c, a) = w
         /\ Cell(c, a) = c.line[SetOf(c, a)][w].data[Offset(c, a)]
<1>1. Resident(c, a)
  BY DEF Resident
<1>2. WayOf(c, a) \in Matching(c, SetOf(c, a), Tag(c, a))
  BY <1>1, WayOfResident
<1>3. SetOf(c, a) \in Sets(c)
  BY AddressTypes
<1>4. WayOf(c, a) = w
  BY <1>2, <1>3 DEF Matching, Unique
<1> QED BY <1>1, <1>4 DEF Cell

\* Levels of one geometry split addresses alike.
LEMMA SameSplit ==
  ASSUME NEW c, NEW d, c.cfg.sets = d.cfg.sets, c.cfg.ways = d.cfg.ways,
         c.cfg.size = d.cfg.size
  PROVE  /\ Sets(c) = Sets(d)
         /\ Ways(c) = Ways(d)
         /\ Offsets(c) = Offsets(d)
         /\ \A a : SetOf(c, a) = SetOf(d, a)
         /\ \A a : Tag(c, a) = Tag(d, a)
         /\ \A a : Offset(c, a) = Offset(d, a)
         /\ \A a : Aligned(c, a) = Aligned(d, a)
         /\ \A set, tag : LineStart(c, set, tag) = LineStart(d, set, tag)
BY DEF Sets, Ways, Offsets, SetOf, Tag, Offset, Block, Aligned, LineStart

\* Residency and cells depend on the geometry and the lines alone.
LEMMA SameCells ==
  ASSUME NEW c, NEW d, c.cfg.sets = d.cfg.sets, c.cfg.ways = d.cfg.ways,
         c.cfg.size = d.cfg.size, c.line = d.line
  PROVE  /\ \A set, tag : Matching(c, set, tag) = Matching(d, set, tag)
         /\ \A a : Resident(c, a) <=> Resident(d, a)
         /\ \A a : WayOf(c, a) = WayOf(d, a)
         /\ \A a : Cell(c, a) = Cell(d, a)
<1>1. /\ Ways(c) = Ways(d)
      /\ \A a : SetOf(c, a) = SetOf(d, a)
      /\ \A a : Tag(c, a) = Tag(d, a)
      /\ \A a : Offset(c, a) = Offset(d, a)
  BY SameSplit
<1>2. \A set, tag : Matching(c, set, tag) = Matching(d, set, tag)
  BY <1>1 DEF Matching
<1>3. \A a : Resident(c, a) <=> Resident(d, a)
  BY <1>1, <1>2 DEF Resident
<1>4. \A a : WayOf(c, a) = WayOf(d, a)
  BY <1>1, <1>2 DEF WayOf, FindWay
<1>5. \A a : Cell(c, a) = Cell(d, a)
  BY <1>1, <1>4 DEF Cell
<1> QED BY <1>2, <1>3, <1>4, <1>5

\* Coherence and the view depend on the geometry, the write policy, the lines
\* and memory alone.
LEMMA SameLines ==
  ASSUME NEW s, NEW t, s.c.cfg.sets = t.c.cfg.sets, s.c.cfg.ways = t.c.cfg.ways,
         s.c.cfg.size = t.c.cfg.size, s.c.cfg.write = t.c.cfg.write,
         s.c.line = t.c.line, s.n = t.n
  PROVE  /\ Coherent(s) <=> Coherent(t)
         /\ SameView(s, t)
<1>1. /\ Sets(s.c) = Sets(t.c)
      /\ Ways(s.c) = Ways(t.c)
      /\ \A a : SetOf(s.c, a) = SetOf(t.c, a)
      /\ \A a : Tag(s.c, a) = Tag(t.c, a)
      /\ \A a : Offset(s.c, a) = Offset(t.c, a)
  BY SameSplit
<1>2. \A set, tag : Matching(s.c, set, tag) = Matching(t.c, set, tag)
  BY SameCells
<1>3. Unique(s.c) <=> Unique(t.c)
  BY <1>1, ZenonT(60) DEF Unique
<1>4. DirtyWriteBack(s.c) <=> DirtyWriteBack(t.c)
  BY <1>1, Zenon DEF DirtyWriteBack
<1>5. Clean(s.c, s.n) <=> Clean(t.c, t.n)
  BY <1>1, <1>2, SMTT(60) DEF Clean
<1>6. /\ \A a : Resident(s.c, a) <=> Resident(t.c, a)
      /\ \A a : Cell(s.c, a) = Cell(t.c, a)
  BY SameCells
<1> QED BY <1>3, <1>4, <1>5, <1>6 DEF Coherent, SameView, ViewAt

\* Two steps that keep the view keep it together.
LEMMA ViewTransitive ==
  ASSUME NEW s, NEW t, NEW u, SameView(s, t), SameView(t, u)
  PROVE  SameView(s, u)
BY DEF SameView

\* The view of an address, told by the way that holds it.
LEMMA ViewOfWay ==
  ASSUME NEW cfg, GeometryOK(cfg), NEW s \in States(cfg), Unique(s.c),
         NEW a \in Addresses
  PROVE  /\ \A w \in Matching(s.c, SetOf(s.c, a), Tag(s.c, a)) :
              ViewAt(s, a) = s.c.line[SetOf(s.c, a)][w].data[Offset(s.c, a)]
         /\ Matching(s.c, SetOf(s.c, a), Tag(s.c, a)) = {} => ViewAt(s, a) = s.n[a]
<1>1. s.c \in Levels(cfg) /\ a \in Nat
  BY DEF States, Addresses
<1> QED BY <1>1, OneWay DEF ViewAt, Resident

\* Does another way than w of the set hold the address?
HeldElsewhere(c, a, set, w) ==
  \E v \in Matching(c, SetOf(c, a), Tag(c, a)) : SetOf(c, a) # set \/ v # w

\* A step that puts line l into way w of a set, and may change memory under
\* the blocks no other way holds.
LEMMA ReplaceLine ==
  ASSUME NEW cfg, GeometryOK(cfg), NEW s \in States(cfg), NEW t \in States(cfg),
         Coherent(s), NEW set \in Sets(s.c), NEW w \in Ways(s.c), NEW l \in Lines(cfg),
         t.c.line = [s.c.line EXCEPT ![set][w] = l],
         l.valid => \A v \in Matching(s.c, set, l.tag) : v = w,
         l.dirty => cfg.write = "WriteBack",
         \A a \in Addresses :
           l.valid /\ ~l.dirty /\ SetOf(s.c, a) = set /\ Tag(s.c, a) = l.tag =>
             l.data[Offset(s.c, a)] = t.n[a],
         \A a \in Addresses : t.n[a] = s.n[a] \/ ~HeldElsewhere(s.c, a, set, w)
  PROVE  /\ Coherent(t)
         /\ \A a \in Addresses :
              IF l.valid /\ SetOf(s.c, a) = set /\ Tag(s.c, a) = l.tag
              THEN ViewAt(t, a) = l.data[Offset(s.c, a)]
              ELSE IF HeldElsewhere(s.c, a, set, w) THEN ViewAt(t, a) = ViewAt(s, a)
              ELSE ViewAt(t, a) = t.n[a]
<1>1. /\ s.c \in Levels(cfg)
      /\ t.c \in Levels(cfg)
      /\ s.c.cfg = cfg
      /\ t.c.cfg = cfg
  BY DEF States, Levels
<1>2. /\ Sets(s.c) = Sets(t.c)
      /\ Ways(s.c) = Ways(t.c)
      /\ \A a : SetOf(s.c, a) = SetOf(t.c, a)
      /\ \A a : Tag(s.c, a) = Tag(t.c, a)
      /\ \A a : Offset(s.c, a) = Offset(t.c, a)
  BY <1>1, SameSplit
<1>3. ASSUME NEW x \in Sets(s.c), NEW v \in Ways(s.c)
      PROVE  t.c.line[x][v] = IF x = set /\ v = w THEN l ELSE s.c.line[x][v]
  <2>1. s.c.line \in [Sets(s.c) -> [Ways(s.c) -> Lines(cfg)]]
    BY <1>1, LevelFacts
  <2> QED BY <2>1
<1>4. \A a \in Addresses : SetOf(s.c, a) \in Sets(s.c)
  BY <1>1, AddressTypes DEF Addresses
<1>5. ASSUME NEW a \in Addresses, NEW v
      PROVE  v \in Matching(t.c, SetOf(t.c, a), Tag(t.c, a)) <=>
               IF SetOf(s.c, a) = set /\ v = w
               THEN l.valid /\ Tag(s.c, a) = l.tag
               ELSE v \in Matching(s.c, SetOf(s.c, a), Tag(s.c, a))
  BY <1>2, <1>3, <1>4 DEF Matching
<1>6. Unique(t.c)
  <2> SUFFICES ASSUME NEW x \in Sets(t.c), NEW v \in Ways(t.c), NEW u \in Ways(t.c),
                      t.c.line[x][v].valid, t.c.line[x][u].valid,
                      t.c.line[x][v].tag = t.c.line[x][u].tag
               PROVE  v = u
    BY DEF Unique
  <2>1. /\ t.c.line[x][v] = IF x = set /\ v = w THEN l ELSE s.c.line[x][v]
        /\ t.c.line[x][u] = IF x = set /\ u = w THEN l ELSE s.c.line[x][u]
    BY <1>2, <1>3, SMTT(60)
  <2>2. CASE x = set /\ v = w
    BY <1>2, <2>1, <2>2 DEF Matching
  <2>3. CASE x = set /\ u = w
    BY <1>2, <2>1, <2>3, SMTT(60) DEF Matching
  <2>4. CASE ~(x = set /\ v = w) /\ ~(x = set /\ u = w)
    BY <1>2, <2>1, <2>4 DEF Coherent, Unique
  <2> QED BY <2>2, <2>3, <2>4, SMTT(60)
<1>7. DirtyWriteBack(t.c)
  <2> SUFFICES ASSUME NEW x \in Sets(t.c), NEW v \in Ways(t.c), t.c.line[x][v].dirty
               PROVE  cfg.write = "WriteBack"
    BY <1>1 DEF DirtyWriteBack
  <2>1. t.c.line[x][v] = IF x = set /\ v = w THEN l ELSE s.c.line[x][v]
    BY <1>2, <1>3
  <2> QED BY <1>1, <1>2, <2>1 DEF Coherent, DirtyWriteBack
<1>8. ASSUME NEW a \in Addresses, NEW v \in Matching(t.c, SetOf(t.c, a), Tag(t.c, a)),
             ~t.c.line[SetOf(t.c, a)][v].dirty
      PROVE  t.c.line[SetOf(t.c, a)][v].data[Offset(t.c, a)] = t.n[a]
  <2> DEFINE x == SetOf(s.c, a)
  <2>1. x \in Sets(s.c) /\ v \in Ways(s.c)
    BY <1>2, <1>4 DEF Matching
  <2>2. t.c.line[x][v] = IF x = set /\ v = w THEN l ELSE s.c.line[x][v]
    BY <1>3, <2>1
  <2>3. CASE x = set /\ v = w
    BY <1>2, <1>5, <1>8, <2>2, <2>3
  <2>4. CASE ~(x = set /\ v = w)
    <3>1. v \in Matching(s.c, x, Tag(s.c, a))
      BY <1>5, <2>4
    <3>2. ~s.c.line[x][v].dirty
      BY <1>2, <1>8, <2>2, <2>4
    <3>3. s.c.line[x][v].data[Offset(s.c, a)] = s.n[a]
      BY <3>1, <3>2 DEF Coherent, Clean
    <3>4. t.n[a] = s.n[a]
      BY <2>4, <3>1, SMTT(60) DEF HeldElsewhere
    <3> QED BY <1>2, <2>2, <2>4, <3>3, <3>4
  <2> QED BY <2>3, <2>4
<1>9. Coherent(t)
  BY <1>6, <1>7, <1>8 DEF Coherent, Clean
<1>10. ASSUME NEW a \in Addresses
       PROVE  IF l.valid /\ SetOf(s.c, a) = set /\ Tag(s.c, a) = l.tag
              THEN ViewAt(t, a) = l.data[Offset(s.c, a)]
              ELSE IF HeldElsewhere(s.c, a, set, w) THEN ViewAt(t, a) = ViewAt(s, a)
              ELSE ViewAt(t, a) = t.n[a]
  <2> DEFINE x == SetOf(s.c, a)
             M == Matching(s.c, x, Tag(s.c, a))
             N == Matching(t.c, SetOf(t.c, a), Tag(t.c, a))
  <2>1. \A v \in N : ViewAt(t, a) = t.c.line[x][v].data[Offset(s.c, a)]
    <3>1. \A v \in N :
             ViewAt(t, a) = t.c.line[SetOf(t.c, a)][v].data[Offset(t.c, a)]
      BY <1>6, ViewOfWay, Zenon
    <3>2. SetOf(t.c, a) = x /\ Offset(t.c, a) = Offset(s.c, a)
      BY <1>2
    <3> QED BY <3>1, <3>2, Zenon
  <2>2. N = {} => ViewAt(t, a) = t.n[a]
    BY <1>6, ViewOfWay
  <2>3. \A v \in M : ViewAt(s, a) = s.c.line[x][v].data[Offset(s.c, a)]
    BY ViewOfWay DEF Coherent
  <2>4. CASE l.valid /\ x = set /\ Tag(s.c, a) = l.tag
    <3>1. w \in N
      BY <1>5, <2>4
    <3>2. t.c.line[x][w] = l
      BY <1>3, <2>4
    <3> QED BY <2>1, <2>4, <3>1, <3>2
  <2>5. CASE ~(l.valid /\ x = set /\ Tag(s.c, a) = l.tag) /\ HeldElsewhere(s.c, a, set, w)
    <3>1. PICK v \in M : x # set \/ v # w
      BY <2>5, SMTT(60) DEF HeldElsewhere
    <3>2. v \in N /\ v \in Ways(s.c)
      BY <1>5, <3>1 DEF Matching
    <3>3. t.c.line[x][v] = s.c.line[x][v]
      BY <1>3, <1>4, <3>1, <3>2
    <3> QED BY <2>1, <2>3, <2>5, <3>1, <3>2, <3>3, SMTT(60)
  <2>6. CASE /\ ~(l.valid /\ x = set /\ Tag(s.c, a) = l.tag)
             /\ ~HeldElsewhere(s.c, a, set, w)
    <3>1. N = {}
      BY <1>5, <2>6 DEF HeldElsewhere
    <3> QED BY <2>2, <2>6, <3>1
  <2> QED BY <2>4, <2>5, <2>6
<1> QED BY <1>9, <1>10

-----------------------------------------------------------------------------
(* The steps of a miss. *)

\* Writing a dirty line back changes neither coherence nor the view.
LEMMA WriteBackCoherent ==
  ASSUME NEW cfg, GeometryOK(cfg), NEW s \in States(cfg), Coherent(s),
         NEW set \in Sets(s.c), NEW w \in Ways(s.c)
  PROVE  LET t == WriteBack(s, set, w)
         IN  /\ Coherent(t)
             /\ SameView(s, t)
             /\ t.c.line[set][w].valid => ~t.c.line[set][w].dirty
             /\ \A x \in Sets(s.c) : \A tag : Matching(t.c, x, tag) = Matching(s.c, x, tag)
<1> DEFINE k == s.c.line[set][w]
           l == [k EXCEPT !.dirty = FALSE]
           below == MemWrite(s.n, LineStart(s.c, set, k.tag), k.data)
           t == WriteBack(s, set, w)
<1>1. /\ s.c \in Levels(cfg)
      /\ s.n \in [Addresses -> Values]
      /\ s.c.cfg = cfg
      /\ s.c.line \in [Sets(s.c) -> [Ways(s.c) -> Lines(cfg)]]
  BY LevelFacts DEF States
<1>2. k \in Lines(cfg) /\ k.tag \in Nat /\ k.data \in [0 .. cfg.size - 1 -> Values]
  BY <1>1 DEF Lines
<1>3. CASE ~(k.valid /\ k.dirty)
  <2>1. WriteBack(s, set, w) = s
    BY <1>3, Zenon DEF WriteBack
  <2> QED BY <1>3, <2>1 DEF SameView
<1>4. CASE k.valid /\ k.dirty
  <2>1. t = [s EXCEPT !.n = below, !.c.line[set][w].dirty = FALSE]
    BY <1>4 DEF WriteBack, MemOk
  <2>2. /\ t.n = below
        /\ t.c.cfg = s.c.cfg
        /\ t.c.line = [s.c.line EXCEPT ![set][w] = l]
    <3> HIDE DEF t, below
    <3> QED BY <1>1, <2>1 DEF States, Levels
  <2>3. t \in States(cfg)
    BY WriteBackType
  <2>4. l \in Lines(cfg) /\ l.valid /\ ~l.dirty /\ l.tag = k.tag /\ l.data = k.data
    <3> HIDE DEF k
    <3> QED BY <1>2, <1>4 DEF Lines
  <2>5. \A v \in Matching(s.c, set, l.tag) : v = w
    BY <1>4, <2>4, SMTT(60) DEF Coherent, Unique, Matching
  <2>6. ASSUME NEW a \in Addresses
        PROVE  t.n[a] = IF SetOf(s.c, a) = set /\ Tag(s.c, a) = l.tag
                        THEN l.data[Offset(s.c, a)] ELSE s.n[a]
    BY <1>1, <1>2, <2>2, <2>4, MemWriteLine, SMTT(60)
  <2>7. \A a \in Addresses : t.n[a] = s.n[a] \/ ~HeldElsewhere(s.c, a, set, w)
    BY <2>5, <2>6 DEF HeldElsewhere
  <2>8. \A a \in Addresses :
           l.valid /\ ~l.dirty /\ SetOf(s.c, a) = set /\ Tag(s.c, a) = l.tag =>
             l.data[Offset(s.c, a)] = t.n[a]
    BY <2>6
  <2> HIDE DEF l, t, k, below
  <2>9. /\ Coherent(t)
        /\ \A a \in Addresses :
             IF l.valid /\ SetOf(s.c, a) = set /\ Tag(s.c, a) = l.tag
             THEN ViewAt(t, a) = l.data[Offset(s.c, a)]
             ELSE IF HeldElsewhere(s.c, a, set, w) THEN ViewAt(t, a) = ViewAt(s, a)
             ELSE ViewAt(t, a) = t.n[a]
    BY <2>2, <2>3, <2>4, <2>5, <2>7, <2>8, ReplaceLine
  <2>10. ASSUME NEW a \in Addresses
         PROVE  ViewAt(t, a) = ViewAt(s, a)
    <3> DEFINE M == Matching(s.c, SetOf(s.c, a), Tag(s.c, a))
    <3>1. /\ \A v \in M : ViewAt(s, a) = s.c.line[SetOf(s.c, a)][v].data[Offset(s.c, a)]
          /\ M = {} => ViewAt(s, a) = s.n[a]
      BY ViewOfWay DEF Coherent
    <3>2. CASE SetOf(s.c, a) = set /\ Tag(s.c, a) = l.tag
      <4>1. w \in M
        BY <1>4, <2>4, <3>2 DEF Matching, k
      <4> QED BY <2>4, <2>9, <3>1, <3>2, <4>1 DEF k
    <3>3. CASE ~(SetOf(s.c, a) = set /\ Tag(s.c, a) = l.tag) /\ HeldElsewhere(s.c, a, set, w)
      BY <2>9, <3>3
    <3>4. CASE ~(SetOf(s.c, a) = set /\ Tag(s.c, a) = l.tag) /\ ~HeldElsewhere(s.c, a, set, w)
      <4>1. M = {}
        BY <2>4, <3>4 DEF HeldElsewhere, Matching, k
      <4>2. ViewAt(t, a) = t.n[a] /\ t.n[a] = s.n[a]
        BY <2>6, <2>9, <3>4
      <4> QED BY <3>1, <4>1, <4>2
    <3> QED BY <3>2, <3>3, <3>4
  <2>11. t.c.line[set][w] = l
    BY <1>1, <2>2
  <2>12. ASSUME NEW x \in Sets(s.c), NEW tag
         PROVE  Matching(t.c, x, tag) = Matching(s.c, x, tag)
    <3>1. Ways(t.c) = Ways(s.c)
      BY <2>2 DEF Ways
    <3>2. \A v \in Ways(s.c) : /\ t.c.line[x][v].valid <=> s.c.line[x][v].valid
                               /\ t.c.line[x][v].tag = s.c.line[x][v].tag
      BY <1>1, <1>4, <2>2, <2>4 DEF k
    <3> QED BY <3>1, <3>2 DEF Matching
  <2> QED BY <2>4, <2>9, <2>10, <2>11, <2>12 DEF SameView, t
<1> QED BY <1>3, <1>4

\* A clean line can be invalidated.
LEMMA InvalidateCoherent ==
  ASSUME NEW cfg, GeometryOK(cfg), NEW s \in States(cfg), Coherent(s),
         NEW set \in Sets(s.c), NEW w \in Ways(s.c), ~s.c.line[set][w].dirty
  PROVE  LET t == [s EXCEPT !.c.line[set][w].valid = FALSE]
         IN  /\ t \in States(cfg)
             /\ Coherent(t)
             /\ SameView(s, t)
             /\ ~t.c.line[set][w].valid
             /\ \A x \in Sets(s.c) : \A tag : Matching(t.c, x, tag) \subseteq Matching(s.c, x, tag)
<1> DEFINE k == s.c.line[set][w]
           l == [k EXCEPT !.valid = FALSE]
           t == [s EXCEPT !.c.line[set][w].valid = FALSE]
<1>1. /\ s.c \in Levels(cfg)
      /\ s.c.cfg = cfg
      /\ s.c.line \in [Sets(s.c) -> [Ways(s.c) -> Lines(cfg)]]
  BY LevelFacts DEF States
<1>2. k \in Lines(cfg)
  BY <1>1
<1>3. l \in Lines(cfg) /\ ~l.valid /\ ~l.dirty
  <2> HIDE DEF k
  <2>1. ~k.dirty
    BY DEF k
  <2> QED BY <1>2, <2>1 DEF Lines
<1>4. t = [s EXCEPT !.c.line[set][w] = l]
  BY <1>1 DEF States, Levels
<1>5. t \in States(cfg)
  <2> HIDE DEF l, t
  <2> QED BY <1>3, <1>4, LineUpdateType
<1>6. /\ t.n = s.n
      /\ t.c.cfg = s.c.cfg
      /\ t.c.line = [s.c.line EXCEPT ![set][w] = l]
  <2> HIDE DEF l, t
  <2> QED BY <1>1, <1>4 DEF States, Levels
<1> HIDE DEF l, t, k
<1>7. /\ Coherent(t)
      /\ \A a \in Addresses :
           IF HeldElsewhere(s.c, a, set, w) THEN ViewAt(t, a) = ViewAt(s, a)
           ELSE ViewAt(t, a) = t.n[a]
  BY <1>3, <1>5, <1>6, ReplaceLine
<1>8. ASSUME NEW a \in Addresses
      PROVE  ViewAt(t, a) = ViewAt(s, a)
  <2> DEFINE M == Matching(s.c, SetOf(s.c, a), Tag(s.c, a))
  <2>1. /\ \A v \in M : ViewAt(s, a) = s.c.line[SetOf(s.c, a)][v].data[Offset(s.c, a)]
        /\ M = {} => ViewAt(s, a) = s.n[a]
    BY ViewOfWay DEF Coherent
  <2>2. CASE HeldElsewhere(s.c, a, set, w)
    BY <1>7, <2>2
  <2>3. CASE ~HeldElsewhere(s.c, a, set, w)
    <3>1. ViewAt(t, a) = s.n[a]
      BY <1>6, <1>7, <2>3
    <3>2. \A v \in M : SetOf(s.c, a) = set /\ v = w
      BY <2>3 DEF HeldElsewhere
    <3>3. w \in M /\ SetOf(s.c, a) = set =>
            s.c.line[set][w].data[Offset(s.c, a)] = s.n[a]
      BY DEF Coherent, Clean
    <3> QED BY <2>1, <3>1, <3>2, <3>3
  <2> QED BY <2>2, <2>3
<1>9. t.c.line[set][w] = l
  BY <1>1, <1>6
<1>10. ASSUME NEW x \in Sets(s.c), NEW tag
       PROVE  Matching(t.c, x, tag) \subseteq Matching(s.c, x, tag)
  <2>1. Ways(t.c) = Ways(s.c)
    BY <1>6 DEF Ways
  <2>2. \A v \in Ways(s.c) : t.c.line[x][v].valid =>
           s.c.line[x][v].valid /\ t.c.line[x][v].tag = s.c.line[x][v].tag
    BY <1>1, <1>3, <1>6
  <2> QED BY <2>1, <2>2 DEF Matching
<1> QED BY <1>3, <1>5, <1>7, <1>8, <1>9, <1>10 DEF SameView, t

\* Steps that keep coherence and the view, and bring no address in.
Harmless(s, t) ==
  /\ Coherent(t)
  /\ SameView(s, t)
  /\ \A x \in Sets(s.c) : \A tag : Matching(t.c, x, tag) \subseteq Matching(s.c, x, tag)

\* Two harmless steps are harmless together.
LEMMA HarmlessTransitive ==
  ASSUME NEW s, NEW t, NEW u, Harmless(s, t), Harmless(t, u), Sets(t.c) = Sets(s.c)
  PROVE  Harmless(s, u)
BY DEF Harmless, SameView

\* Eviction loses nothing, and makes room unless it fails.
LEMMA EvictCoherent ==
  ASSUME NEW cfg, GeometryOK(cfg), NEW s \in States(cfg), Coherent(s), NEW set \in Sets(s.c)
  PROVE  /\ Harmless(s, Evict(s, set))
         /\ Ok(Evict(s, set)) => ~Evict(s, set).c.line[set][EvictWay(s, set)].valid
<1> DEFINE w  == EvictWay(s, set)
           s1 == IF s.c.cfg.write = "WriteBack" THEN WriteBack(s, set, w) ELSE s
           t  == Evict(s, set)
<1>1. s.c \in Levels(cfg) /\ s.c.cfg = cfg
  BY DEF States, Levels
<1>2. CASE w \notin Ways(s.c)
  <2>1. t = [s EXCEPT !.err = "script"]
    BY <1>2 DEF Evict
  <2>2. t.c = s.c /\ t.n = s.n /\ t.err = "script"
    BY <2>1 DEF States
  <2>3. Coherent(s) <=> Coherent(t)
    BY <2>2, SameLines
  <2>4. SameView(s, t)
    BY <2>2, SameLines
  <2> QED BY <2>2, <2>3, <2>4 DEF Harmless, Ok
<1>3. CASE w \in Ways(s.c)
  <2>1. /\ Harmless(s, s1)
        /\ s1.c.line[set][w].valid => ~s1.c.line[set][w].dirty
        /\ \A x \in Sets(s.c) : \A tag : Matching(s1.c, x, tag) = Matching(s.c, x, tag)
    <3>1. CASE cfg.write = "WriteBack"
      <4> DEFINE u == WriteBack(s, set, w)
      <4>1. s1 = u
        BY <1>1, <3>1
      <4>2. /\ Coherent(u)
            /\ SameView(s, u)
            /\ u.c.line[set][w].valid => ~u.c.line[set][w].dirty
            /\ \A x \in Sets(s.c) : \A tag : Matching(u.c, x, tag) = Matching(s.c, x, tag)
        BY <1>3, WriteBackCoherent, Zenon
      <4> HIDE DEF w, u, s1
      <4> QED BY <4>1, <4>2 DEF Harmless
    <3>2. CASE cfg.write # "WriteBack"
      <4>1. s1 = s
        BY <1>1, <3>2
      <4>2. ~s.c.line[set][w].dirty
        BY <1>1, <1>3, <3>2 DEF Coherent, DirtyWriteBack
      <4> QED BY <4>1, <4>2 DEF Harmless, SameView
    <3> QED BY <3>1, <3>2
  <2>2. s1 \in States(cfg)
    BY <1>3, WriteBackType
  <2>3. Sets(s1.c) = Sets(s.c) /\ Ways(s1.c) = Ways(s.c)
    BY <1>1, <2>2, LevelFacts DEF States
  <2>4. CASE Free(s.c, set) # {}
    <3>1. w \in Free(s.c, set)
      <4>1. Free(s.c, set) \in SUBSET Nat
        BY <1>1, LevelFacts, GeometryFacts DEF Free
      <4>2. Least(Free(s.c, set)) \in Free(s.c, set)
        BY <2>4, <4>1, LeastIsLeast
      <4> QED BY <2>4, <4>2 DEF EvictWay
    <3>2. ~s.c.line[set][w].valid
      BY <3>1 DEF Free
    <3>3. WriteBack(s, set, w) = s
      BY <3>2, Zenon DEF WriteBack
    <3>4. t = s1 /\ s1 = s
      BY <1>3, <2>4, <3>3 DEF Evict
    <3> QED BY <2>1, <3>2, <3>4
  <2>5. CASE Free(s.c, set) = {}
    <3>1. s.c.line[set][w].valid
      BY <1>3, <2>5 DEF Free
    <3>2. w \in Matching(s1.c, set, s.c.line[set][w].tag)
      <4>1. w \in Matching(s.c, set, s.c.line[set][w].tag)
        BY <1>3, <3>1, SMTT(60) DEF Matching
      <4> HIDE DEF w, s1
      <4> QED BY <2>1, <4>1
    <3>3. ~s1.c.line[set][w].dirty
      BY <2>1, <3>2 DEF Matching
    <3>4. CASE ~Ok(s1)
      <4>1. t = s1
        BY <1>3, <3>4 DEF Evict
      <4> QED BY <2>1, <3>4, <4>1
    <3>5. CASE Ok(s1)
      <4>1. t = [s1 EXCEPT !.c.line[set][w].valid = FALSE]
        BY <1>3, <2>5, <3>5, SMTT(60) DEF Evict
      <4> HIDE DEF s1, t, w
      <4>2. Harmless(s1, t) /\ ~t.c.line[set][w].valid
        BY <1>3, <2>1, <2>2, <2>3, <3>3, <4>1, InvalidateCoherent DEF Harmless
      <4>3. Harmless(s, t)
        BY <2>1, <2>3, <4>2, HarmlessTransitive
      <4> QED BY <4>2, <4>3 DEF t, w
    <3> QED BY <3>4, <3>5
  <2> QED BY <2>4, <2>5
<1> QED BY <1>2, <1>3

\* Bringing an absent line in leaves the view as it is.
LEMMA BringInCoherent ==
  ASSUME NEW cfg, GeometryOK(cfg), NEW s \in States(cfg), Coherent(s),
         NEW a \in Addresses, NEW w \in Ways(s.c), ~Resident(s.c, a),
         ~s.c.line[SetOf(s.c, a)][w].valid
  PROVE  /\ Coherent(BringIn(s, a, w))
         /\ SameView(s, BringIn(s, a, w))
         /\ Resident(BringIn(s, a, w).c, a)
<1> DEFINE set  == SetOf(s.c, a)
           data == Fetched(s, a)
           l    == FetchedLine(s, a)
           t    == BringIn(s, a, w)
<1>1. /\ s.c \in Levels(cfg)
      /\ s.n \in [Addresses -> Values]
      /\ s.c.cfg = cfg
      /\ s.c.line \in [Sets(s.c) -> [Ways(s.c) -> Lines(cfg)]]
      /\ a \in Nat
  BY LevelFacts DEF States, Addresses
<1>2. set \in Sets(s.c) /\ Tag(s.c, a) \in Nat
  BY <1>1, AddressTypes
<1>3. data \in [0 .. cfg.size - 1 -> Values]
  <2>1. \A i \in 0 .. cfg.size - 1 : Aligned(s.c, a) + i \in Addresses
    BY <1>1, LineInMemory, LevelFacts, ZenonT(60)
  <2> QED BY <1>1, <2>1 DEF Fetched
<1>4. l \in Lines(cfg)
  <2> HIDE DEF data
  <2> QED BY <1>2, <1>3 DEF Lines, FetchedLine, data
<1>5. /\ t.n = s.n
      /\ t.c.cfg = s.c.cfg
      /\ t.c.line = [s.c.line EXCEPT ![set][w] = l]
  <2> DEFINE d == WithLine(s.c, set, w, l)
             u == [s EXCEPT !.c = d]
  <2>1. d.cfg = s.c.cfg /\ d.line = [s.c.line EXCEPT ![set][w] = l]
    <3> HIDE DEF l, set
    <3> QED BY <1>1 DEF WithLine, Levels
  <2>2. t = u \/ t = [u EXCEPT !.err = "script"]
    BY BringInIs, Zenon
  <2> HIDE DEF d
  <2>3. /\ u.c = d /\ u.n = s.n
        /\ [u EXCEPT !.err = "script"].c = d
        /\ [u EXCEPT !.err = "script"].n = s.n
    BY DEF States
  <2> HIDE DEF t, u
  <2> QED BY <2>1, <2>2, <2>3
<1>6. t \in States(cfg)
  BY BringInType
<1>7. \A x, tag : Matching(s.c, x, tag) =
                    {v \in Ways(s.c) : s.c.line[x][v].valid /\ s.c.line[x][v].tag = tag}
  BY DEF Matching
<1>8. /\ l.valid /\ ~l.dirty /\ l.tag = Tag(s.c, a)
      /\ \A v \in Matching(s.c, set, l.tag) : v = w
  BY DEF Resident, FetchedLine
<1>9. ASSUME NEW b \in Addresses, SetOf(s.c, b) = set, Tag(s.c, b) = Tag(s.c, a)
      PROVE  l.data[Offset(s.c, b)] = s.n[b]
  <2>1. b \in Nat /\ Offset(s.c, b) \in 0 .. cfg.size - 1
    <3>1. b \in Nat
      BY DEF Addresses
    <3> QED BY <1>1, <3>1, AddressTypes, Zenon
  <2>2. Aligned(s.c, a) = Aligned(s.c, b)
    BY <1>1, <1>9, <2>1, LineStartAligned, Zenon
  <2>3. Aligned(s.c, b) + Offset(s.c, b) = b
    BY <1>1, <2>1 DEF Aligned
  <2>4. l.data[Offset(s.c, b)] = s.n[Aligned(s.c, a) + Offset(s.c, b)]
    BY <1>1, <2>1 DEF FetchedLine, Fetched
  <2> QED BY <2>2, <2>3, <2>4
<1> HIDE DEF l, t
<1>10. /\ Coherent(t)
       /\ \A b \in Addresses :
            IF l.valid /\ SetOf(s.c, b) = set /\ Tag(s.c, b) = l.tag
            THEN ViewAt(t, b) = l.data[Offset(s.c, b)]
            ELSE IF HeldElsewhere(s.c, b, set, w) THEN ViewAt(t, b) = ViewAt(s, b)
            ELSE ViewAt(t, b) = t.n[b]
  BY <1>2, <1>4, <1>5, <1>6, <1>8, <1>9, ReplaceLine, SMTT(60)
<1>11. ASSUME NEW b \in Addresses
       PROVE  ViewAt(t, b) = ViewAt(s, b)
  <2> DEFINE M == Matching(s.c, SetOf(s.c, b), Tag(s.c, b))
  <2>1. M = {} => ViewAt(s, b) = s.n[b]
    BY ViewOfWay DEF Coherent
  <2>2. CASE SetOf(s.c, b) = set /\ Tag(s.c, b) = Tag(s.c, a)
    BY <1>8, <1>9, <1>10, <2>1, <2>2 DEF Resident
  <2>3. CASE ~(SetOf(s.c, b) = set /\ Tag(s.c, b) = Tag(s.c, a))
             /\ HeldElsewhere(s.c, b, set, w)
    BY <1>8, <1>10, <2>3
  <2>4. CASE ~(SetOf(s.c, b) = set /\ Tag(s.c, b) = Tag(s.c, a))
             /\ ~HeldElsewhere(s.c, b, set, w)
    <3>1. M = {}
      BY <2>4, SMTT(60) DEF HeldElsewhere, Matching
    <3> QED BY <1>5, <1>8, <1>10, <2>1, <2>4, <3>1
  <2> QED BY <2>2, <2>3, <2>4
<1>12. Resident(t.c, a)
  <2>1. t.c.line[set][w] = l
    BY <1>1, <1>2, <1>5
  <2>2. SetOf(t.c, a) = set /\ Tag(t.c, a) = Tag(s.c, a) /\ Ways(t.c) = Ways(s.c)
    BY <1>5, SameSplit, SMTT(60)
  <2> QED BY <1>8, <2>1, <2>2 DEF Resident, Matching
<1> QED BY <1>10, <1>11, <1>12 DEF SameView, t

\* A miss that fills a line leaves the view as it is, and the line in place.
LEMMA FillCoherent ==
  ASSUME NEW cfg, GeometryOK(cfg), NEW s \in States(cfg), Coherent(s),
         NEW a \in Addresses, ~Resident(s.c, a)
  PROVE  /\ Coherent(Fill(s, a))
         /\ SameView(s, Fill(s, a))
         /\ Ok(Fill(s, a)) => Resident(Fill(s, a).c, a)
<1> DEFINE s1 == Evict(s, SetOf(s.c, a))
           w  == EvictWay(s, SetOf(s.c, a))
<1>1. s.c \in Levels(cfg) /\ s.c.cfg = cfg /\ a \in Nat
  BY DEF States, Addresses, Levels
<1>2. SetOf(s.c, a) \in Sets(s.c)
  BY <1>1, AddressTypes
<1>3. s1 \in States(cfg) /\ (Ok(s1) => w \in Ways(s.c))
  BY <1>2, EvictType
<1>4. Harmless(s, s1) /\ (Ok(s1) => ~s1.c.line[SetOf(s.c, a)][w].valid)
  BY <1>2, EvictCoherent
<1>5. /\ SetOf(s1.c, a) = SetOf(s.c, a)
      /\ Tag(s1.c, a) = Tag(s.c, a)
      /\ Ways(s1.c) = Ways(s.c)
  <2>1. s1.c.cfg = cfg
    BY <1>3 DEF States, Levels
  <2> QED BY <1>1, <2>1, SameSplit
<1> HIDE DEF s1, w
<1>6. ~Resident(s1.c, a)
  BY <1>2, <1>4, <1>5 DEF Harmless, Resident
<1>7. CASE Ok(s1)
  <2>1. Fill(s, a) = BringIn(s1, a, w)
    BY <1>7 DEF Fill, s1, w
  <2>2. /\ Coherent(BringIn(s1, a, w))
        /\ SameView(s1, BringIn(s1, a, w))
        /\ Resident(BringIn(s1, a, w).c, a)
    BY <1>3, <1>4, <1>5, <1>6, <1>7, BringInCoherent DEF Harmless
  <2> QED BY <1>4, <2>1, <2>2, ViewTransitive DEF Harmless
<1>8. CASE ~Ok(s1)
  <2>1. Fill(s, a) = s1
    BY <1>8 DEF Fill, s1
  <2> QED BY <1>4, <1>8, <2>1 DEF Harmless
<1> QED BY <1>7, <1>8

-----------------------------------------------------------------------------
(* Accesses that stay within a line. *)

Within(c, a, len) == \A i \in 0 .. len - 1 : Block(c, a + i) = Block(c, a)

\* Division by a positive number is monotone.
LEMMA DivMonotone ==
  ASSUME NEW n \in Nat \ {0}, NEW a \in Nat, NEW b \in Nat, a <= b
  PROVE  a \div n <= b \div n
<1> DEFINE p == a \div n
           q == b \div n
           r == a % n
           t == b % n
<1>1. /\ p \in Nat /\ r \in 0 .. n - 1 /\ a = n * p + r
      /\ q \in Nat /\ t \in 0 .. n - 1 /\ b = n * q + t
  BY DivMod, Zenon
<1> HIDE DEF p, q, r, t
<1>2. CASE p = q
  BY <1>1, <1>2
<1>3. CASE p # q
  <2>1. n * p + n <= n * q
    BY <1>1, <1>3, NextLineAbove
  <2>2. n * p <= n * q
    <3>1. n * p \in Nat /\ n * q \in Nat
      BY <1>1
    <3> QED BY <2>1, <3>1
  <2>3. ~(q < p)
    BY <1>1, <2>1
  <2> QED BY <1>1, <2>3
<1> QED BY <1>2, <1>3 DEF p, q

\* Without spanning, every access lies within one line.
LEMMA AccessWithin ==
  ASSUME NoSpanning, NEW cfg, GeometryOK(cfg), NEW c \in Levels(cfg), NEW acc \in Accesses
  PROVE  /\ Within(c, acc[1], acc[2])
         /\ ~Spans(c, acc[1], acc[2])
<1> DEFINE a == acc[1]
           len == acc[2]
           n == cfg.size
<1>1. a \in Nat /\ len \in Nat \ {0}
  BY AccessesAssumption
<1>2. n \in Nat \ {0} /\ c.cfg = cfg
  BY GeometryFacts, LevelFacts
<1>3. a \div n = (a + len - 1) \div n
  BY DEF NoSpanning, GeometryOK
<1> HIDE DEF a, len, n
<1>4. ASSUME NEW i \in 0 .. len - 1
      PROVE  (a + i) \div n = a \div n
  <2> DEFINE p == a \div n
             q == (a + i) \div n
             e == a + len - 1
             x == a + i
  <2>1. x \in Nat /\ e \in Nat /\ a <= x /\ x <= e
    BY <1>1
  <2> HIDE DEF e, x
  <2>2. a \div n <= x \div n /\ x \div n <= e \div n
    BY <1>1, <1>2, <2>1, DivMonotone
  <2>3. a \div n \in Nat /\ x \div n \in Nat
    BY <1>1, <1>2, <2>1, DivMod
  <2>4. e \div n = a \div n
    BY <1>3 DEF e
  <2>5. x \div n = a \div n
    BY <2>2, <2>3, <2>4
  <2> QED BY <2>5 DEF x
<1> QED BY <1>2, <1>3, <1>4 DEF Within, Spans, Block, a, len, n

\* All cells of such an access have the set and tag of the first.
LEMMA WithinFacts ==
  ASSUME NEW cfg, GeometryOK(cfg), NEW c \in Levels(cfg), NEW a \in Nat, NEW len \in Nat,
         Within(c, a, len), NEW i \in 0 .. len - 1
  PROVE  /\ SetOf(c, a + i) = SetOf(c, a)
         /\ Tag(c, a + i) = Tag(c, a)
         /\ Offset(c, a + i) = Offset(c, a) + i
         /\ Resident(c, a + i) <=> Resident(c, a)
<1>1. Block(c, a + i) = Block(c, a)
  BY DEF Within
<1>2. SetOf(c, a + i) = SetOf(c, a) /\ Tag(c, a + i) = Tag(c, a)
  BY <1>1 DEF SetOf, Tag
<1>3. Offset(c, a + i) = Offset(c, a) + i
  <2> DEFINE x == a + i
             k == cfg.size * Block(c, a)
  <2>1. x \in Nat
    OBVIOUS
  <2> HIDE DEF x
  <2>2. /\ a = cfg.size * Block(c, a) + Offset(c, a)
        /\ Offset(c, a) \in 0 .. cfg.size - 1
        /\ Block(c, a) \in Nat
    BY AddressTypes, Zenon
  <2>3. /\ x = cfg.size * Block(c, x) + Offset(c, x)
        /\ Offset(c, x) \in 0 .. cfg.size - 1
    BY <2>1, AddressTypes, ZenonT(60)
  <2>4. cfg.size \in Nat
    BY GeometryFacts
  <2>5. k \in Nat
    BY <2>2, <2>4
  <2>6. Block(c, x) = Block(c, a)
    BY <1>1 DEF x
  <2>7. a = k + Offset(c, a) /\ x = k + Offset(c, x)
    BY <2>2, <2>3, <2>6, Zenon
  <2> HIDE DEF k
  <2>8. x = a + i
    BY DEF x
  <2>9. Offset(c, x) = Offset(c, a) + i
    BY <2>2, <2>3, <2>4, <2>5, <2>7, <2>8
  <2> QED BY <2>9 DEF x
<1> QED BY <1>2, <1>3 DEF Resident

\* An access within a line hits when its first cell is resident.
LEMMA WithinHit ==
  ASSUME NEW cfg, GeometryOK(cfg), NEW c \in Levels(cfg), NEW a \in Nat,
         NEW len \in Nat \ {0}, Within(c, a, len)
  PROVE  IsHit(c, a, len) <=> Resident(c, a)
<1>1. 0 \in 0 .. len - 1 /\ a + 0 = a
  OBVIOUS
<1>2. \A i \in 0 .. len - 1 : Resident(c, a + i) <=> Resident(c, a)
  BY WithinFacts
<1> QED BY <1>1, <1>2, Zenon DEF IsHit

\* Two addresses of one line are as far apart as their offsets.
LEMMA SameLineDistance ==
  ASSUME NEW cfg, GeometryOK(cfg), NEW c \in Levels(cfg), NEW a \in Nat, NEW b \in Nat,
         SetOf(c, a) = SetOf(c, b), Tag(c, a) = Tag(c, b)
  PROVE  b - a = Offset(c, b) - Offset(c, a)
<1>1. Aligned(c, a) = Aligned(c, b)
  BY LineStartAligned, Zenon
<1>2. /\ Offset(c, a) \in 0 .. cfg.size - 1
      /\ Offset(c, b) \in 0 .. cfg.size - 1
  BY AddressTypes, Zenon
<1>3. cfg.size \in Nat
  BY GeometryFacts
<1> QED BY <1>1, <1>2, <1>3 DEF Aligned

-----------------------------------------------------------------------------
(* What an access does. *)

\* The line of a level after a store to it.
Stored(c, a, data, len) ==
  LET k == c.line[SetOf(c, a)][WayOf(c, a)]
  IN  [k EXCEPT !.dirty = (c.cfg.write = "WriteBack"),
                !.data  = [o \in Offsets(c) |->
                             IF o - Offset(c, a) \in 0 .. len - 1
                             THEN data[o - Offset(c, a)] ELSE k.data[o]]]

\* A store that stays within a line changes that line only.
LEMMA PutBytesWithin ==
  ASSUME NEW cfg, GeometryOK(cfg), NEW c \in Levels(cfg), NEW a \in Nat,
         NEW len \in Nat \ {0}, Within(c, a, len), Resident(c, a),
         NEW data \in [0 .. len - 1 -> Values]
  PROVE  PutBytes(c, a, data, len) =
           [c EXCEPT !.line[SetOf(c, a)][WayOf(c, a)] = Stored(c, a, data, len)]
<1> DEFINE set == SetOf(c, a)
           w   == WayOf(c, a)
           k   == c.line[set][w]
           put(x, v) ==
             IF Landing(c, a, len, x, v) = {} THEN c.line[x][v]
             ELSE [c.line[x][v] EXCEPT
                     !.dirty = (c.cfg.write = "WriteBack"),
                     !.data  = [o \in Offsets(c) |->
                        IF \E i \in Landing(c, a, len, x, v) : Offset(c, a + i) = o
                        THEN data[CHOOSE i \in Landing(c, a, len, x, v) :
                                    Offset(c, a + i) = o]
                        ELSE c.line[x][v].data[o]]]
<1>1. /\ c.line \in [Sets(c) -> [Ways(c) -> Lines(cfg)]]
      /\ set \in Sets(c)
      /\ w \in Ways(c)
      /\ Offset(c, a) \in Nat
      /\ Offsets(c) \subseteq Nat
  <2>1. w \in Ways(c)
    BY WayOfResident DEF Matching
  <2>2. Offset(c, a) \in Nat /\ Offsets(c) \subseteq Nat
    BY AddressTypes DEF Offsets
  <2> QED BY <2>1, <2>2, LevelFacts, AddressTypes
<1>2. ASSUME NEW i \in 0 .. len - 1
      PROVE  /\ SetOf(c, a + i) = set
             /\ WayOf(c, a + i) = w
             /\ Offset(c, a + i) = Offset(c, a) + i
  BY WithinFacts, ZenonT(60) DEF WayOf
<1>3. ASSUME NEW x, NEW v
      PROVE  Landing(c, a, len, x, v) = IF x = set /\ v = w THEN 0 .. len - 1 ELSE {}
  BY <1>2 DEF Landing
<1>4. put(set, w) = Stored(c, a, data, len)
  <2>1. Landing(c, a, len, set, w) = 0 .. len - 1 /\ 0 .. len - 1 # {}
    BY <1>3
  <2>2. ASSUME NEW o \in Offsets(c)
        PROVE  (IF \E i \in 0 .. len - 1 : Offset(c, a + i) = o
                THEN data[CHOOSE i \in 0 .. len - 1 : Offset(c, a + i) = o]
                ELSE k.data[o])
               = IF o - Offset(c, a) \in 0 .. len - 1
                 THEN data[o - Offset(c, a)] ELSE k.data[o]
    <3>1. ASSUME NEW i \in 0 .. len - 1
          PROVE  Offset(c, a + i) = o <=> i = o - Offset(c, a)
      BY <1>1, <1>2
    <3>2. CASE o - Offset(c, a) \in 0 .. len - 1
      <4>1. (CHOOSE i \in 0 .. len - 1 : Offset(c, a + i) = o) = o - Offset(c, a)
        BY <3>1, <3>2
      <4> QED BY <3>1, <3>2, <4>1
    <3>3. CASE ~(o - Offset(c, a) \in 0 .. len - 1)
      BY <3>1, <3>3
    <3> QED BY <3>2, <3>3
  <2> DEFINE f == [o \in Offsets(c) |->
                     IF \E i \in 0 .. len - 1 : Offset(c, a + i) = o
                     THEN data[CHOOSE i \in 0 .. len - 1 : Offset(c, a + i) = o]
                     ELSE k.data[o]]
             g == [o \in Offsets(c) |->
                     IF o - Offset(c, a) \in 0 .. len - 1
                     THEN data[o - Offset(c, a)] ELSE k.data[o]]
             wb == c.cfg.write = "WriteBack"
  <2>3. f = g
    BY <2>2, Zenon
  <2>4. put(set, w) = [k EXCEPT !.dirty = wb, !.data = f]
    BY <2>1, Zenon
  <2>5. Stored(c, a, data, len) = [k EXCEPT !.dirty = wb, !.data = g]
    BY DEF Stored
  <2> HIDE DEF f, g, put, wb
  <2> QED BY <2>3, <2>4, <2>5, Zenon
<1>5. PutBytes(c, a, data, len) =
        [c EXCEPT !.line = [x \in Sets(c) |-> [v \in Ways(c) |-> put(x, v)]]]
  BY Zenon DEF PutBytes
<1>6. ASSUME NEW x, NEW v, ~(x = set /\ v = w)
      PROVE  put(x, v) = c.line[x][v]
  <2>1. Landing(c, a, len, x, v) = {}
    BY <1>3, <1>6
  <2> QED BY <2>1, Zenon
<1> HIDE DEF put
<1>7. [x \in Sets(c) |-> [v \in Ways(c) |-> put(x, v)]] =
        [c.line EXCEPT ![set][w] = Stored(c, a, data, len)]
  BY <1>1, <1>4, <1>6, SMTT(60)
<1>8. PutBytes(c, a, data, len) =
        [c EXCEPT !.line = [c.line EXCEPT ![set][w] = Stored(c, a, data, len)]]
  BY <1>5, <1>7, Zenon
<1> QED BY <1>8 DEF Levels

\* A store to a resident line: the view changes where it should.
LEMMA StoreCoherent ==
  ASSUME NEW cfg, GeometryOK(cfg), NEW s \in States(cfg), Coherent(s), Ok(s),
         NEW a \in Nat, NEW len \in Nat \ {0}, Within(s.c, a, len), Resident(s.c, a),
         NEW data \in [0 .. len - 1 -> Values]
  PROVE  /\ Coherent(Store(s, a, data, len))
         /\ Store(s, a, data, len).err = s.err
         /\ \A b \in Addresses : ViewAt(Store(s, a, data, len), b) =
              IF b - a \in 0 .. len - 1 THEN data[b - a] ELSE ViewAt(s, b)
<1> DEFINE set == SetOf(s.c, a)
           w   == WayOf(s.c, a)
           k   == s.c.line[set][w]
           l   == Stored(s.c, a, data, len)
           t   == Store(s, a, data, len)
<1>1. /\ s.c \in Levels(cfg)
      /\ s.n \in [Addresses -> Values]
      /\ s.c.cfg = cfg
      /\ cfg.write \in {"WriteThrough", "WriteBack"}
      /\ s.c.line \in [Sets(s.c) -> [Ways(s.c) -> Lines(cfg)]]
  BY LevelFacts, GeometryFacts DEF States, CacheConfigs
<1>2. set \in Sets(s.c) /\ w \in Ways(s.c) /\ k.valid /\ k.tag = Tag(s.c, a)
  BY <1>1, AddressTypes, WayOfResident DEF Matching
<1>3. k \in Lines(cfg) /\ k.tag \in Nat /\ k.data \in [0 .. cfg.size - 1 -> Values]
  BY <1>1, <1>2, SMTT(60) DEF Lines
<1>4. /\ l \in Lines(cfg)
      /\ l.valid
      /\ l.tag = Tag(s.c, a)
      /\ l.dirty <=> cfg.write = "WriteBack"
      /\ \A o \in Offsets(s.c) :
           l.data[o] = IF o - Offset(s.c, a) \in 0 .. len - 1
                       THEN data[o - Offset(s.c, a)] ELSE k.data[o]
  <2> DEFINE g == [o \in Offsets(s.c) |->
                     IF o - Offset(s.c, a) \in 0 .. len - 1
                     THEN data[o - Offset(s.c, a)] ELSE k.data[o]]
             wb == cfg.write = "WriteBack"
  <2>1. g \in [0 .. cfg.size - 1 -> Values]
    BY <1>1, <1>3, LevelFacts, ZenonT(60)
  <2>2. l = [k EXCEPT !.dirty = wb, !.data = g]
    BY <1>1 DEF Stored
  <2>3. wb \in BOOLEAN
    OBVIOUS
  <2>4. \A o \in Offsets(s.c) :
           g[o] = IF o - Offset(s.c, a) \in 0 .. len - 1
                  THEN data[o - Offset(s.c, a)] ELSE k.data[o]
    OBVIOUS
  <2>5. l \in Lines(cfg) /\ l.valid /\ l.tag = k.tag /\ l.dirty = wb /\ l.data = g
    <3> HIDE DEF g, wb, k, l
    <3> QED BY <1>2, <1>3, <2>1, <2>2, <2>3 DEF Lines
  <2> HIDE DEF g, l
  <2> QED BY <1>2, <2>4, <2>5
<1>5. Present(s, a, len) = s
  <2>1. IsHit(s.c, a, len)
    BY <1>1, WithinHit
  <2> QED BY <2>1, PresentIsHit
<1>6. PutBytes(s.c, a, data, len) = [s.c EXCEPT !.line[set][w] = l]
  BY <1>1, PutBytesWithin, SMTT(60)
<1>7. t = IF cfg.write = "WriteThrough"
          THEN [s EXCEPT !.c = PutBytes(s.c, a, data, len), !.n = MemWrite(s.n, a, data)]
          ELSE [s EXCEPT !.c = PutBytes(s.c, a, data, len)]
  BY <1>1, <1>5 DEF Store, States
<1> HIDE DEF l, t, k
<1>8. /\ t.err = s.err
      /\ t.c.cfg = s.c.cfg
      /\ t.c.line = [s.c.line EXCEPT ![set][w] = l]
      /\ t.n = IF cfg.write = "WriteThrough" THEN MemWrite(s.n, a, data) ELSE s.n
  BY <1>1, <1>6, <1>7 DEF States, Levels
<1>9. t \in States(cfg)
  BY StoreType DEF t
<1>10. \A v \in Matching(s.c, set, l.tag) : v = w
  BY <1>1, <1>4, OneWay DEF Coherent
<1>11. ASSUME NEW b \in Addresses
       PROVE  t.n[b] = IF b - a \in 0 .. len - 1 /\ cfg.write = "WriteThrough"
                       THEN data[b - a] ELSE s.n[b]
  BY <1>1, <1>8, <1>11 DEF MemWrite
<1>12. ASSUME NEW b \in Addresses, b - a \in 0 .. len - 1
       PROVE  SetOf(s.c, b) = set /\ Tag(s.c, b) = Tag(s.c, a)
  <2>1. PICK i \in 0 .. len - 1 : i = b - a
    BY <1>12
  <2>2. b = a + i
    BY <2>1 DEF Addresses
  <2>3. Block(s.c, b) = Block(s.c, a)
    BY <2>2 DEF Within
  <2> QED BY <2>3 DEF SetOf, Tag
<1>13. ASSUME NEW b \in Addresses, SetOf(s.c, b) = set, Tag(s.c, b) = Tag(s.c, a)
       PROVE  l.data[Offset(s.c, b)] =
                IF b - a \in 0 .. len - 1 THEN data[b - a] ELSE k.data[Offset(s.c, b)]
  <2>1. b \in Nat
    BY DEF Addresses
  <2>2. b - a = Offset(s.c, b) - Offset(s.c, a)
    BY <1>1, <1>13, <2>1, SameLineDistance
  <2>3. Offset(s.c, b) \in Offsets(s.c)
    BY <1>1, <2>1, AddressTypes
  <2> QED BY <1>4, <2>2, <2>3
<1>14. ASSUME NEW b \in Addresses, SetOf(s.c, b) = set, Tag(s.c, b) = Tag(s.c, a)
       PROVE  w \in Matching(s.c, SetOf(s.c, b), Tag(s.c, b))
  BY <1>1, <1>14, WayOfResident
<1>15. ASSUME NEW b \in Addresses, ~l.dirty, SetOf(s.c, b) = set, Tag(s.c, b) = l.tag
       PROVE  l.data[Offset(s.c, b)] = t.n[b]
  <2>1. cfg.write = "WriteThrough"
    BY <1>1, <1>4, <1>15
  <2>2. ~k.dirty
    BY <1>1, <1>2, <2>1 DEF Coherent, DirtyWriteBack, k
  <2>3. k.data[Offset(s.c, b)] = s.n[b]
    BY <1>4, <1>14, <1>15, <2>2 DEF Coherent, Clean, k
  <2> QED BY <1>4, <1>11, <1>13, <1>15, <2>1, <2>3
<1>16. \A b \in Addresses : t.n[b] = s.n[b] \/ ~HeldElsewhere(s.c, b, set, w)
  BY <1>4, <1>10, <1>11, <1>12 DEF HeldElsewhere
<1>17. /\ Coherent(t)
       /\ \A b \in Addresses :
            IF l.valid /\ SetOf(s.c, b) = set /\ Tag(s.c, b) = l.tag
            THEN ViewAt(t, b) = l.data[Offset(s.c, b)]
            ELSE IF HeldElsewhere(s.c, b, set, w) THEN ViewAt(t, b) = ViewAt(s, b)
            ELSE ViewAt(t, b) = t.n[b]
  BY <1>2, <1>4, <1>8, <1>9, <1>10, <1>15, <1>16, ReplaceLine
<1>18. ASSUME NEW b \in Addresses
       PROVE  ViewAt(t, b) = IF b - a \in 0 .. len - 1 THEN data[b - a] ELSE ViewAt(s, b)
  <2> DEFINE M == Matching(s.c, SetOf(s.c, b), Tag(s.c, b))
  <2>1. /\ \A v \in M : ViewAt(s, b) = s.c.line[SetOf(s.c, b)][v].data[Offset(s.c, b)]
        /\ M = {} => ViewAt(s, b) = s.n[b]
    BY ViewOfWay DEF Coherent
  <2>2. CASE SetOf(s.c, b) = set /\ Tag(s.c, b) = Tag(s.c, a)
    <3>1. ViewAt(s, b) = k.data[Offset(s.c, b)]
      BY <1>14, <2>1, <2>2 DEF k
    <3>2. ViewAt(t, b) = l.data[Offset(s.c, b)]
      BY <1>4, <1>17, <2>2
    <3> QED BY <1>13, <2>2, <3>1, <3>2
  <2>3. CASE /\ ~(SetOf(s.c, b) = set /\ Tag(s.c, b) = Tag(s.c, a))
             /\ HeldElsewhere(s.c, b, set, w)
    BY <1>4, <1>12, <1>17, <2>3
  <2>4. CASE /\ ~(SetOf(s.c, b) = set /\ Tag(s.c, b) = Tag(s.c, a))
             /\ ~HeldElsewhere(s.c, b, set, w)
    <3>1. ~(b - a \in 0 .. len - 1)
      BY <1>12, <2>4, SMTT(60)
    <3>2. M = {}
      BY <1>2, <2>4 DEF HeldElsewhere, Matching, k
    <3>3. ViewAt(t, b) = t.n[b] /\ t.n[b] = s.n[b]
      BY <1>4, <1>11, <1>17, <2>4, <3>1
    <3> QED BY <2>1, <3>1, <3>2, <3>3
  <2> QED BY <2>2, <2>3, <2>4
<1> QED BY <1>8, <1>17, <1>18 DEF t

\* What brings a line in, or renews it, before an access to it.
Prepared(s, t, a) ==
  /\ Coherent(t)
  /\ SameView(s, t)
  /\ t.err \in {"none", "script"}
  /\ Ok(t) => Resident(t.c, a)

\* A hit prepares the access.
LEMMA TouchPrepares ==
  ASSUME NEW cfg, GeometryOK(cfg), NEW s \in States(cfg), Coherent(s), Ok(s),
         NEW a \in Nat, Resident(s.c, a)
  PROVE  Prepared(s, TouchAt(s, a), a)
<1> DEFINE t == TouchAt(s, a)
<1>1. t.c.line = s.c.line /\ t.c.cfg = s.c.cfg /\ t.n = s.n
  BY TouchAtFrame
<1>2. t.err \in {"none", "script"}
  <2> DEFINE u == [s EXCEPT !.c.recency[SetOf(s.c, a)] = Newest(@, WayOf(s.c, a), s.c.cfg.ways)]
  <2>1. u.err = "none"
    BY DEF Ok, States
  <2>2. t = CallHook(u, "onAccess")
    BY DEF TouchAt, TouchWay
  <2>3. t = u \/ t = [u EXCEPT !.err = "script"]
    <3> HIDE DEF u
    <3> QED BY <2>2, Zenon DEF CallHook
  <2>4. [u EXCEPT !.err = "script"].err = "script"
    BY DEF States
  <2> HIDE DEF u, t
  <2> QED BY <2>1, <2>3, <2>4
<1> HIDE DEF t
<1>3. Coherent(s) <=> Coherent(t)
  BY <1>1, SameLines
<1>4. SameView(s, t)
  BY <1>1, SameLines
<1>5. Resident(t.c, a)
  BY <1>1, ResidentFrame
<1> QED BY <1>2, <1>3, <1>4, <1>5 DEF Prepared, t

\* A miss prepares the access, unless a script fails.
LEMMA FillPrepares ==
  ASSUME NEW cfg, GeometryOK(cfg), NEW s \in States(cfg), Coherent(s), Ok(s),
         NEW a \in Addresses, ~Resident(s.c, a)
  PROVE  Prepared(s, Fill(s, a), a)
<1>1. \A u \in States(cfg) : Ok(u) <=> u.err = "none"
  BY DEF Ok, MemOk
<1>2. Fill(s, a).err \in {"none", "script"}
  <2> DEFINE set == SetOf(s.c, a)
             w   == EvictWay(s, set)
             s1  == IF s.c.cfg.write = "WriteBack" THEN WriteBack(s, set, w) ELSE s
             e   == Evict(s, set)
  <2>1. s1.err = "none"
    BY DEF WriteBack, Ok, States
  <2>2. e = IF w \notin Ways(s.c) THEN [s EXCEPT !.err = "script"]
            ELSE IF Free(s.c, set) # {} \/ ~Ok(s1) THEN s1
            ELSE [s1 EXCEPT !.c.line[set][w].valid = FALSE]
    BY DEF Evict
  <2>3. e.err \in {"none", "script"}
    <3>1. CASE w \notin Ways(s.c)
      BY <2>2, <3>1 DEF States
    <3>2. CASE w \in Ways(s.c)
      <4>1. s1 \in States(cfg)
        <5>1. set \in Sets(s.c)
          BY AddressTypes DEF States, Addresses
        <5> QED BY <3>2, <5>1, WriteBackType
      <4>2. [s1 EXCEPT !.c.line[set][w].valid = FALSE].err = s1.err
        <5> HIDE DEF s1, w, set
        <5> QED BY <4>1 DEF States
      <4> HIDE DEF s1, w, set, e
      <4> QED BY <2>1, <2>2, <3>2, <4>2
    <3> QED BY <3>1, <3>2
  <2>4. set \in Sets(s.c)
    BY AddressTypes DEF States, Addresses
  <2>5. e \in States(cfg)
    BY <2>4, EvictType, SMTT(60)
  <2> HIDE DEF e, w
  <2>6. Ok(e) => BringIn(e, a, w).err \in {"none", "script"}
    BY <2>3, <2>5 DEF BringIn, CallHook, States
  <2>7. Fill(s, a) = IF Ok(e) THEN BringIn(e, a, w) ELSE e
    BY DEF Fill, e, w
  <2> QED BY <2>3, <2>6, <2>7
<1> QED BY <1>2, FillCoherent DEF Prepared

\* Either way an access finds its bytes.
LEMMA ReadyPrepared ==
  ASSUME NEW cfg, GeometryOK(cfg), NEW s \in States(cfg), Coherent(s), Ok(s),
         NEW a \in Nat, NEW len \in Nat \ {0}, ~OutOfRange(a, len),
         Within(s.c, a, len), ~Spans(s.c, a, len)
  PROVE  LET t == IF IsHit(s.c, a, len) THEN TouchLines(s, a, len)
                                        ELSE BringInLines(s, a, len)
         IN  /\ Prepared(s, t, a)
             /\ Present(t, a, len) = t
             /\ t \in States(cfg)
             /\ Within(t.c, a, len)
<1> DEFINE t == IF IsHit(s.c, a, len) THEN TouchLines(s, a, len)
                                      ELSE BringInLines(s, a, len)
<1>1. s.c \in Levels(cfg) /\ s.c.cfg = cfg
  BY DEF States, Levels
<1>2. IsHit(s.c, a, len) <=> Resident(s.c, a)
  BY <1>1, WithinHit
<1>3. t \in States(cfg)
  BY TouchLinesType, BringInLinesType
<1>4. t = IF IsHit(s.c, a, len) THEN TouchAt(s, a) ELSE Fill(s, a)
  BY DEF TouchLines, BringInLines
<1>5. a \in Addresses
  BY AccessInMemory
<1>6. Prepared(s, t, a)
  <2> HIDE DEF t
  <2> QED BY <1>2, <1>4, <1>5, TouchPrepares, FillPrepares
<1>7. t.c \in Levels(cfg) /\ Within(t.c, a, len)
  <2> HIDE DEF t
  <2>1. t.c \in Levels(cfg) /\ t.c.cfg = cfg
    BY <1>3 DEF States, Levels
  <2> QED BY <1>1, <2>1 DEF Within, Block
<1>8. Present(t, a, len) = t
  <2> HIDE DEF t
  <2>1. Ok(t) => IsHit(t.c, a, len)
    BY <1>6, <1>7, WithinHit DEF Prepared
  <2> QED BY <2>1, PresentIsHit
<1> QED BY <1>3, <1>6, <1>7, <1>8

\* A read leaves the view alone and returns it.
LEMMA ReadCoherent ==
  ASSUME NEW cfg, GeometryOK(cfg), NEW s \in States(cfg), Coherent(s), Ok(s),
         NEW a \in Nat, NEW len \in Nat \ {0}, ~OutOfRange(a, len),
         Within(s.c, a, len), ~Spans(s.c, a, len)
  PROVE  /\ Coherent(ReadGeneric(s, a, len).s)
         /\ SameView(s, ReadGeneric(s, a, len).s)
         /\ \/ /\ ReadGeneric(s, a, len).s.err = "none"
               /\ ReadGeneric(s, a, len).data = [i \in 0 .. len - 1 |-> ViewAt(s, a + i)]
            \/ /\ ReadGeneric(s, a, len).s.err = "script"
               /\ ReadGeneric(s, a, len).data = <<>>
<1> DEFINE t == IF IsHit(s.c, a, len) THEN TouchLines(s, a, len)
                                      ELSE BringInLines(s, a, len)
           r == ReadGeneric(s, a, len)
<1>1. Prepared(s, t, a) /\ Present(t, a, len) = t /\ t \in States(cfg) /\ Within(t.c, a, len)
  BY ReadyPrepared, Zenon
<1>2. /\ r.s = t
      /\ r.data = IF Ok(t) THEN [i \in 0 .. len - 1 |-> Cell(t.c, a + i)] ELSE <<>>
  BY <1>1 DEF ReadGeneric
<1> HIDE DEF t, r
<1>3. ASSUME Ok(t), NEW i \in 0 .. len - 1
      PROVE  Cell(t.c, a + i) = ViewAt(s, a + i)
  <2>1. t.c \in Levels(cfg)
    BY <1>1 DEF States
  <2>2. Resident(t.c, a + i)
    BY <1>1, <1>3, <2>1, WithinFacts DEF Prepared
  <2>3. a + i \in Addresses
    BY AccessInMemory
  <2> QED BY <1>1, <2>2, <2>3 DEF Prepared, SameView, ViewAt
<1>4. Ok(t) <=> t.err = "none"
  BY DEF Ok, MemOk
<1>5. CASE Ok(t)
  <2>1. r.data = [i \in 0 .. len - 1 |-> ViewAt(s, a + i)]
    BY <1>2, <1>3, <1>5
  <2> QED BY <1>1, <1>2, <1>4, <1>5, <2>1 DEF Prepared, r
<1>6. CASE ~Ok(t)
  BY <1>1, <1>2, <1>4, <1>6 DEF Prepared, r
<1> QED BY <1>5, <1>6

\* A write to a line that is not resident, when it does not allocate.
LEMMA WriteBelowCoherent ==
  ASSUME NEW cfg, GeometryOK(cfg), NEW s \in States(cfg), Coherent(s),
         NEW a \in Nat, NEW len \in Nat \ {0}, Within(s.c, a, len), ~Resident(s.c, a),
         NEW data \in [0 .. len - 1 -> Values], NEW t, t.c = s.c,
         t.n = MemWrite(s.n, a, data)
  PROVE  /\ Coherent(t)
         /\ \A b \in Addresses : ViewAt(t, b) =
              IF b - a \in 0 .. len - 1 THEN data[b - a] ELSE ViewAt(s, b)
<1>1. s.c \in Levels(cfg) /\ s.n \in [Addresses -> Values]
  BY DEF States
<1>2. ASSUME NEW b \in Addresses
      PROVE  t.n[b] = IF b - a \in 0 .. len - 1 THEN data[b - a] ELSE s.n[b]
  BY <1>1 DEF MemWrite
<1>3. ASSUME NEW b \in Addresses, b - a \in 0 .. len - 1
      PROVE  ~Resident(s.c, b)
  <2>1. PICK i \in 0 .. len - 1 : i = b - a
    BY <1>3
  <2>2. b = a + i
    BY <2>1 DEF Addresses
  <2> QED BY <1>1, <2>2, WithinFacts
<1>4. Clean(t.c, t.n)
  BY <1>2, <1>3 DEF Coherent, Clean, Resident
<1>5. Coherent(t)
  BY <1>4 DEF Coherent
<1> QED BY <1>2, <1>3, <1>5 DEF ViewAt

\* A write that completes changes the cells it names and no others, and one
\* that a script breaks off changes none.
LEMMA WriteCoherent ==
  ASSUME NEW cfg, GeometryOK(cfg), NEW s \in States(cfg), Coherent(s), Ok(s),
         NEW a \in Nat, NEW len \in Nat \ {0}, ~OutOfRange(a, len),
         Within(s.c, a, len), ~Spans(s.c, a, len),
         NEW data \in [0 .. len - 1 -> Values]
  PROVE  /\ Coherent(WriteGeneric(s, a, data, len))
         /\ \/ /\ WriteGeneric(s, a, data, len).err = "none"
               /\ \A b \in Addresses : ViewAt(WriteGeneric(s, a, data, len), b) =
                    IF b - a \in 0 .. len - 1 THEN data[b - a] ELSE ViewAt(s, b)
            \/ /\ WriteGeneric(s, a, data, len).err = "script"
               /\ SameView(s, WriteGeneric(s, a, data, len))
<1> DEFINE hit == IsHit(s.c, a, len)
           t   == IF hit THEN TouchLines(s, a, len) ELSE BringInLines(s, a, len)
           u   == Store(t, a, data, len)
           v   == WriteGeneric(s, a, data, len)
<1>1. s.c \in Levels(cfg)
  BY DEF States
<1>2. Prepared(s, t, a) /\ Present(t, a, len) = t /\ t \in States(cfg) /\ Within(t.c, a, len)
  BY ReadyPrepared, Zenon
<1>3. Ok(t) <=> t.err = "none"
  BY DEF Ok, MemOk
<1>4. CASE ~hit /\ s.c.cfg.alloc = "NoWriteAllocate"
  <2>1. v = [s EXCEPT !.n = MemWrite(s.n, a, data)]
    BY <1>4 DEF WriteGeneric
  <2>2. v.c = s.c /\ v.n = MemWrite(s.n, a, data) /\ v.err = s.err
    BY <2>1 DEF States
  <2>3. ~Resident(s.c, a)
    BY <1>1, <1>4, WithinHit
  <2>4. s.err = "none"
    BY DEF Ok
  <2> HIDE DEF v
  <2>5. /\ Coherent(v)
        /\ \A b \in Addresses : ViewAt(v, b) =
              IF b - a \in 0 .. len - 1 THEN data[b - a] ELSE ViewAt(s, b)
    BY <2>2, <2>3, WriteBelowCoherent
  <2> QED BY <2>2, <2>4, <2>5 DEF v
<1>5. CASE hit \/ s.c.cfg.alloc # "NoWriteAllocate"
  <2>1. v = u
    BY <1>5 DEF WriteGeneric
  <2> HIDE DEF t, v
  <2>2. CASE Ok(t)
    <3>1. /\ Coherent(u)
          /\ u.err = t.err
          /\ \A b \in Addresses : ViewAt(u, b) =
                IF b - a \in 0 .. len - 1 THEN data[b - a] ELSE ViewAt(t, b)
      BY <1>2, <2>2, StoreCoherent DEF Prepared
    <3>2. \A b \in Addresses : ViewAt(t, b) = ViewAt(s, b)
      BY <1>2 DEF Prepared, SameView
    <3> HIDE DEF u
    <3> QED BY <1>3, <2>1, <2>2, <3>1, <3>2 DEF v
  <2>3. CASE ~Ok(t)
    <3>1. u = t
      BY <1>2, <2>3 DEF Store
    <3> HIDE DEF u
    <3> QED BY <1>2, <1>3, <2>1, <2>3, <3>1 DEF Prepared, v
  <2> QED BY <2>2, <2>3
<1> QED BY <1>4, <1>5

-----------------------------------------------------------------------------
(* Emptying and reconfiguring. *)

\* No line is valid or dirty.
Empty(c) == \A set \in Sets(c), w \in Ways(c) :
              ~c.line[set][w].valid /\ ~c.line[set][w].dirty

\* A level without valid lines is coherent with any memory.
LEMMA EmptyCoherent ==
  ASSUME NEW cfg, GeometryOK(cfg), NEW s, s.c \in Levels(cfg), Empty(s.c)
  PROVE  /\ Coherent(s)
         /\ \A a \in Addresses : ViewAt(s, a) = s.n[a]
<1>1. ASSUME NEW a \in Addresses
      PROVE  Matching(s.c, SetOf(s.c, a), Tag(s.c, a)) = {}
  <2>1. SetOf(s.c, a) \in Sets(s.c)
    BY AddressTypes DEF Addresses
  <2> QED BY <2>1 DEF Matching, Empty
<1>2. Unique(s.c) /\ DirtyWriteBack(s.c)
  BY DEF Unique, DirtyWriteBack, Empty
<1>3. Clean(s.c, s.n)
  BY <1>1, Zenon DEF Clean
<1> QED BY <1>1, <1>2, <1>3 DEF Coherent, ViewAt, Resident

\* A fresh level has no valid line.
LEMMA SetupEmpty ==
  ASSUME NEW cfg
  PROVE  Empty(Setup(cfg))
BY DEF Empty, Setup, Sets, Ways, EmptyLine

\* An emptied level has no valid line.
LEMMA ResetEmpty ==
  ASSUME NEW cfg, NEW c \in Levels(cfg)
  PROVE  Empty(Reset(c)) /\ Reset(c).cfg = cfg
<1>1. c.cfg = cfg /\ Reset(c).cfg = cfg /\ Reset(c).line = Setup(cfg).line
  BY DEF Levels, Reset
<1>2. Sets(Reset(c)) = 0 .. cfg.sets - 1 /\ Ways(Reset(c)) = 0 .. cfg.ways - 1
  BY <1>1 DEF Sets, Ways
<1> QED BY <1>1, <1>2 DEF Empty, Setup, EmptyLine

\* Flushing a coherent level makes memory what the program sees.
LEMMA FlushCoherent ==
  ASSUME NEW cfg, GeometryOK(cfg), NEW s \in States(cfg), Coherent(s)
  PROVE  /\ Flush(s) \in States(cfg)
         /\ Empty(Flush(s).c)
         /\ Flush(s).err = s.err
         /\ \A a \in Addresses : Flush(s).n[a] = ViewAt(s, a)
<1>1. s.c \in Levels(cfg) /\ s.n \in [Addresses -> Values]
  BY DEF States
<1>2. /\ Flush(s).c = Reset(s.c)
      /\ Flush(s).n = WrittenBack(s.n, s.c)
      /\ Flush(s).err = s.err
  BY DEF Flush, States
<1>3. ASSUME NEW a \in Addresses
      PROVE  WrittenBack(s.n, s.c)[a] = ViewAt(s, a)
  <2> DEFINE M == Matching(s.c, SetOf(s.c, a), Tag(s.c, a))
             D == DirtyWays(s.c, a)
  <2>1. /\ \A v \in M : ViewAt(s, a) = s.c.line[SetOf(s.c, a)][v].data[Offset(s.c, a)]
        /\ M = {} => ViewAt(s, a) = s.n[a]
    BY ViewOfWay DEF Coherent
  <2>2. WrittenBack(s.n, s.c)[a] =
          IF D = {} THEN s.n[a]
          ELSE s.c.line[SetOf(s.c, a)][Greatest(D)].data[Offset(s.c, a)]
    BY <1>1 DEF WrittenBack
  <2>3. CASE D = {}
    <3>1. \A v \in M : s.c.line[SetOf(s.c, a)][v].data[Offset(s.c, a)] = s.n[a]
      BY <2>3 DEF DirtyWays, Coherent, Clean
    <3> QED BY <2>1, <2>2, <2>3, <3>1
  <2>4. CASE D # {}
    <3>1. D \in SUBSET (0 .. cfg.ways - 1) /\ cfg.ways - 1 \in Nat
      BY <1>1, LevelFacts, GeometryFacts DEF DirtyWays, Matching
    <3>2. Greatest(D) \in D
      BY <2>4, <3>1, GreatestIsGreatest
    <3>3. Greatest(D) \in M
      BY <3>2 DEF DirtyWays
    <3> QED BY <2>1, <2>2, <2>4, <3>3
  <2> QED BY <2>3, <2>4
<1> QED BY <1>1, <1>2, <1>3, FlushType, ResetEmpty

\* Reconfiguring keeps what the program sees, whether or not it completes.
LEMMA ReconfigureCoherent ==
  ASSUME NEW cfg, GeometryOK(cfg), NEW s \in States(cfg), Coherent(s), Ok(s),
         NEW new \in Configs
  PROVE  /\ Coherent(Reconfigure(Flush(s), new))
         /\ SameView(s, Reconfigure(Flush(s), new))
         /\ Reconfigure(Flush(s), new).err \in {"none", "script"}
         /\ Empty(Reconfigure(Flush(s), new).c)
<1> DEFINE f == Flush(s)
           t == Reconfigure(f, new)
<1>1. /\ f \in States(cfg)
      /\ Empty(f.c)
      /\ f.err = "none"
      /\ \A a \in Addresses : f.n[a] = ViewAt(s, a)
  BY FlushCoherent DEF Ok
<1>2. Ok(f)
  BY <1>1 DEF Ok, MemOk
<1> HIDE DEF f
<1>3. /\ t.n = f.n
      /\ t.err \in {"none", "script"}
      /\ Empty(t.c)
  <2>1. CASE new.repl = "Custom" /\ f.c.path = "bad"
    <3> DEFINE mixed == [f.c.cfg EXCEPT !.write = new.write, !.alloc = new.alloc]
    <3>1. t = [f EXCEPT !.err = "script", !.c.cfg = mixed]
      BY <1>2, <2>1 DEF Reconfigure
    <3>2. mixed.sets = f.c.cfg.sets /\ mixed.ways = f.c.cfg.ways
      <4>1. f.c.cfg \in CacheConfigs
        BY <1>1, GeometryFacts, LevelFacts DEF States
      <4> QED BY <4>1 DEF CacheConfigs
    <3> HIDE DEF t, mixed
    <3>3. /\ t.n = f.n
          /\ t.err = "script"
          /\ t.c.line = f.c.line
          /\ t.c.cfg = mixed
      BY <1>1, <3>1 DEF States, Levels
    <3> QED BY <1>1, <3>2, <3>3 DEF Empty, Sets, Ways
  <2>2. CASE ~(new.repl = "Custom" /\ f.c.path = "bad")
    <3> DEFINE loaded == new.repl = "Custom" /\ f.c.path = "good"
               fresh  == [Setup(new) EXCEPT !.path = f.c.path, !.loaded = loaded]
    <3>1. t = [f EXCEPT !.c = fresh]
      BY <1>2, <2>2 DEF Reconfigure
    <3>2. fresh.line = Setup(new).line /\ fresh.cfg = Setup(new).cfg
      <4> HIDE DEF loaded
      <4> QED BY DEF Setup
    <3> HIDE DEF t, fresh
    <3>3. t.n = f.n /\ t.err = f.err /\ t.c.line = Setup(new).line /\ t.c.cfg = Setup(new).cfg
      BY <1>1, <3>1, <3>2 DEF States
    <3> QED BY <1>1, <3>3, SetupEmpty DEF Empty, Sets, Ways
  <2> QED BY <2>1, <2>2
<1>4. PICK cfg2 : GeometryOK(cfg2) /\ t \in States(cfg2)
  BY <1>1, ReconfigureType
<1> HIDE DEF t
<1>5. Coherent(t) /\ \A a \in Addresses : ViewAt(t, a) = t.n[a]
  BY <1>3, <1>4, EmptyCoherent DEF States
<1> QED BY <1>1, <1>3, <1>5 DEF SameView, t, f

-----------------------------------------------------------------------------
(* The theorems, along Next. *)

Safe == /\ UniqueTags
        /\ CleanLinesMatchMemory
        /\ DirtyOnlyUnderWriteBack
        /\ NeverAbsent

\* The invariant and the view, as those of the state an operation starts in.
LEMMA NowCoherent ==
  ASSUME NEW script
  PROVE  /\ Safe => Coherent(Start(script))
         /\ View = [a \in Addresses |-> ViewAt(Start(script), a)]
         /\ Ok(Start(script))
<1>1. Start(script).c = cache /\ Start(script).n = mem /\ Start(script).err = "none"
  BY DEF Start
<1>2. Safe => Unique(cache)
  BY DEF Safe, UniqueTags, Unique
<1>3. Safe => Clean(cache, mem)
  BY Zenon DEF Safe, CleanLinesMatchMemory, Clean
<1>4. Safe => DirtyWriteBack(cache)
  BY DEF Safe, DirtyOnlyUnderWriteBack, DirtyWriteBack
<1> QED BY <1>1, <1>2, <1>3, <1>4 DEF Coherent, View, ViewAt, Ok, MemOk

\* ... and of the state it leaves.
LEMMA LeftCoherent ==
  ASSUME NEW s, Coherent(s), cache' = s.c, mem' = s.n, reply'.status # "absent"
  PROVE  Safe' /\ View' = [a \in Addresses |-> ViewAt(s, a)]
<1>1. Unique(cache') /\ Clean(cache', mem') /\ DirtyWriteBack(cache')
  BY DEF Coherent
<1>2. UniqueTags'
  BY <1>1 DEF UniqueTags, Unique
<1>3. CleanLinesMatchMemory'
  BY <1>1, Zenon DEF CleanLinesMatchMemory, Clean
<1>4. DirtyOnlyUnderWriteBack'
  BY <1>1 DEF DirtyOnlyUnderWriteBack, DirtyWriteBack
<1>5. View' = [a \in Addresses |-> ViewAt(s, a)]
  BY DEF View, ViewAt
<1> QED BY <1>2, <1>3, <1>4, <1>5 DEF Safe, NeverAbsent

\* No access finds a configuration in which it spans two lines.
LEMMA AccessFacts ==
  ASSUME NoSpanning, TypeOK, NEW acc \in Accesses, NEW script \in Scripts
  PROVE  /\ GeometryOK(cache.cfg)
         /\ acc[1] \in Nat
         /\ acc[2] \in Nat \ {0}
         /\ Start(script) \in States(cache.cfg)
         /\ Within(Start(script).c, acc[1], acc[2])
         /\ ~Spans(Start(script).c, acc[1], acc[2])
<1>1. GeometryOK(cache.cfg) /\ cache \in Levels(cache.cfg) /\ Start(script).c = cache
  BY DEF TypeOK, Start
<1>2. Start(script) \in States(cache.cfg)
  BY ScriptsAssumption, StartType
<1> QED BY <1>1, <1>2, AccessesAssumption, AccessWithin

\* A read maps to a read of flat memory.
LEMMA ReadAccessStep ==
  ASSUME NoSpanning, TypeOK, Safe, NEW acc \in Accesses, NEW script \in Scripts,
         Read(acc[1], acc[2], script)
  PROVE  Safe' /\ (Flat!Read(acc) \/ Flat!Refuse(acc, "script"))
<1> DEFINE s == Start(script)
           a == acc[1]
           len == acc[2]
           r == ReadGeneric(s, a, len)
<1>1. /\ GeometryOK(cache.cfg)
      /\ a \in Nat
      /\ len \in Nat \ {0}
      /\ s \in States(cache.cfg)
      /\ Within(s.c, a, len)
      /\ ~Spans(s.c, a, len)
      /\ Coherent(s) /\ Ok(s)
      /\ View = [b \in Addresses |-> ViewAt(s, b)]
  BY AccessFacts, NowCoherent
<1>2. ~OutOfRange(a, len) /\ Finish(r.s, r.data) /\ request' = <<"read", acc>>
  <2>1. acc = <<a, len>>
    BY AccessesAssumption
  <2> QED BY <2>1 DEF Read
<1> HIDE DEF s
<1>3. /\ Coherent(r.s)
      /\ SameView(s, r.s)
      /\ \/ r.s.err = "none" /\ r.data = [i \in 0 .. len - 1 |-> ViewAt(s, a + i)]
         \/ r.s.err = "script" /\ r.data = <<>>
  BY <1>1, <1>2, ReadCoherent
<1>4. \A i \in 0 .. len - 1 : a + i \in Addresses
  BY <1>1, <1>2, AccessInMemory
<1> HIDE DEF r
<1>5. /\ cache' = r.s.c /\ mem' = r.s.n
      /\ reply' = [status |-> Status(r.s), data |-> r.data]
  BY <1>2 DEF Finish
<1>6. Status(r.s) \in {"ok", "script"}
  BY <1>3 DEF Status
<1>7. Safe' /\ View' = [b \in Addresses |-> ViewAt(r.s, b)]
  <2>1. reply'.status # "absent"
    BY <1>5, <1>6
  <2> QED BY <1>3, <1>5, <2>1, LeftCoherent
<1>8. View' = View
  BY <1>1, <1>3, <1>7 DEF SameView
<1>9. CASE r.s.err = "none"
  <2>1. reply' = [status |-> "ok", data |-> [i \in 0 .. len - 1 |-> View[a + i]]]
    BY <1>1, <1>3, <1>4, <1>5, <1>9 DEF Status
  <2>2. Flat!InRange(acc)
    BY <1>1, <1>2, MemSizeAssumption DEF Flat!InRange, OutOfRange
  <2> QED BY <1>2, <1>7, <1>8, <2>1, <2>2 DEF Flat!Read, Flat!Span
<1>10. CASE r.s.err = "script"
  <2>1. reply' = [status |-> "script", data |-> <<>>]
    BY <1>3, <1>5, <1>10 DEF Status
  <2>2. request' \in Flat!Requests(acc)
    BY <1>2 DEF Flat!Requests
  <2> QED BY <1>7, <1>8, <2>1, <2>2 DEF Flat!Refuse
<1> QED BY <1>3, <1>9, <1>10

\* A write maps to a write of flat memory, or to nothing when a script fails before it.
LEMMA WriteAccessStep ==
  ASSUME NoSpanning, TypeOK, Safe, NEW acc \in Accesses, NEW script \in Scripts,
         NEW data \in [0 .. acc[2] - 1 -> Values],
         Write(acc[1], acc[2], data, script)
  PROVE  Safe' /\ (Flat!Write(acc, data) \/ Flat!Refuse(acc, "script"))
<1> DEFINE s == Start(script)
           a == acc[1]
           len == acc[2]
           t == WriteGeneric(s, a, data, len)
<1>1. /\ GeometryOK(cache.cfg)
      /\ a \in Nat
      /\ len \in Nat \ {0}
      /\ s \in States(cache.cfg)
      /\ Within(s.c, a, len)
      /\ ~Spans(s.c, a, len)
      /\ Coherent(s) /\ Ok(s)
      /\ View = [b \in Addresses |-> ViewAt(s, b)]
  BY AccessFacts, NowCoherent
<1>2. ~OutOfRange(a, len) /\ Finish(t, <<>>) /\ request' = <<"write", acc, data>>
  <2>1. acc = <<a, len>>
    BY AccessesAssumption
  <2> QED BY <2>1 DEF Write
<1> HIDE DEF s
<1>3. /\ Coherent(t)
      /\ \/ /\ t.err = "none"
            /\ \A b \in Addresses :
                 ViewAt(t, b) = IF b - a \in 0 .. len - 1 THEN data[b - a] ELSE ViewAt(s, b)
         \/ t.err = "script" /\ SameView(s, t)
  BY <1>1, <1>2, WriteCoherent
<1> HIDE DEF t
<1>4. /\ cache' = t.c /\ mem' = t.n
      /\ reply' = [status |-> Status(t), data |-> <<>>]
  BY <1>2 DEF Finish
<1>5. Status(t) \in {"ok", "script"}
  BY <1>3 DEF Status
<1>6. Safe' /\ View' = [b \in Addresses |-> ViewAt(t, b)]
  <2>1. reply'.status # "absent"
    BY <1>4, <1>5
  <2> QED BY <1>3, <1>4, <2>1, LeftCoherent
<1>7. CASE t.err = "none"
  <2>1. \A b \in Addresses : b - a \in 0 .. len - 1 <=> a <= b /\ b < a + len
    BY <1>1 DEF Addresses
  <2>2. View' = [b \in Addresses |->
                   IF a <= b /\ b < a + len THEN data[b - a] ELSE View[b]]
    BY <1>1, <1>3, <1>6, <1>7, <2>1
  <2>3. DOMAIN View = Addresses
    BY <1>1
  <2>4. View' = Flat!Overwritten(View, acc, data)
    BY <2>2, <2>3 DEF Flat!Overwritten
  <2>5. Flat!InRange(acc)
    BY <1>1, <1>2, MemSizeAssumption DEF Flat!InRange, OutOfRange
  <2>6. reply' = [status |-> "ok", data |-> <<>>]
    BY <1>4, <1>7 DEF Status
  <2> QED BY <1>2, <1>6, <2>4, <2>5, <2>6 DEF Flat!Write
<1>8. CASE t.err = "script" /\ SameView(s, t)
  <2>1. reply' = [status |-> "script", data |-> <<>>]
    BY <1>4, <1>8 DEF Status
  <2>2. View' = View
    BY <1>1, <1>6, <1>8 DEF SameView
  <2>3. request' \in Flat!Requests(acc)
    BY <1>2 DEF Flat!Requests, Flat!DataOf
  <2> QED BY <1>6, <2>1, <2>2, <2>3 DEF Flat!Refuse
<1> QED BY <1>3, <1>7, <1>8

\* A change of settings leaves flat memory alone.
LEMMA ReconfigureStep ==
  ASSUME TypeOK, Safe, NEW cfg \in Configs, ReconfigureCache(cfg)
  PROVE  Safe' /\ \E status \in {"ok", "script"} : Flat!Manage(status)
<1> DEFINE s == Start([answer |-> 0, fails |-> "never"])
           t == Reconfigure(Flush(s), cfg)
<1>1. /\ GeometryOK(cache.cfg)
      /\ s \in States(cache.cfg)
      /\ Coherent(s) /\ Ok(s)
      /\ View = [b \in Addresses |-> ViewAt(s, b)]
  <2>1. [answer |-> 0, fails |-> "never"] \in
          [answer : Int, fails : {"never", "onAccess", "onInsert"}]
    OBVIOUS
  <2> QED BY <2>1, StartType, NowCoherent DEF TypeOK
<1>2. Finish(t, <<>>) /\ request' = <<"manage">>
  BY DEF ReconfigureCache
<1> HIDE DEF s
<1>3. Coherent(t) /\ SameView(s, t) /\ t.err \in {"none", "script"}
  BY <1>1, ReconfigureCoherent
<1> HIDE DEF t
<1>4. /\ cache' = t.c /\ mem' = t.n
      /\ reply' = [status |-> Status(t), data |-> <<>>]
  BY <1>2 DEF Finish
<1>5. Status(t) \in {"ok", "script"}
  BY <1>3 DEF Status
<1>6. Safe' /\ View' = [b \in Addresses |-> ViewAt(t, b)]
  <2>1. reply'.status # "absent"
    BY <1>4, <1>5
  <2> QED BY <1>3, <1>4, <2>1, LeftCoherent
<1>7. View' = View
  BY <1>1, <1>3, <1>6 DEF SameView
<1>8. Flat!Manage(Status(t))
  BY <1>2, <1>4, <1>7 DEF Flat!Manage
<1> QED BY <1>5, <1>6, <1>8

\* Loading a script changes the policy and nothing the program can see.
LEMMA LoadScriptStep ==
  ASSUME TypeOK, Safe, NEW path \in Paths, LoadScript(path)
  PROVE  Safe' /\ Flat!Manage("ok")
<1> DEFINE s == Start([answer |-> 0, fails |-> "never"])
           t == [c |-> LoadCustomPolicyScript(cache, path), n |-> mem]
<1>1. Coherent(s) /\ View = [b \in Addresses |-> ViewAt(s, b)]
  BY NowCoherent
<1>2. /\ cache' = t.c /\ mem' = t.n
      /\ reply' = [status |-> "ok", data |-> <<>>] /\ request' = <<"manage">>
  BY DEF LoadScript
<1>3. s.c = cache /\ s.n = mem
  BY DEF Start
<1>4. /\ t.c.line = cache.line
      /\ t.c.cfg.sets = cache.cfg.sets
      /\ t.c.cfg.ways = cache.cfg.ways
      /\ t.c.cfg.size = cache.cfg.size
      /\ t.c.cfg.write = cache.cfg.write
  <2>1. cache.cfg \in CacheConfigs /\ cache \in Levels(cache.cfg)
    BY GeometryFacts DEF TypeOK
  <2> QED BY <2>1 DEF LoadCustomPolicyScript, Levels, CacheConfigs
<1>5. t.n = mem
  OBVIOUS
<1> HIDE DEF s, t
<1>6. (Coherent(s) <=> Coherent(t)) /\ SameView(s, t)
  BY <1>3, <1>4, <1>5, SameLines
<1>7. Safe' /\ View' = [b \in Addresses |-> ViewAt(t, b)]
  <2>1. reply'.status # "absent"
    BY <1>2
  <2> QED BY <1>1, <1>2, <1>6, <2>1, LeftCoherent
<1>8. View' = View
  BY <1>1, <1>6, <1>7 DEF SameView
<1> QED BY <1>2, <1>7, <1>8 DEF Flat!Manage

\* A reset maps to the reset of flat memory.
LEMMA ResetStep ==
  ASSUME TypeOK, ResetAll
  PROVE  Safe' /\ Flat!Reset
<1> DEFINE t == [c |-> Reset(cache), n |-> [a \in Addresses |-> 0]]
<1>1. GeometryOK(cache.cfg) /\ cache \in Levels(cache.cfg)
  BY DEF TypeOK
<1>2. /\ cache' = t.c /\ mem' = t.n
      /\ reply' = [status |-> "ok", data |-> <<>>] /\ request' = <<"reset">>
  BY DEF ResetAll
<1>3. t.c \in Levels(cache.cfg) /\ Empty(t.c)
  BY <1>1, ResetType, ResetEmpty
<1>4. \A a \in Addresses : t.n[a] = 0
  OBVIOUS
<1> HIDE DEF t
<1>5. Coherent(t) /\ \A a \in Addresses : ViewAt(t, a) = 0
  BY <1>1, <1>3, <1>4, EmptyCoherent
<1>6. Safe' /\ View' = [b \in Addresses |-> ViewAt(t, b)]
  <2>1. reply'.status # "absent"
    BY <1>2
  <2> QED BY <1>2, <1>5, <2>1, LeftCoherent
<1>7. View' = [a \in Addresses |-> 0]
  BY <1>5, <1>6
<1> QED BY <1>2, <1>6, <1>7 DEF Flat!Reset, Flat!Addresses, Addresses

\* An access out of range changes nothing.
LEMMA RefuseStep ==
  ASSUME Safe, NEW acc \in Accesses, Refuse(acc[1], acc[2])
  PROVE  Safe' /\ Flat!Refuse(acc, "range")
<1>1. /\ cache' = cache /\ mem' = mem
      /\ reply' = [status |-> "range", data |-> <<>>]
  BY DEF Refuse
<1>2. View' = View
  BY <1>1 DEF View
<1>3. Safe'
  BY <1>1 DEF Safe, UniqueTags, CleanLinesMatchMemory, DirtyOnlyUnderWriteBack, NeverAbsent
<1>4. ~Flat!InRange(acc)
  BY AccessesAssumption, MemSizeAssumption DEF Refuse, OutOfRange, Flat!InRange
<1>5. request' \in Flat!Requests(acc)
  <2>1. acc = <<acc[1], acc[2]>>
    BY AccessesAssumption
  <2> QED BY <2>1 DEF Refuse, DataOf, Flat!Requests, Flat!DataOf
<1> QED BY <1>1, <1>2, <1>3, <1>4, <1>5 DEF Flat!Refuse

\* The initial states are safe.
LEMMA SafeInit ==
  ASSUME Init
  PROVE  Safe /\ Flat!Init
<1>1. PICK cfg \in Configs : cache = Setup(cfg)
  BY DEF Init
<1>2. GeometryOK(cfg)
  BY ConfigsAssumption DEF GeometryOK
<1> DEFINE s == [c |-> cache, n |-> mem]
<1>3. s.c \in Levels(cfg) /\ Empty(s.c)
  BY <1>1, <1>2, SetupType, SetupEmpty
<1>4. Coherent(s) /\ \A a \in Addresses : ViewAt(s, a) = s.n[a]
  <2> HIDE DEF s
  <2> QED BY <1>2, <1>3, EmptyCoherent
<1>5. UniqueTags
  BY <1>4 DEF Coherent, UniqueTags, Unique
<1>6. CleanLinesMatchMemory
  <2>1. Clean(cache, mem)
    BY <1>4 DEF Coherent
  <2> QED BY <2>1, Zenon DEF CleanLinesMatchMemory, Clean
<1>7. DirtyOnlyUnderWriteBack
  BY <1>4 DEF Coherent, DirtyOnlyUnderWriteBack, DirtyWriteBack
<1>8. View = [a \in Addresses |-> 0]
  BY <1>4 DEF View, ViewAt, Init
<1> QED BY <1>5, <1>6, <1>7, <1>8
        DEF Safe, NeverAbsent, Init, Flat!Init, Flat!Addresses, Addresses

\* Every operation keeps the state safe.
LEMMA SafeNext ==
  ASSUME NoSpanning, TypeOK, Safe, [Next]_vars
  PROVE  Safe' /\ [Flat!Next]_(Flat!vars)
<1>1. ASSUME NEW acc \in Accesses, NEW script \in Scripts, Read(acc[1], acc[2], script)
      PROVE  Safe' /\ Flat!Next
  BY <1>1, ReadAccessStep DEF Flat!Next
<1>2. ASSUME NEW acc \in Accesses, NEW script \in Scripts,
             NEW data \in [0 .. acc[2] - 1 -> Values],
             Write(acc[1], acc[2], data, script)
      PROVE  Safe' /\ Flat!Next
  BY <1>2, WriteAccessStep DEF Flat!Next, Flat!DataOf
<1>3. ASSUME NEW acc \in Accesses, Refuse(acc[1], acc[2])
      PROVE  Safe' /\ Flat!Next
  BY <1>3, RefuseStep DEF Flat!Next
<1>4. ASSUME NEW cfg \in Configs, ReconfigureCache(cfg)
      PROVE  Safe' /\ Flat!Next
  BY <1>4, ReconfigureStep DEF Flat!Next
<1>5. ASSUME NEW path \in Paths, LoadScript(path)
      PROVE  Safe' /\ Flat!Next
  BY <1>5, LoadScriptStep DEF Flat!Next
<1>6. CASE ResetAll
  BY <1>6, ResetStep DEF Flat!Next
<1>7. CASE UNCHANGED vars
  <2>1. View' = View
    BY <1>7 DEF vars, View
  <2>2. Safe'
    BY <1>7 DEF vars, Safe, UniqueTags, CleanLinesMatchMemory, DirtyOnlyUnderWriteBack,
                NeverAbsent
  <2> QED BY <1>7, <2>1, <2>2 DEF vars, Flat!vars
<1> QED BY <1>1, <1>2, <1>3, <1>4, <1>5, <1>6, <1>7 DEF Next, DataOf

\* Whatever the user reconfigures between the accesses of a program that spans
\* no lines, no line is held twice, a clean line holds what memory holds, a
\* line is dirty only while the policy writes it back, and no access looks for
\* a line that is not there.
THEOREM SafetyCorrect ==
  ASSUME NoSpanning
  PROVE  Spec => [](UniqueTags /\ CleanLinesMatchMemory /\ DirtyOnlyUnderWriteBack
                    /\ NeverAbsent)
<1>1. Init => Safe
  BY SafeInit
<1>2. TypeOK /\ Safe /\ [Next]_vars => Safe'
  BY SafeNext
<1>3. Safe => UniqueTags /\ CleanLinesMatchMemory /\ DirtyOnlyUnderWriteBack /\ NeverAbsent
  BY DEF Safe
<1> QED BY <1>1, <1>2, <1>3, TypeCorrect, PTL DEF Spec

\* Of these, that no line of memory has two copies: bringIn only brings in a line that
\* the search of the set did not find, and a reconfiguration empties the cache.
THEOREM NoLineTwice ==
  ASSUME NoSpanning
  PROVE  Spec => []UniqueTags
<1> QED BY SafetyCorrect, PTL

\* And that a dirty line is never left to a write-through policy, which would drop it on
\* eviction: reconfigure flushes before it changes the policy.
THEOREM DirtyLinesAreWrittenBack ==
  ASSUME NoSpanning
  PROVE  Spec => []DirtyOnlyUnderWriteBack
<1> QED BY SafetyCorrect, PTL

\* Then the cache is invisible: with the cached cell where there is one for
\* its memory, it implements FlatMemory, whatever its configuration, its
\* replacement policy and the errors of a script.
THEOREM CacheIsInvisible ==
  ASSUME NoSpanning
  PROVE  Spec => ImplementsFlatMemory
<1>1. Init => Safe /\ Flat!Init
  BY SafeInit
<1>2. TypeOK /\ Safe /\ [Next]_vars => Safe' /\ [Flat!Next]_(Flat!vars)
  BY SafeNext
<1> QED BY <1>1, <1>2, TypeCorrect, PTL DEF Spec, ImplementsFlatMemory, Flat!Spec

-----------------------------------------------------------------------------
(* The replacement of lines.  As long as no access spans two lines, LRU and *)
(* FIFO keep the lists they teach, and no policy gives a block up while its *)
(* set has room.  The cache keeps no lists, only ranks: first, that         *)
(* different ranks put a set in one order, and what renewing a way does to  *)
(* it.                                                                      *)

-----------------------------------------------------------------------------
(* Lists by descending rank. *)

\* Ranks under which no two members of S are level.
Ranking(S, rank) ==
  /\ \A x \in S : rank[x] \in Int
  /\ \A x, y \in S : rank[x] = rank[y] => x = y

\* A list of the whole set, those of higher rank first.
Descends(S, rank, list) ==
  /\ list \in [1 .. Cardinality(S) -> S]
  /\ \A i, j \in 1 .. Cardinality(S) : i < j => rank[list[i]] > rank[list[j]]

Above(S, rank, x) == {y \in S : rank[y] > rank[x]}

\* The members of a finite set above one of them are fewer than the set has.
LEMMA AboveCount ==
  ASSUME NEW S, IsFiniteSet(S), NEW rank, Ranking(S, rank), NEW x \in S
  PROVE  /\ Cardinality(S) \in Nat
         /\ Cardinality(Above(S, rank, x)) \in 0 .. Cardinality(S) - 1
         /\ \A y \in S : rank[x] > rank[y] =>
              Cardinality(Above(S, rank, x)) < Cardinality(Above(S, rank, y))
<1>1. ASSUME NEW y \in S
      PROVE  /\ IsFiniteSet(Above(S, rank, y))
             /\ Cardinality(Above(S, rank, y)) \in Nat
  <2>1. Above(S, rank, y) \in SUBSET S
    BY DEF Above
  <2>2. IsFiniteSet(Above(S, rank, y))
    BY <2>1, FS_Subset
  <2> QED BY <2>2, FS_CardinalityType
<1>2. x \notin Above(S, rank, x)
  BY DEF Above, Ranking
<1>3. Cardinality(Above(S, rank, x) \cup {x}) = Cardinality(Above(S, rank, x)) + 1
  BY <1>1, <1>2, FS_AddElement, Zenon
<1>4. Cardinality(S) \in Nat
  BY FS_CardinalityType
<1>5. Cardinality(Above(S, rank, x)) + 1 <= Cardinality(S)
  <2>1. Above(S, rank, x) \cup {x} \in SUBSET S
    BY DEF Above
  <2>2. Cardinality(Above(S, rank, x) \cup {x}) <= Cardinality(S)
    BY <2>1, FS_Subset
  <2> QED BY <1>3, <2>2
<1>6. ASSUME NEW y \in S, rank[x] > rank[y]
      PROVE  Cardinality(Above(S, rank, x)) < Cardinality(Above(S, rank, y))
  <2>1. Above(S, rank, x) \cup {x} \in SUBSET Above(S, rank, y)
    BY <1>6 DEF Above, Ranking
  <2>2. Cardinality(Above(S, rank, x) \cup {x}) <= Cardinality(Above(S, rank, y))
    BY <1>1, <2>1, FS_Subset
  <2> QED BY <1>1, <1>3, <2>2
<1> QED BY <1>1, <1>4, <1>5, <1>6

\* A list of the whole set exists.
LEMMA DescendingExists ==
  ASSUME NEW S, IsFiniteSet(S), NEW rank, Ranking(S, rank)
  PROVE  \E list : Descends(S, rank, list)
<1> DEFINE n == Cardinality(S)
           place == [x \in S |-> Cardinality(Above(S, rank, x)) + 1]
           list  == [i \in 1 .. n |-> CHOOSE x \in S : place[x] = i]
<1>1. n \in Nat
  BY FS_CardinalityType
<1>2. place \in [S -> 1 .. n]
  <2>1. ASSUME NEW x \in S
        PROVE  Cardinality(Above(S, rank, x)) + 1 \in 1 .. n
    BY <1>1, AboveCount
  <2> QED BY <2>1
<1>3. \A x, y \in S : rank[x] > rank[y] => place[x] < place[y]
  <2>1. ASSUME NEW x \in S, NEW y \in S, rank[x] > rank[y]
        PROVE  place[x] < place[y]
    <3>1. Cardinality(Above(S, rank, x)) < Cardinality(Above(S, rank, y))
      BY <2>1, AboveCount
    <3>2. /\ Cardinality(Above(S, rank, x)) \in Int
          /\ Cardinality(Above(S, rank, y)) \in Int
      BY <1>1, AboveCount
    <3> QED BY <3>1, <3>2
  <2> QED BY <2>1
<1> HIDE DEF place
<1>4. place \in Surjection(S, 1 .. n)
  <2>1. \A x, y \in S : place[x] = place[y] => x = y
    <3> SUFFICES ASSUME NEW x \in S, NEW y \in S, place[x] = place[y]
                 PROVE  x = y
      OBVIOUS
    <3>1. place[x] \in 1 .. n /\ place[y] \in 1 .. n
      BY <1>2
    <3>2. ~(rank[x] > rank[y]) /\ ~(rank[y] > rank[x])
      BY <1>3, <3>1
    <3> QED BY <3>2 DEF Ranking
  <2>2. place \in Injection(S, 1 .. n)
    BY <1>2, <2>1 DEF Injection, IsInjective
  <2>3. IsFiniteSet(1 .. n) /\ Cardinality(1 .. n) = n
    BY <1>1, FS_Interval
  <2> QED BY <2>2, <2>3, FS_Injection
<1>5. \A i \in 1 .. n : \E x \in S : place[x] = i
  BY <1>4 DEF Surjection
<1>6. \A i \in 1 .. n : list[i] \in S /\ place[list[i]] = i
  BY <1>5
<1>7. list \in [1 .. n -> S]
  BY <1>6
<1> HIDE DEF list
<1>8. ASSUME NEW i \in 1 .. n, NEW j \in 1 .. n, i < j
      PROVE  rank[list[i]] > rank[list[j]]
  <2>1. list[i] \in S /\ list[j] \in S /\ place[list[i]] = i /\ place[list[j]] = j
    BY <1>6
  <2>2. ~(rank[list[j]] > rank[list[i]])
    BY <1>3, <1>8, <2>1
  <2>3. rank[list[i]] # rank[list[j]]
    BY <1>8, <2>1 DEF Ranking
  <2> QED BY <2>1, <2>2, <2>3 DEF Ranking
<1> QED BY <1>7, <1>8 DEF Descends

\* A descending list of the whole set has every member once, after as many as
\* are above it.
LEMMA DescendingPlaces ==
  ASSUME NEW S, IsFiniteSet(S), NEW rank, Ranking(S, rank),
         NEW list, Descends(S, rank, list)
  PROVE  /\ \A i, j \in 1 .. Cardinality(S) : list[i] = list[j] => i = j
         /\ \A x \in S : \E i \in 1 .. Cardinality(S) : list[i] = x
         /\ \A i \in 1 .. Cardinality(S) :
              Cardinality(Above(S, rank, list[i])) = i - 1
<1> DEFINE n == Cardinality(S)
<1>1. n \in Nat
  BY FS_CardinalityType
<1>2. list \in [1 .. n -> S] /\ \A i \in 1 .. n : list[i] \in S /\ rank[list[i]] \in Int
  BY DEF Ranking, Descends
<1>3. \A i, j \in 1 .. n : i < j => rank[list[i]] > rank[list[j]]
  BY DEF Descends
<1> HIDE DEF n
<1>4. \A i, j \in 1 .. n : list[i] = list[j] => i = j
  <2> SUFFICES ASSUME NEW i \in 1 .. n, NEW j \in 1 .. n, list[i] = list[j]
               PROVE  i = j
    OBVIOUS
  <2>1. ~(i < j) /\ ~(j < i)
    BY <1>2, <1>3
  <2> QED BY <1>1, <2>1
<1>5. list \in Surjection(1 .. n, S)
  <2>1. list \in Injection(1 .. n, S)
    BY <1>2, <1>4 DEF Injection, IsInjective, n
  <2>2. IsFiniteSet(1 .. n) /\ Cardinality(1 .. n) = n
    BY <1>1, FS_Interval
  <2> QED BY <2>1, <2>2, FS_Injection DEF n
<1>6. \A x \in S : \E i \in 1 .. n : list[i] = x
  BY <1>5 DEF Surjection
<1>7. ASSUME NEW i \in 1 .. n
      PROVE  Cardinality(Above(S, rank, list[i])) = i - 1
  <2> DEFINE A == Above(S, rank, list[i])
             f == [j \in 1 .. i - 1 |-> list[j]]
  <2>1. i - 1 \in Nat /\ \A j \in 1 .. i - 1 : j \in 1 .. n /\ j < i
    BY <1>1
  <2>2. \A j \in 1 .. i - 1 : list[j] \in A
    BY <1>2, <1>3, <2>1 DEF Above
  <2>3. ASSUME NEW x \in A
        PROVE  \E j \in 1 .. i - 1 : list[j] = x
    <3>1. x \in S /\ rank[x] > rank[list[i]]
      BY DEF Above
    <3>2. PICK j \in 1 .. n : list[j] = x
      BY <1>6, <3>1
    <3>3. j # i /\ ~(i < j)
      BY <1>2, <1>3, <3>1, <3>2
    <3>4. j \in 1 .. i - 1
      BY <1>1, <3>3
    <3> QED BY <3>2, <3>4
  <2>4. f \in [1 .. i - 1 -> A] /\ \A j \in 1 .. i - 1 : f[j] = list[j]
    BY <2>2
  <2> HIDE DEF f, A
  <2>5. f \in Bijection(1 .. i - 1, A)
    BY <1>4, <2>1, <2>3, <2>4 DEF Bijection, Injection, Surjection, IsInjective
  <2> QED BY <2>1, <2>5, FS_CountingElements DEF ExistsBijection, A
<1> QED BY <1>4, <1>6, <1>7 DEF n

\* There is only one descending list of a set, and Ranked returns it.
LEMMA RankedIsDescending ==
  ASSUME NEW S, IsFiniteSet(S), NEW rank, Ranking(S, rank)
  PROVE  Descends(S, rank, Ranked(S, rank))
<1> DEFINE D(list) == \A i, j \in 1 .. Cardinality(S) : i < j => rank[list[i]] > rank[list[j]]
<1>1. \E list \in [1 .. Cardinality(S) -> S] : D(list)
  BY DescendingExists DEF Descends
<1>2. Ranked(S, rank) = CHOOSE list \in [1 .. Cardinality(S) -> S] : D(list)
  BY DEF Ranked
<1>3. Ranked(S, rank) \in [1 .. Cardinality(S) -> S] /\ D(Ranked(S, rank))
  <2> HIDE DEF D
  <2> QED BY <1>1, <1>2
<1> QED BY <1>3 DEF Descends

\* There is only one such list, so that Ranked is it.
LEMMA DescendingIsRanked ==
  ASSUME NEW S, IsFiniteSet(S), NEW rank, Ranking(S, rank),
         NEW list, Descends(S, rank, list)
  PROVE  list = Ranked(S, rank)
<1> DEFINE n == Cardinality(S)
           other == Ranked(S, rank)
<1>1. Descends(S, rank, other)
  BY RankedIsDescending
<1>2. n \in Nat
  BY FS_CardinalityType
<1> HIDE DEF other
<1>3. /\ \A x \in S : \E i \in 1 .. n : other[i] = x
      /\ \A i \in 1 .. n : Cardinality(Above(S, rank, other[i])) = i - 1
  BY <1>1, DescendingPlaces
<1>4. \A i \in 1 .. n : Cardinality(Above(S, rank, list[i])) = i - 1
  BY DescendingPlaces
<1>5. list \in [1 .. n -> S] /\ other \in [1 .. n -> S]
  BY <1>1 DEF Descends
<1> HIDE DEF n
<1>6. ASSUME NEW i \in 1 .. n
      PROVE  list[i] = other[i]
  <2>1. list[i] \in S
    BY <1>5
  <2>2. PICK j \in 1 .. n : other[j] = list[i]
    BY <1>3, <2>1
  <2>3. i - 1 = j - 1
    BY <1>3, <1>4, <2>2
  <2> QED BY <1>2, <2>2, <2>3
<1>7. list = other
  <2> DEFINE D == 1 .. n
  <2>1. list \in [D -> S] /\ other \in [D -> S]
    BY <1>5
  <2>2. \A i \in D : list[i] = other[i]
    BY <1>6
  <2> HIDE DEF D
  <2> QED BY <2>1, <2>2
<1> QED BY <1>7 DEF other

-----------------------------------------------------------------------------
(* What renewing a way does to the list of a set. *)

MovesToTop(W, rank, new, w, top) ==
  /\ \A v \in W : rank[v] <= top
  /\ \A v \in W : new[v] = IF v = w THEN top
                           ELSE IF rank[v] > rank[w] THEN rank[v] - 1 ELSE rank[v]

\* Moving one to the top and those above it down leaves the others in order.
LEMMA MovedToTop ==
  ASSUME NEW W, NEW rank, NEW new, NEW w \in W, NEW top \in Int,
         Ranking(W, rank), MovesToTop(W, rank, new, w, top)
  PROVE  /\ Ranking(W, new)
         /\ \A v \in W : v # w => new[w] > new[v]
         /\ \A u, v \in W : u # w /\ v # w /\ rank[u] > rank[v] => new[u] > new[v]
<1>1. /\ \A v \in W : rank[v] \in Int
      /\ \A u, v \in W : rank[u] = rank[v] => u = v
  BY DEF Ranking
<1>2. ASSUME NEW v \in W
      PROVE  /\ new[v] \in Int
             /\ v # w => new[v] < top
             /\ v = w => new[v] = top
  <2>1. new[v] = IF v = w THEN top ELSE IF rank[v] > rank[w] THEN rank[v] - 1 ELSE rank[v]
    BY DEF MovesToTop
  <2>2. rank[v] \in Int /\ rank[w] \in Int /\ rank[v] <= top /\ rank[w] <= top
    BY <1>1 DEF MovesToTop
  <2>3. v # w => rank[v] # rank[w]
    BY <1>1
  <2> QED BY <2>1, <2>2, <2>3
<1>3. ASSUME NEW u \in W, NEW v \in W, u # w, v # w, rank[u] > rank[v]
      PROVE  new[u] > new[v]
  <2>1. rank[u] # rank[w] /\ rank[v] # rank[w]
    BY <1>1, <1>3
  <2>2. rank[u] \in Int /\ rank[v] \in Int /\ rank[w] \in Int
    BY <1>1
  <2>3. /\ new[u] = IF rank[u] > rank[w] THEN rank[u] - 1 ELSE rank[u]
        /\ new[v] = IF rank[v] > rank[w] THEN rank[v] - 1 ELSE rank[v]
    BY <1>3 DEF MovesToTop
  <2> QED BY <1>3, <2>1, <2>2, <2>3
<1>4. ASSUME NEW u \in W, NEW v \in W, new[u] = new[v]
      PROVE  u = v
  <2>1. (u = w => new[u] = top) /\ (v = w => new[v] = top)
    BY <1>2
  <2>2. (u # w => new[u] < top) /\ (v # w => new[v] < top) /\ new[u] \in Int /\ new[v] \in Int
    BY <1>2
  <2>3. u # w /\ v # w => ~(rank[u] > rank[v]) /\ ~(rank[v] > rank[u])
    <3>1. u # w /\ v # w /\ rank[u] > rank[v] => new[u] > new[v]
      BY <1>3
    <3>2. u # w /\ v # w /\ rank[v] > rank[u] => new[v] > new[u]
      BY <1>3
    <3> QED BY <1>4, <2>2, <3>1, <3>2
  <2>4. rank[u] \in Int /\ rank[v] \in Int
    BY <1>1
  <2>5. u # w /\ v # w => rank[u] = rank[v]
    BY <2>3, <2>4
  <2> QED BY <1>1, <1>4, <2>1, <2>2, <2>5
<1>5. Ranking(W, new)
  BY <1>2, <1>4 DEF Ranking
<1>6. \A v \in W : v # w => new[w] > new[v]
  <2> SUFFICES ASSUME NEW v \in W, v # w
               PROVE  new[w] > new[v]
    OBVIOUS
  <2>1. new[w] = top /\ new[v] < top /\ new[v] \in Int
    BY <1>2
  <2> QED BY <2>1
<1> QED BY <1>3, <1>5, <1>6

\* A renewed way is above all others, which keep their order.
LEMMA NewestOrder ==
  ASSUME NEW n \in Nat \ {0}, NEW rank \in [0 .. n - 1 -> 0 .. n - 1],
         Ranking(0 .. n - 1, rank), NEW w \in 0 .. n - 1
  PROVE  /\ Ranking(0 .. n - 1, Newest(rank, w, n))
         /\ \A v \in 0 .. n - 1 : v # w => Newest(rank, w, n)[w] > Newest(rank, w, n)[v]
         /\ \A u, v \in 0 .. n - 1 : u # w /\ v # w /\ rank[u] > rank[v] =>
              Newest(rank, w, n)[u] > Newest(rank, w, n)[v]
<1> DEFINE W == 0 .. n - 1
           new == Newest(rank, w, n)
           top == n - 1
<1>1. \A v \in W : new[v] = IF v = w THEN top
                          ELSE IF rank[v] > rank[w] THEN rank[v] - 1 ELSE rank[v]
  BY DEF Newest
<1>2. \A v \in W : rank[v] <= top
  OBVIOUS
<1>3. w \in W /\ top \in Int /\ Ranking(W, rank)
  OBVIOUS
<1> HIDE DEF new, W, top
<1>4. /\ Ranking(W, new)
      /\ \A v \in W : v # w => new[w] > new[v]
      /\ \A u, v \in W : u # w /\ v # w /\ rank[u] > rank[v] => new[u] > new[v]
  <2>1. MovesToTop(W, rank, new, w, top)
    BY <1>1, <1>2 DEF MovesToTop
  <2> QED BY <1>3, <2>1, MovedToTop
<1> QED BY <1>4, Zenon DEF new, W

\* A list of m with b put in front, and its k-th place closed.
Moved(list, m, b, k) ==
  [i \in 1 .. m |-> IF i = 1 THEN b ELSE IF i <= k THEN list[i - 1] ELSE list[i]]

\* Renewing a way of the list moves it to the front.
LEMMA RenewedList ==
  ASSUME NEW n \in Nat \ {0}, NEW rank \in [0 .. n - 1 -> 0 .. n - 1],
         Ranking(0 .. n - 1, rank), NEW S \in SUBSET (0 .. n - 1),
         NEW k \in 1 .. Cardinality(S)
  PROVE  Ranked(S, Newest(rank, Ranked(S, rank)[k], n)) =
           Moved(Ranked(S, rank), Cardinality(S), Ranked(S, rank)[k], k)
<1> DEFINE m == Cardinality(S)
           list == Ranked(S, rank)
           new  == Newest(rank, list[k], n)
           moved == [i \in 1 .. m |-> IF i = 1 THEN list[k]
                                      ELSE IF i <= k THEN list[i - 1] ELSE list[i]]
<1>1. IsFiniteSet(S) /\ m \in Nat
  <2>1. IsFiniteSet(0 .. n - 1)
    BY FS_Interval
  <2>2. IsFiniteSet(S)
    BY <2>1, FS_Subset
  <2> QED BY <2>2, FS_CardinalityType
<1>2. Ranking(S, rank)
  BY DEF Ranking
<1>3. Descends(S, rank, list)
  BY <1>1, <1>2, RankedIsDescending
<1> HIDE DEF list
<1>4. \A i, j \in 1 .. m : list[i] = list[j] => i = j
  BY <1>1, <1>2, <1>3, DescendingPlaces
<1>5. list \in [1 .. m -> S] /\ \A i, j \in 1 .. m : i < j => rank[list[i]] > rank[list[j]]
  BY <1>3 DEF Descends
<1> HIDE DEF m
<1>6. k \in 1 .. m
  BY DEF m
<1>7. list[k] \in S /\ list[k] \in 0 .. n - 1
  BY <1>5, <1>6
<1>8. /\ Ranking(0 .. n - 1, new)
      /\ \A v \in 0 .. n - 1 : v # list[k] => new[list[k]] > new[v]
      /\ \A u, v \in 0 .. n - 1 : u # list[k] /\ v # list[k] /\ rank[u] > rank[v] => new[u] > new[v]
  BY <1>7, NewestOrder
<1> HIDE DEF new
<1>9. Ranking(S, new)
  BY <1>8 DEF Ranking
<1>10. moved \in [1 .. m -> S]
  <2>1. ASSUME NEW i \in 1 .. m
        PROVE  (IF i = 1 THEN list[k] ELSE IF i <= k THEN list[i - 1] ELSE list[i]) \in S
    BY <1>1, <1>5, <1>6
  <2> QED BY <2>1
<1>11. ASSUME NEW i \in 1 .. m, NEW j \in 1 .. m, i < j
       PROVE  new[moved[i]] > new[moved[j]]
  <2> DEFINE at(x) == IF x <= k THEN x - 1 ELSE x
  <2>1. ASSUME NEW x \in 1 .. m, x # 1
        PROVE  /\ at(x) \in 1 .. m /\ at(x) # k /\ moved[x] = list[at(x)]
               /\ moved[x] \in 0 .. n - 1 /\ moved[x] # list[k]
    <3>1. at(x) \in 1 .. m /\ at(x) # k
      BY <1>1, <1>6, <2>1
    <3>2. moved[x] = list[at(x)]
      BY <2>1
    <3> HIDE DEF at, moved
    <3> QED BY <1>4, <1>5, <1>6, <3>1, <3>2
  <2>2. j # 1
    BY <1>11
  <2>3. CASE i = 1
    <3>1. moved[i] = list[k]
      BY <2>3
    <3> HIDE DEF moved, at
    <3> QED BY <1>8, <2>1, <2>2, <3>1
  <2>4. CASE i # 1
    <3>1. at(i) < at(j)
      BY <1>11, <1>6
    <3> HIDE DEF moved, at
    <3>2. rank[moved[i]] > rank[moved[j]]
      BY <1>5, <2>1, <2>2, <2>4, <3>1
    <3> QED BY <1>8, <2>1, <2>2, <2>4, <3>2
  <2> QED BY <2>3, <2>4
<1>12. Descends(S, new, moved)
  BY <1>10, <1>11 DEF Descends, m
<1> HIDE DEF moved
<1>13. moved = Ranked(S, new)
  BY <1>1, <1>9, <1>12, DescendingIsRanked
<1> QED BY <1>13 DEF moved, new, list, m, Moved

\* Renewing a way that is not in the list puts it in front.
LEMMA ExtendedList ==
  ASSUME NEW n \in Nat \ {0}, NEW rank \in [0 .. n - 1 -> 0 .. n - 1],
         Ranking(0 .. n - 1, rank), NEW S \in SUBSET (0 .. n - 1),
         NEW w \in 0 .. n - 1, w \notin S
  PROVE  Ranked(S \cup {w}, Newest(rank, w, n)) =
           Moved(Ranked(S, rank), Cardinality(S) + 1, w, Cardinality(S) + 1)
<1> DEFINE m == Cardinality(S)
           list == Ranked(S, rank)
           new  == Newest(rank, w, n)
           more == [i \in 1 .. m + 1 |-> IF i = 1 THEN w ELSE list[i - 1]]
<1>1. /\ IsFiniteSet(S) /\ m \in Nat
      /\ IsFiniteSet(S \cup {w}) /\ Cardinality(S \cup {w}) = m + 1
  <2>1. IsFiniteSet(0 .. n - 1)
    BY FS_Interval
  <2>2. IsFiniteSet(S)
    BY <2>1, FS_Subset
  <2> QED BY <2>2, FS_CardinalityType, FS_AddElement
<1>2. Ranking(S, rank)
  BY DEF Ranking
<1>3. Descends(S, rank, list)
  BY <1>1, <1>2, RankedIsDescending
<1> HIDE DEF list
<1>4. list \in [1 .. m -> S] /\ \A i, j \in 1 .. m : i < j => rank[list[i]] > rank[list[j]]
  BY <1>3 DEF Descends
<1> HIDE DEF m
<1>5. /\ Ranking(0 .. n - 1, new)
      /\ \A v \in 0 .. n - 1 : v # w => new[w] > new[v]
      /\ \A u, v \in 0 .. n - 1 : u # w /\ v # w /\ rank[u] > rank[v] => new[u] > new[v]
  BY NewestOrder
<1> HIDE DEF new
<1>6. Ranking(S \cup {w}, new)
  BY <1>5 DEF Ranking
<1>7. more \in [1 .. m + 1 -> S \cup {w}]
  <2>1. ASSUME NEW i \in 1 .. m + 1
        PROVE  (IF i = 1 THEN w ELSE list[i - 1]) \in S \cup {w}
    BY <1>1, <1>4
  <2> QED BY <2>1
<1>8. ASSUME NEW i \in 1 .. m + 1, NEW j \in 1 .. m + 1, i < j
      PROVE  new[more[i]] > new[more[j]]
  <2>1. ASSUME NEW x \in 1 .. m + 1, x # 1
        PROVE  /\ x - 1 \in 1 .. m /\ more[x] = list[x - 1]
               /\ more[x] \in 0 .. n - 1 /\ more[x] # w
    <3>1. x - 1 \in 1 .. m /\ more[x] = list[x - 1]
      BY <1>1, <2>1
    <3> HIDE DEF more
    <3> QED BY <1>4, <3>1
  <2>2. j # 1
    BY <1>8
  <2>3. CASE i = 1
    <3>1. more[i] = w
      BY <2>3
    <3> HIDE DEF more
    <3> QED BY <1>5, <2>1, <2>2, <3>1
  <2>4. CASE i # 1
    <3> HIDE DEF more
    <3>1. i - 1 < j - 1
      BY <1>8
    <3>2. rank[more[i]] > rank[more[j]]
      BY <1>4, <2>1, <2>2, <2>4, <3>1
    <3> QED BY <1>5, <2>1, <2>2, <2>4, <3>2
  <2> QED BY <2>3, <2>4
<1>9. Descends(S \cup {w}, new, more)
  BY <1>1, <1>7, <1>8 DEF Descends
<1> HIDE DEF more
<1>10. more = Ranked(S \cup {w}, new)
  BY <1>1, <1>6, <1>9, DescendingIsRanked
<1>11. more = Moved(list, m + 1, w, m + 1)
  <2>1. \A i \in 1 .. m + 1 : (IF i = 1 THEN w ELSE list[i - 1]) =
           (IF i = 1 THEN w ELSE IF i <= m + 1 THEN list[i - 1] ELSE list[i])
    BY <1>1
  <2> QED BY <2>1, Zenon DEF more, Moved
<1> QED BY <1>10, <1>11 DEF new, list, m

-----------------------------------------------------------------------------
(* The blocks of a set as such a list. *)

\* No two ways of a set were used, or brought in, at the same time.
RanksDiffer(c) ==
  \A set \in Sets(c) : Ranking(Ways(c), c.recency[set]) /\ Ranking(Ways(c), c.arrival[set])

\* A set holds, newest first, the blocks of its valid ways.
LEMMA HeldList ==
  ASSUME NEW cfg, GeometryOK(cfg), NEW c \in Levels(cfg), RanksDiffer(c), NEW set \in Sets(c)
  PROVE  LET S == ValidWays(c, set)
         IN  /\ S \in SUBSET Ways(c)
             /\ IsFiniteSet(S)
             /\ Cardinality(S) \in Nat
             /\ Ranking(Ways(c), Order(c, set))
             /\ Ranking(S, Order(c, set))
             /\ Order(c, set) \in [Ways(c) -> Ways(c)]
             /\ Descends(S, Order(c, set), NewestFirst(c, set))
             /\ Held(c, set) = [i \in 1 .. Cardinality(S) |-> BlockOf(c, set, NewestFirst(c, set)[i])]
<1> DEFINE S == ValidWays(c, set)
           rank == Order(c, set)
           list == NewestFirst(c, set)
<1>1. S \in SUBSET Ways(c)
  BY DEF ValidWays
<1>2. IsFiniteSet(S) /\ Cardinality(S) \in Nat
  <2>1. IsFiniteSet(Ways(c))
    <3>1. Ways(c) = 0 .. cfg.ways - 1 /\ cfg.ways - 1 \in Int
      BY LevelFacts, GeometryFacts
    <3> QED BY <3>1, FS_Interval
  <2> HIDE DEF S
  <2>2. IsFiniteSet(S)
    BY <1>1, <2>1, FS_Subset
  <2> QED BY <2>2, FS_CardinalityType
<1>3. Ranking(Ways(c), rank)
  BY DEF RanksDiffer, Order
<1>4. rank \in [Ways(c) -> Ways(c)]
  BY LevelFacts DEF Order
<1>5. Ranking(S, rank)
  BY <1>1, <1>3 DEF Ranking
<1>6. Descends(S, rank, list)
  <2> HIDE DEF S, rank
  <2>1. Descends(S, rank, Ranked(S, rank))
    BY <1>2, <1>5, RankedIsDescending
  <2> QED BY <2>1 DEF NewestFirst, S, rank
<1>7. DOMAIN list = 1 .. Cardinality(S)
  <2> HIDE DEF S, rank, list
  <2> QED BY <1>6 DEF Descends
<1>8. Held(c, set) = [i \in 1 .. Cardinality(S) |-> BlockOf(c, set, list[i])]
  <2> HIDE DEF S
  <2> QED BY <1>7 DEF Held
<1> QED BY <1>1, <1>2, <1>3, <1>4, <1>5, <1>6, <1>8

\* The block of a line tells its tag.
LEMMA BlockTag ==
  ASSUME NEW cfg, GeometryOK(cfg), NEW c \in Levels(cfg), NEW set \in Sets(c),
         NEW p \in Nat, NEW q \in Nat, p * cfg.sets + set = q * cfg.sets + set
  PROVE  p = q
<1>1. cfg.sets \in Nat \ {0} /\ set \in 0 .. cfg.sets - 1
  BY GeometryFacts, LevelFacts
<1>2. (cfg.sets * p + set) \div cfg.sets = p /\ (cfg.sets * q + set) \div cfg.sets = q
  BY <1>1, DivModUnique
<1>3. cfg.sets * p = p * cfg.sets /\ cfg.sets * q = q * cfg.sets
  BY <1>1
<1> QED BY <1>2, <1>3

\* Those blocks are numbers, and differ when the tags do.
LEMMA BlockOfFacts ==
  ASSUME NEW cfg, GeometryOK(cfg), NEW c \in Levels(cfg), NEW set \in Sets(c)
  PROVE  /\ \A w \in Ways(c) : BlockOf(c, set, w) \in Nat
         /\ Unique(c) => \A v, w \in ValidWays(c, set) :
                           BlockOf(c, set, v) = BlockOf(c, set, w) => v = w
<1>1. cfg.sets \in Nat \ {0} /\ c.cfg = cfg /\ set \in 0 .. cfg.sets - 1
  BY GeometryFacts, LevelFacts
<1>2. \A w \in Ways(c) : c.line[set][w].tag \in Nat
  <2> SUFFICES ASSUME NEW w \in Ways(c)
               PROVE  c.line[set][w].tag \in Nat
    OBVIOUS
  <2>1. c.line[set][w] \in Lines(cfg)
    BY LevelFacts
  <2> QED BY <2>1 DEF Lines
<1>4. \A w \in Ways(c) : BlockOf(c, set, w) \in Nat
  BY <1>1, <1>2 DEF BlockOf
<1>5. ASSUME Unique(c), NEW v \in ValidWays(c, set), NEW w \in ValidWays(c, set),
             BlockOf(c, set, v) = BlockOf(c, set, w)
      PROVE  v = w
  <2>1. v \in Ways(c) /\ w \in Ways(c) /\ c.line[set][v].valid /\ c.line[set][w].valid
    BY DEF ValidWays
  <2>2. c.line[set][v].tag = c.line[set][w].tag
    BY <1>1, <1>2, <1>5, <2>1, BlockTag DEF BlockOf
  <2> QED BY <1>5, <2>1, <2>2 DEF Unique
<1> QED BY <1>4, <1>5

\* The block of an address is held exactly when the address is resident.
LEMMA BlockOfAddress ==
  ASSUME NEW cfg, GeometryOK(cfg), NEW c \in Levels(cfg), NEW a \in Nat
  PROVE  /\ \A w \in Matching(c, SetOf(c, a), Tag(c, a)) :
              BlockOf(c, SetOf(c, a), w) = Block(c, a)
         /\ \A w \in ValidWays(c, SetOf(c, a)) :
              BlockOf(c, SetOf(c, a), w) = Block(c, a)
                => w \in Matching(c, SetOf(c, a), Tag(c, a))
<1>1. cfg.sets \in Nat \ {0} /\ c.cfg = cfg
  BY GeometryFacts, LevelFacts
<1>2. Block(c, a) \in Nat
  BY AddressTypes
<1>3. /\ SetOf(c, a) \in 0 .. cfg.sets - 1
      /\ Tag(c, a) \in Nat
      /\ Block(c, a) = cfg.sets * Tag(c, a) + SetOf(c, a)
  <2>1. /\ Block(c, a) \div cfg.sets \in Nat
        /\ Block(c, a) % cfg.sets \in 0 .. cfg.sets - 1
        /\ Block(c, a) =
             cfg.sets * (Block(c, a) \div cfg.sets) + (Block(c, a) % cfg.sets)
    BY <1>1, <1>2, DivMod, Zenon
  <2>2. Tag(c, a) = Block(c, a) \div cfg.sets /\ SetOf(c, a) = Block(c, a) % cfg.sets
    BY <1>1 DEF Tag, SetOf
  <2> QED BY <2>1, <2>2, Zenon
<1>4. Tag(c, a) * cfg.sets + SetOf(c, a) = Block(c, a)
  BY <1>1, <1>3
<1>5. ASSUME NEW w \in ValidWays(c, SetOf(c, a)), BlockOf(c, SetOf(c, a), w) = Block(c, a)
      PROVE  w \in Matching(c, SetOf(c, a), Tag(c, a))
  <2>1. w \in Ways(c) /\ c.line[SetOf(c, a)][w].valid
    BY DEF ValidWays
  <2>2. c.line[SetOf(c, a)][w].tag \in Nat
    <3>1. c.line[SetOf(c, a)][w] \in Lines(cfg)
      <4>1. SetOf(c, a) \in Sets(c) /\ c.line \in [Sets(c) -> [Ways(c) -> Lines(cfg)]]
        BY LevelFacts, AddressTypes, Zenon
      <4> QED BY <2>1, <4>1
    <3> QED BY <3>1 DEF Lines
  <2> DEFINE q == c.line[SetOf(c, a)][w].tag
             r == SetOf(c, a)
  <2>3. q * cfg.sets + r = Block(c, a)
    BY <1>1, <1>5 DEF BlockOf
  <2>4. q \in Nat /\ r \in 0 .. cfg.sets - 1
    BY <1>3, <2>2
  <2> HIDE DEF q, r
  <2>5. (cfg.sets * q + r) \div cfg.sets = q
    BY <1>1, <2>4, DivModUnique
  <2>6. cfg.sets * q = q * cfg.sets
    BY <1>1, <2>4
  <2>7. q = Tag(c, a)
    BY <1>1, <2>3, <2>5, <2>6 DEF Tag
  <2> QED BY <2>1, <2>7 DEF Matching, q
<1>6. ASSUME NEW w \in Matching(c, SetOf(c, a), Tag(c, a))
      PROVE  BlockOf(c, SetOf(c, a), w) = Block(c, a)
  BY <1>1, <1>4 DEF Matching, BlockOf
<1> QED BY <1>5, <1>6

-----------------------------------------------------------------------------
(* The lists of the user's view, element by element. *)

\* A list is a sequence of its length.
LEMMA ListIsSeq ==
  ASSUME NEW m \in Nat, NEW list \in [1 .. m -> Nat]
  PROVE  list \in Seq(Nat) /\ Len(list) = m
<1>1. list \in Seq(Nat)
  BY SeqDef
<1> QED BY <1>1, LenProperties

\* One element in front of a sequence.
LEMMA InFront ==
  ASSUME NEW b \in Nat, NEW list \in Seq(Nat)
  PROVE  /\ <<b>> \o list \in Seq(Nat)
         /\ Len(<<b>> \o list) = Len(list) + 1
         /\ (<<b>> \o list)[1] = b
         /\ \A i \in 1 .. Len(list) : (<<b>> \o list)[i + 1] = list[i]
<1>1. <<b>> \in Seq(Nat) /\ Len(<<b>>) = 1 /\ <<b>>[1] = b /\ Len(list) \in Nat
  OBVIOUS
<1>2. /\ <<b>> \o list \in Seq(Nat)
      /\ Len(<<b>> \o list) = Len(<<b>>) + Len(list)
      /\ \A i \in 1 .. Len(<<b>>) + Len(list) : (<<b>> \o list)[i] =
              IF i <= Len(<<b>>) THEN <<b>>[i] ELSE list[i - Len(<<b>>)]
  BY <1>1, ConcatProperties
<1> QED BY <1>1, <1>2

\* Two sequences with the same elements are equal.
LEMMA SameElements ==
  ASSUME NEW m \in Nat, NEW s \in Seq(Nat), Len(s) = m, NEW f \in [1 .. m -> Nat],
         \A i \in 1 .. m : s[i] = f[i]
  PROVE  s = f
BY ListIsSeq, SeqEqual

\* A new element before all of a list.
LEMMA Prepended ==
  ASSUME NEW m \in Nat, NEW list \in [1 .. m -> Nat], NEW b \in Nat
  PROVE  <<b>> \o list = Moved(list, m + 1, b, m + 1)
<1>1. list \in Seq(Nat) /\ Len(list) = m
  BY ListIsSeq
<1> DEFINE s == <<b>> \o list
           f == Moved(list, m + 1, b, m + 1)
<1>2. /\ s \in Seq(Nat) /\ Len(s) = m + 1 /\ s[1] = b
      /\ \A i \in 1 .. m : s[i + 1] = list[i]
  BY <1>1, InFront
<1>3. f \in [1 .. m + 1 -> Nat] /\ \A i \in 1 .. m + 1 : f[i] = IF i = 1 THEN b ELSE list[i - 1]
  BY DEF Moved
<1> HIDE DEF s, f
<1>4. ASSUME NEW i \in 1 .. m + 1
      PROVE  s[i] = f[i]
  <2>1. CASE i = 1
    BY <1>2, <1>3, <2>1
  <2>2. CASE i # 1
    <3>1. i - 1 \in 1 .. m /\ (i - 1) + 1 = i
      BY <2>2
    <3>2. s[i] = list[i - 1]
      BY <1>2, <3>1
    <3> QED BY <1>3, <2>2, <3>2
  <2> QED BY <2>1, <2>2
<1>5. s = f
  BY <1>2, <1>3, <1>4, SameElements
<1> QED BY <1>5 DEF s, f

\* ... and before all but the last.
LEMMA PrependedFront ==
  ASSUME NEW m \in Nat \ {0}, NEW list \in [1 .. m -> Nat], NEW b \in Nat
  PROVE  <<b>> \o Front(list) = Moved(list, m, b, m)
<1>1. list \in Seq(Nat) /\ Len(list) = m
  BY ListIsSeq
<1> DEFINE g == SubSeq(list, 1, m - 1)
<1>2. /\ Front(list) = g /\ g \in Seq(Nat) /\ Len(g) = m - 1
      /\ \A i \in 1 .. m - 1 : g[i] = list[i]
  <2>1. 1 \in Int /\ m - 1 \in Int /\ \A i \in 1 .. m - 1 : list[i] \in Nat
    OBVIOUS
  <2>2. /\ g \in Seq(Nat)
        /\ Len(g) = IF 1 <= m - 1 THEN (m - 1) - 1 + 1 ELSE 0
        /\ \A i \in 1 .. (m - 1) - 1 + 1 : g[i] = list[1 + i - 1]
    BY <2>1, SubSeqProperties
  <2> HIDE DEF g
  <2>3. Len(g) = m - 1 /\ \A i \in 1 .. m - 1 : g[i] = list[i]
    BY <2>2
  <2> QED BY <1>1, <2>2, <2>3 DEF Front, g
<1> HIDE DEF g
<1>3. g \in [1 .. m - 1 -> Nat] /\ m - 1 \in Nat
  <2>1. g \in [1 .. Len(g) -> Nat]
    BY <1>2, LenProperties
  <2> QED BY <1>2, <2>1
<1>4. <<b>> \o g = Moved(g, (m - 1) + 1, b, (m - 1) + 1)
  BY <1>3, Prepended
<1>5. Moved(g, (m - 1) + 1, b, (m - 1) + 1) = Moved(list, m, b, m)
  BY <1>2, <1>3 DEF Moved
<1> QED BY <1>2, <1>4, <1>5

\* An element before the rest of a list without repetitions.
LEMMA MovedToFront ==
  ASSUME NEW m \in Nat, NEW list \in [1 .. m -> Nat], NEW k \in 1 .. m,
         \A i, j \in 1 .. m : list[i] = list[j] => i = j
  PROVE  /\ Contains(list, list[k])
         /\ <<list[k]>> \o RemoveAt(list, PlaceOf(list, list[k])) = Moved(list, m, list[k], k)
<1>1. list \in Seq(Nat) /\ Len(list) = m
  BY ListIsSeq
<1>2. Contains(list, list[k])
  BY <1>1 DEF Contains
<1>3. PlaceOf(list, list[k]) = k
  <2>1. \A i \in 1 .. m : list[i] = list[k] <=> i = k
    OBVIOUS
  <2>2. PlaceOf(list, list[k]) = CHOOSE i \in 1 .. m : list[i] = list[k]
    BY <1>1 DEF PlaceOf
  <2> QED BY <2>1, <2>2
<1> DEFINE s == SubSeq(list, 1, k - 1)
           r == SubSeq(list, k + 1, m)
           g == s \o r
<1>4. RemoveAt(list, k) = g
  BY <1>1 DEF RemoveAt
<1>5. s \in Seq(Nat) /\ Len(s) = k - 1 /\ \A i \in 1 .. k - 1 : s[i] = list[i]
  <2>1. 1 \in Int /\ k - 1 \in Int /\ \A i \in 1 .. k - 1 : list[i] \in Nat
    OBVIOUS
  <2>2. /\ s \in Seq(Nat)
        /\ Len(s) = IF 1 <= k - 1 THEN (k - 1) - 1 + 1 ELSE 0
        /\ \A i \in 1 .. (k - 1) - 1 + 1 : s[i] = list[1 + i - 1]
    BY <2>1, SubSeqProperties
  <2> HIDE DEF s
  <2> QED BY <2>2
<1>6. r \in Seq(Nat) /\ Len(r) = m - k /\ \A i \in 1 .. m - k : r[i] = list[k + i]
  <2>1. k + 1 \in Int /\ m \in Int /\ \A i \in k + 1 .. m : list[i] \in Nat
    OBVIOUS
  <2>2. /\ r \in Seq(Nat)
        /\ Len(r) = IF k + 1 <= m THEN m - (k + 1) + 1 ELSE 0
        /\ \A i \in 1 .. m - (k + 1) + 1 : r[i] = list[(k + 1) + i - 1]
    BY <2>1, SubSeqProperties
  <2> HIDE DEF r
  <2> QED BY <2>2
<1> HIDE DEF s, r
<1>7. /\ g \in Seq(Nat) /\ Len(g) = m - 1
      /\ \A i \in 1 .. m - 1 : g[i] = IF i <= k - 1 THEN list[i] ELSE list[i + 1]
  <2>1. /\ g \in Seq(Nat)
        /\ Len(g) = Len(s) + Len(r)
        /\ \A i \in 1 .. Len(s) + Len(r) : g[i] = IF i <= Len(s) THEN s[i] ELSE r[i - Len(s)]
    BY <1>5, <1>6, ConcatProperties
  <2> HIDE DEF g
  <2>2. ASSUME NEW i \in 1 .. m - 1
        PROVE  g[i] = IF i <= k - 1 THEN list[i] ELSE list[i + 1]
    <3>1. i \in 1 .. Len(s) + Len(r)
      BY <1>5, <1>6
    <3>2. CASE i <= k - 1
      BY <1>5, <2>1, <3>1, <3>2
    <3>3. CASE ~(i <= k - 1)
      <4>1. i - (k - 1) \in 1 .. m - k /\ k + (i - (k - 1)) = i + 1
        BY <3>3
      <4>2. g[i] = r[i - (k - 1)]
        BY <1>5, <2>1, <3>1, <3>3
      <4>3. r[i - (k - 1)] = list[i + 1]
        BY <1>6, <4>1
      <4> QED BY <3>3, <4>2, <4>3
    <3> QED BY <3>2, <3>3
  <2> QED BY <1>5, <1>6, <2>1, <2>2
<1> HIDE DEF g
<1>8. g \in [1 .. m - 1 -> Nat] /\ m - 1 \in Nat
  <2>1. g \in [1 .. Len(g) -> Nat]
    BY <1>7, LenProperties
  <2> QED BY <1>7, <2>1
<1>9. list[k] \in Nat
  OBVIOUS
<1>10. <<list[k]>> \o g = Moved(g, (m - 1) + 1, list[k], (m - 1) + 1)
  BY <1>8, <1>9, Prepended
<1>11. Moved(g, (m - 1) + 1, list[k], (m - 1) + 1) = Moved(list, m, list[k], k)
  <2>1. ASSUME NEW i \in 1 .. m, i # 1
        PROVE  g[i - 1] = IF i <= k THEN list[i - 1] ELSE list[i]
    <3>1. i - 1 \in 1 .. m - 1 /\ (i - 1 <= k - 1 <=> i <= k) /\ (i - 1) + 1 = i
      BY <2>1
    <3> QED BY <1>7, <3>1
  <2>2. \A i \in 1 .. m : (IF i = 1 THEN list[k] ELSE IF i <= m THEN g[i - 1] ELSE g[i]) =
                         (IF i = 1 THEN list[k] ELSE IF i <= k THEN list[i - 1] ELSE list[i])
    <3> SUFFICES ASSUME NEW i \in 1 .. m, i # 1
                 PROVE  (IF i <= m THEN g[i - 1] ELSE g[i]) =
                          (IF i <= k THEN list[i - 1] ELSE list[i])
      OBVIOUS
    <3>1. i <= m
      OBVIOUS
    <3> QED BY <2>1, <3>1
  <2>3. (m - 1) + 1 = m
    OBVIOUS
  <2>4. Moved(g, m, list[k], m) = Moved(list, m, list[k], k)
    BY <2>2, Zenon DEF Moved
  <2> QED BY <2>3, <2>4
<1> QED BY <1>2, <1>3, <1>4, <1>10, <1>11

-----------------------------------------------------------------------------
(* What the steps of an access leave of a level c, in the level d. *)

SameTag(c, d, x, v) ==
  /\ d.line[x][v].valid <=> c.line[x][v].valid
  /\ d.line[x][v].tag = c.line[x][v].tag

SameBlocks(c, d, x) == \A v \in Ways(c) : SameTag(c, d, x, v)

SameOrder(c, d) == d.recency = c.recency /\ d.arrival = c.arrival

\* Way w of set x has been renewed.
Touched(c, d, x, w) ==
  /\ \A y \in Sets(c) : SameBlocks(c, d, y)
  /\ d.recency = [c.recency EXCEPT ![x] = Newest(@, w, c.cfg.ways)]
  /\ d.arrival = c.arrival

\* A line has been brought into way w of set x.
Installed(c, d, x, w, tag) ==
  /\ \A y \in Sets(c) \ {x} : SameBlocks(c, d, y)
  /\ \A v \in Ways(c) \ {w} : SameTag(c, d, x, v)
  /\ d.line[x][w].valid /\ d.line[x][w].tag = tag
  /\ d.recency = [c.recency EXCEPT ![x] = Newest(@, w, c.cfg.ways)]
  /\ d.arrival = [c.arrival EXCEPT ![x] = Newest(@, w, c.cfg.ways)]

\* Ways, sets and their members are the same in two levels of a configuration.
LEMMA SameShape ==
  ASSUME NEW cfg, NEW c \in Levels(cfg), NEW d \in Levels(cfg)
  PROVE  Ways(d) = Ways(c) /\ Sets(d) = Sets(c) /\ d.cfg = c.cfg
BY LevelFacts

\* A set whose blocks and ranks are the same holds the same list.
LEMMA SameHeld ==
  ASSUME NEW cfg, GeometryOK(cfg), NEW c \in Levels(cfg), NEW d \in Levels(cfg),
         RanksDiffer(c), NEW x \in Sets(c), SameBlocks(c, d, x), Order(d, x) = Order(c, x)
  PROVE  Held(d, x) = Held(c, x)
<1>1. Ways(d) = Ways(c) /\ d.cfg = c.cfg
  BY SameShape
<1>2. ValidWays(d, x) = ValidWays(c, x)
  BY <1>1 DEF ValidWays, SameBlocks, SameTag
<1> DEFINE S == ValidWays(c, x)
           list == NewestFirst(c, x)
<1>3. NewestFirst(d, x) = list
  BY <1>2 DEF NewestFirst
<1>4. S \in SUBSET Ways(c) /\ list \in [1 .. Cardinality(S) -> S]
  BY HeldList DEF Descends
<1>5. \A v \in S : BlockOf(d, x, v) = BlockOf(c, x, v)
  BY <1>1, <1>4 DEF BlockOf, SameBlocks, SameTag
<1> HIDE DEF S, list
<1>6. \A i \in DOMAIN list : BlockOf(d, x, list[i]) = BlockOf(c, x, list[i])
  BY <1>4, <1>5
<1>7. Held(d, x) = [i \in DOMAIN list |-> BlockOf(d, x, list[i])]
  BY <1>3 DEF Held
<1>8. Held(c, x) = [i \in DOMAIN list |-> BlockOf(c, x, list[i])]
  BY DEF Held, list
<1> QED BY <1>6, <1>7, <1>8

\* Renewing or replacing a way keeps all ranks different.
LEMMA RanksStayDifferent ==
  ASSUME NEW cfg, GeometryOK(cfg), NEW c \in Levels(cfg), NEW d \in Levels(cfg),
         RanksDiffer(c), NEW x \in Sets(c), NEW w \in Ways(c),
         NEW tag, Touched(c, d, x, w) \/ Installed(c, d, x, w, tag)
  PROVE  RanksDiffer(d)
<1>1. Ways(d) = Ways(c) /\ Sets(d) = Sets(c) /\ c.cfg.ways = cfg.ways
  BY SameShape, LevelFacts
<1>2. /\ cfg.ways \in Nat \ {0} /\ Ways(c) = 0 .. cfg.ways - 1
      /\ c.recency \in [Sets(c) -> [Ways(c) -> Ways(c)]]
      /\ c.arrival \in [Sets(c) -> [Ways(c) -> Ways(c)]]
  BY LevelFacts, GeometryFacts
<1>3. ASSUME NEW rank \in [Ways(c) -> Ways(c)], Ranking(Ways(c), rank)
      PROVE  Ranking(Ways(c), Newest(rank, w, cfg.ways))
  BY <1>2, <1>3, NewestOrder
<1>4. ASSUME NEW y \in Sets(c)
      PROVE  Ranking(Ways(c), d.recency[y]) /\ Ranking(Ways(c), d.arrival[y])
  <2>1. /\ Ranking(Ways(c), c.recency[y]) /\ c.recency[y] \in [Ways(c) -> Ways(c)]
        /\ Ranking(Ways(c), c.arrival[y]) /\ c.arrival[y] \in [Ways(c) -> Ways(c)]
    BY <1>2 DEF RanksDiffer
  <2>2. d.recency[y] = c.recency[y] \/ d.recency[y] = Newest(c.recency[y], w, cfg.ways)
    BY <1>1, <1>2, SMTT(30) DEF Touched, Installed
  <2>3. d.arrival[y] = c.arrival[y] \/ d.arrival[y] = Newest(c.arrival[y], w, cfg.ways)
    BY <1>1, <1>2, SMTT(30) DEF Touched, Installed
  <2> QED BY <1>3, <2>1, <2>2, <2>3
<1> QED BY <1>1, <1>4 DEF RanksDiffer

BlocksOf(c, x, list) == [i \in DOMAIN list |-> BlockOf(c, x, list[i])]

\* The ways of a list of p, but for the k-th, hold in d what they hold in c.
BlocksStay(c, d, x, list, p, m, k) ==
  /\ DOMAIN list = 1 .. p
  /\ \A i \in 1 .. m : i # k => BlockOf(d, x, list[i]) = BlockOf(c, x, list[i])

\* Ways moved in a list are blocks moved in the list of their blocks.
LEMMA MovedBlocks ==
  ASSUME NEW c, NEW d, NEW x, NEW p \in Nat, NEW list, NEW w,
         NEW m \in 1 .. p + 1, NEW k \in 1 .. m, m = p + 1 => k = m,
         BlocksStay(c, d, x, list, p, m, k)
  PROVE  BlocksOf(d, x, Moved(list, m, w, k)) =
           Moved(BlocksOf(c, x, list), m, BlockOf(d, x, w), k)
<1> DEFINE new == Moved(list, m, w, k)
           held == BlocksOf(c, x, list)
           blocks == Moved(held, m, BlockOf(d, x, w), k)
           D == 1 .. m
<1>1. /\ \A i \in 1 .. p : held[i] = BlockOf(c, x, list[i])
      /\ \A i \in 1 .. m : i # k => BlockOf(d, x, list[i]) = BlockOf(c, x, list[i])
  BY DEF BlocksOf, BlocksStay
<1> HIDE DEF held
<1>2. ASSUME NEW i \in D
      PROVE  BlockOf(d, x, new[i]) = blocks[i]
  <2>1. /\ new[i] = IF i = 1 THEN w ELSE IF i <= k THEN list[i - 1] ELSE list[i]
        /\ blocks[i] = IF i = 1 THEN BlockOf(d, x, w) ELSE IF i <= k THEN held[i - 1] ELSE held[i]
    BY DEF Moved
  <2> HIDE DEF new, blocks
  <2>2. CASE i = 1
    BY <2>1, <2>2
  <2>3. CASE i # 1 /\ i <= k
    <3>1. i - 1 \in 1 .. p /\ i - 1 \in 1 .. m /\ i - 1 # k
      BY <2>3
    <3>2. held[i - 1] = BlockOf(d, x, list[i - 1])
      BY <1>1, <3>1
    <3> QED BY <2>1, <2>3, <3>2
  <2>4. CASE i # 1 /\ ~(i <= k)
    <3>1. i \in 1 .. p /\ i # k
      BY <2>4
    <3>2. held[i] = BlockOf(d, x, list[i])
      BY <1>1, <3>1
    <3> QED BY <2>1, <2>4, <3>2
  <2> QED BY <2>2, <2>3, <2>4
<1>3. DOMAIN new = D
  BY DEF Moved
<1>4. blocks = [i \in D |-> blocks[i]]
  BY DEF Moved
<1> HIDE DEF new, blocks, D
<1>5. BlocksOf(d, x, new) = [i \in D |-> blocks[i]]
  BY <1>2, <1>3 DEF BlocksOf
<1> QED BY <1>4, <1>5, Zenon DEF new, blocks, held

\* A hit moves its block to the front of its list under LRU, and nowhere under FIFO.
LEMMA TouchedHeld ==
  ASSUME NEW cfg, GeometryOK(cfg), NEW c \in Levels(cfg), NEW d \in Levels(cfg),
         RanksDiffer(c), Unique(c), NEW x \in Sets(c), NEW w \in ValidWays(c, x),
         Touched(c, d, x, w)
  PROVE  /\ Held(d, x) = Used(c, x, BlockOf(c, x, w))
         /\ \A y \in Sets(c) \ {x} : Held(d, y) = Held(c, y)
<1> DEFINE S == ValidWays(c, x)
           m == Cardinality(S)
           n == cfg.ways
           rank == Order(c, x)
           list == NewestFirst(c, x)
           held == Held(c, x)
<1>1. Ways(d) = Ways(c) /\ Sets(d) = Sets(c) /\ d.cfg = c.cfg /\ c.cfg = cfg
  BY SameShape, LevelFacts
<1>2. /\ n \in Nat \ {0} /\ Ways(c) = 0 .. n - 1
      /\ c.recency \in [Sets(c) -> [Ways(c) -> Ways(c)]]
  BY LevelFacts, GeometryFacts
<1>3. /\ S \in SUBSET Ways(c) /\ IsFiniteSet(S) /\ m \in Nat
      /\ Ranking(Ways(c), rank) /\ Ranking(S, rank)
      /\ rank \in [Ways(c) -> Ways(c)]
      /\ Descends(S, rank, list)
      /\ held = [i \in 1 .. m |-> BlockOf(c, x, list[i])]
  BY HeldList
<1>4. \A y \in Sets(c) \ {x} : Held(d, y) = Held(c, y)
  <2> SUFFICES ASSUME NEW y \in Sets(c) \ {x}
               PROVE  Held(d, y) = Held(c, y)
    OBVIOUS
  <2>1. SameBlocks(c, d, y) /\ d.recency[y] = c.recency[y] /\ d.arrival[y] = c.arrival[y]
    BY <1>2 DEF Touched
  <2>2. Order(d, y) = Order(c, y)
    BY <1>1, <2>1 DEF Order
  <2> QED BY <2>1, <2>2, SameHeld
<1>5. /\ \A i, j \in 1 .. m : list[i] = list[j] => i = j
      /\ \A v \in S : \E i \in 1 .. m : list[i] = v
  BY <1>3, DescendingPlaces
<1>6. PICK k \in 1 .. m : list[k] = w
  BY <1>5
<1>7. list \in [1 .. m -> S]
  BY <1>3 DEF Descends
<1>8. /\ \A v \in S : BlockOf(c, x, v) \in Nat
      /\ \A u, v \in S : BlockOf(c, x, u) = BlockOf(c, x, v) => u = v
  <2> HIDE DEF S
  <2> QED BY <1>3, BlockOfFacts DEF S
<1>9. /\ held \in [1 .. m -> Nat]
      /\ \A i, j \in 1 .. m : held[i] = held[j] => i = j
      /\ held[k] = BlockOf(c, x, w)
  <2> HIDE DEF S, m, list, held
  <2>1. \A i \in 1 .. m : list[i] \in S
    BY <1>7
  <2>2. \A i \in 1 .. m : held[i] = BlockOf(c, x, list[i])
    BY <1>3
  <2> QED BY <1>3, <1>5, <1>6, <1>8, <2>1, <2>2
<1>10. SameBlocks(c, d, x)
  BY DEF Touched
<1>11. CASE cfg.repl = "FIFO"
  <2>1. Order(d, x) = Order(c, x)
    BY <1>1, <1>11 DEF Order, Touched
  <2>2. Held(d, x) = held
    BY <1>10, <2>1, SameHeld
  <2>3. Contains(held, BlockOf(c, x, w))
    <3> HIDE DEF held, m
    <3> QED BY <1>3, <1>9, MovedToFront
  <2> QED BY <1>1, <1>4, <1>11, <2>2, <2>3 DEF Used, UsedFIFO
<1>12. CASE cfg.repl # "FIFO"
  <2>1. Order(d, x) = Newest(rank, w, n)
    BY <1>1, <1>2, <1>12 DEF Order, Touched
  <2>2. ValidWays(d, x) = S
    BY <1>1, <1>10 DEF ValidWays, SameBlocks, SameTag
  <2>3. NewestFirst(d, x) = Moved(list, m, w, k)
    <3> HIDE DEF S, m, rank
    <3>1. list = Ranked(S, rank)
      BY DEF NewestFirst, S, rank
    <3> HIDE DEF list
    <3>2. Ranked(S, Newest(rank, list[k], n)) = Moved(list, m, list[k], k)
      <4> HIDE DEF n
      <4>1. /\ S \in SUBSET (0 .. n - 1)
            /\ rank \in [0 .. n - 1 -> 0 .. n - 1] /\ Ranking(0 .. n - 1, rank)
        BY <1>2, <1>3, Zenon
      <4>2. n \in Nat \ {0} /\ k \in 1 .. Cardinality(S)
        BY <1>2, <1>6 DEF m
      <4>3. Ranked(S, Newest(rank, Ranked(S, rank)[k], n)) =
              Moved(Ranked(S, rank), Cardinality(S), Ranked(S, rank)[k], k)
        BY <4>1, <4>2, RenewedList
      <4> QED BY <3>1, <4>3, Zenon DEF m
    <3> QED BY <1>6, <2>1, <2>2, <3>2 DEF NewestFirst
  <2>4. Held(d, x) = Moved(held, m, BlockOf(c, x, w), k)
    <3>1. \A v \in S : BlockOf(d, x, v) = BlockOf(c, x, v)
      BY <1>1, <1>3, <1>10 DEF BlockOf, SameBlocks, SameTag
    <3> HIDE DEF S, m, list, held
    <3>2. \A i \in 1 .. m : list[i] \in S
      BY <1>7
    <3>3. BlocksStay(c, d, x, list, m, m, k)
      BY <1>7, <3>1, <3>2 DEF BlocksStay
    <3>4. m \in 1 .. m + 1 /\ m # m + 1
      BY <1>3, <1>6
    <3>5. BlocksOf(d, x, Moved(list, m, w, k)) =
            Moved(BlocksOf(c, x, list), m, BlockOf(d, x, w), k)
      BY <1>3, <3>3, <3>4, MovedBlocks
    <3>6. BlocksOf(c, x, list) = held /\ Held(d, x) = BlocksOf(d, x, Moved(list, m, w, k))
      BY <2>3 DEF BlocksOf, Held, list, held
    <3> QED BY <3>1, <3>5, <3>6 DEF S
  <2>5. /\ Contains(held, BlockOf(c, x, w))
        /\ <<BlockOf(c, x, w)>> \o RemoveAt(held, PlaceOf(held, BlockOf(c, x, w)))
              = Moved(held, m, BlockOf(c, x, w), k)
    <3> HIDE DEF held, m
    <3>1. /\ Contains(held, held[k])
          /\ <<held[k]>> \o RemoveAt(held, PlaceOf(held, held[k])) = Moved(held, m, held[k], k)
      BY <1>3, <1>9, MovedToFront
    <3> QED BY <1>9, <3>1
  <2> QED BY <1>1, <1>4, <1>12, <2>4, <2>5 DEF Used, UsedLRU
<1> QED BY <1>11, <1>12

\* The oldest way of a full set is the last of its list.
LEMMA OldestIsLast ==
  ASSUME NEW n \in Nat \ {0}, NEW rank, Ranking(0 .. n - 1, rank), NEW list,
         Descends(0 .. n - 1, rank, list)
  PROVE  list[n] = Oldest(rank, n)
<1> DEFINE W == 0 .. n - 1
           oldest == Oldest(rank, n)
<1>1. IsFiniteSet(W) /\ Cardinality(W) = n
  BY FS_Interval
<1>2. /\ list \in [1 .. n -> W]
      /\ \A i, j \in 1 .. n : i < j => rank[list[i]] > rank[list[j]]
      /\ \A v \in W : \E i \in 1 .. n : list[i] = v
  <2> HIDE DEF W
  <2>1. \A v \in W : \E i \in 1 .. n : list[i] = v
    BY <1>1, DescendingPlaces DEF W
  <2> QED BY <1>1, <2>1 DEF Descends, W
<1>3. oldest = CHOOSE w \in W : \A v \in W : rank[w] <= rank[v]
  BY DEF Oldest
<1> HIDE DEF W, oldest
<1>4. n \in 1 .. n /\ list[n] \in W
  BY <1>2
<1>5. \A v \in W : rank[v] \in Int
  BY DEF Ranking, W
<1>6. ASSUME NEW v \in W
      PROVE  rank[list[n]] <= rank[v]
  <2>1. PICK i \in 1 .. n : list[i] = v
    BY <1>2
  <2>2. i = n \/ i < n
    OBVIOUS
  <2> QED BY <1>2, <1>4, <1>5, <2>1, <2>2
<1>7. oldest \in W /\ \A v \in W : rank[oldest] <= rank[v]
  BY <1>3, <1>4, <1>6
<1>8. rank[oldest] = rank[list[n]]
  BY <1>4, <1>5, <1>6, <1>7
<1> QED BY <1>4, <1>7, <1>8 DEF Ranking, W, oldest

\* A miss puts its block in front, and drops the last one of a full set.
LEMMA InstalledHeld ==
  ASSUME NEW cfg, GeometryOK(cfg), NEW c \in Levels(cfg), NEW d \in Levels(cfg),
         RanksDiffer(c), NEW x \in Sets(c), NEW w \in Ways(c), NEW tag \in Nat,
         Installed(c, d, x, w, tag),
         \A v \in ValidWays(c, x) : c.line[x][v].tag # tag,
         \/ w \notin ValidWays(c, x)
         \/ ValidWays(c, x) = Ways(c) /\ w = Oldest(Order(c, x), cfg.ways)
  PROVE  /\ Held(d, x) = Used(c, x, BlockOf(d, x, w))
         /\ \A y \in Sets(c) \ {x} : Held(d, y) = Held(c, y)
<1> DEFINE S == ValidWays(c, x)
           m == Cardinality(S)
           n == cfg.ways
           rank == Order(c, x)
           list == NewestFirst(c, x)
           held == Held(c, x)
           b == BlockOf(d, x, w)
<1>1. Ways(d) = Ways(c) /\ Sets(d) = Sets(c) /\ d.cfg = c.cfg /\ c.cfg = cfg
  BY SameShape, LevelFacts
<1>2. /\ n \in Nat \ {0} /\ Ways(c) = 0 .. n - 1
      /\ c.recency \in [Sets(c) -> [Ways(c) -> Ways(c)]]
      /\ c.arrival \in [Sets(c) -> [Ways(c) -> Ways(c)]]
  BY LevelFacts, GeometryFacts
<1>3. /\ S \in SUBSET Ways(c) /\ IsFiniteSet(S) /\ m \in Nat
      /\ Ranking(Ways(c), rank) /\ Ranking(S, rank)
      /\ rank \in [Ways(c) -> Ways(c)]
      /\ Descends(S, rank, list)
      /\ held = [i \in 1 .. m |-> BlockOf(c, x, list[i])]
  BY HeldList
<1>4. \A y \in Sets(c) \ {x} : Held(d, y) = Held(c, y)
  <2> SUFFICES ASSUME NEW y \in Sets(c) \ {x}
               PROVE  Held(d, y) = Held(c, y)
    OBVIOUS
  <2>1. SameBlocks(c, d, y) /\ d.recency[y] = c.recency[y] /\ d.arrival[y] = c.arrival[y]
    BY <1>2 DEF Installed
  <2>2. Order(d, y) = Order(c, y)
    BY <1>1, <2>1 DEF Order
  <2> QED BY <2>1, <2>2, SameHeld
<1>5. list \in [1 .. m -> S] /\ list = Ranked(S, rank)
  BY <1>3 DEF Descends, NewestFirst
<1>6. \A v \in Ways(c) \ {w} : BlockOf(d, x, v) = BlockOf(c, x, v)
  BY <1>1 DEF Installed, SameTag, BlockOf
<1>7. \A v \in S : BlockOf(c, x, v) \in Nat /\ BlockOf(c, x, v) # b
  <2> SUFFICES ASSUME NEW v \in S
               PROVE  BlockOf(c, x, v) \in Nat /\ BlockOf(c, x, v) # b
    OBVIOUS
  <2>1. c.line[x][v].tag # tag /\ v \in Ways(c)
    BY <1>3
  <2>2. BlockOf(c, x, v) \in Nat
    BY <2>1, BlockOfFacts
  <2>3. c.line[x][v].tag \in Nat
    <3>1. c.line[x][v] \in Lines(cfg)
      BY <2>1, LevelFacts
    <3> QED BY <3>1 DEF Lines
  <2>4. BlockOf(c, x, v) = c.line[x][v].tag * cfg.sets + x /\ b = tag * cfg.sets + x
    BY <1>1 DEF BlockOf, Installed
  <2> HIDE DEF b
  <2> QED BY <2>1, <2>2, <2>3, <2>4, BlockTag
<1>8. b \in Nat
  BY <1>1, BlockOfFacts
<1>9. held \in [1 .. m -> Nat] /\ \A i \in 1 .. m : held[i] # b
  <2> HIDE DEF S, m, list, held, b
  <2>1. \A i \in 1 .. m : list[i] \in S
    BY <1>5
  <2>2. \A i \in 1 .. m : BlockOf(c, x, list[i]) \in Nat /\ BlockOf(c, x, list[i]) # b
    BY <1>7, <2>1
  <2> QED BY <1>3, <2>2
<1>10. ~Contains(held, b) /\ Len(held) = m
  <2> HIDE DEF S, m, held, b
  <2>1. Len(held) = m
    BY <1>3, <1>9, ListIsSeq
  <2> QED BY <1>9, <2>1 DEF Contains
<1>11. Used(c, x, b) = IF m < n THEN <<b>> \o held ELSE <<b>> \o Front(held)
  <2> HIDE DEF m, held, b
  <2> QED BY <1>1, <1>10 DEF Used, UsedFIFO, UsedLRU, held
<1>12. ValidWays(d, x) = S \cup {w}
  BY <1>1 DEF ValidWays, Installed, SameTag
<1>13. Order(d, x) = Newest(rank, w, n)
  BY <1>1, <1>2 DEF Order, Installed
<1>14. CASE w \notin S
  <2> HIDE DEF S, m, n, rank, list, held, b
  <2>1. m < n
    <3>1. Cardinality(S \cup {w}) = m + 1
      BY <1>3, <1>14, FS_AddElement DEF m
    <3>2. IsFiniteSet(0 .. n - 1) /\ Cardinality(0 .. n - 1) = n
      BY <1>2, FS_Interval
    <3>3. S \cup {w} \in SUBSET (0 .. n - 1)
      BY <1>2, <1>3
    <3>4. Cardinality(S \cup {w}) <= n
      BY <3>2, <3>3, FS_Subset
    <3> QED BY <1>2, <1>3, <3>1, <3>4
  <2>2. NewestFirst(d, x) = Moved(list, m + 1, w, m + 1)
    <3>1. /\ S \in SUBSET (0 .. n - 1) /\ rank \in [0 .. n - 1 -> 0 .. n - 1]
          /\ Ranking(0 .. n - 1, rank) /\ w \in 0 .. n - 1
          /\ n \in Nat \ {0} /\ w \notin S
      BY <1>2, <1>3, <1>14, Zenon
    <3>2. Ranked(S \cup {w}, Newest(rank, w, n)) =
            Moved(Ranked(S, rank), Cardinality(S) + 1, w, Cardinality(S) + 1)
      BY <3>1, ExtendedList
    <3> QED BY <1>5, <1>12, <1>13, <3>2, Zenon DEF NewestFirst, m
  <2>3. BlocksOf(d, x, Moved(list, m + 1, w, m + 1)) =
          Moved(BlocksOf(c, x, list), m + 1, b, m + 1)
    <3>1. \A i \in 1 .. m + 1 : i # m + 1 => i \in 1 .. m
      BY <1>3
    <3>2. \A i \in 1 .. m + 1 : i # m + 1 => BlockOf(d, x, list[i]) = BlockOf(c, x, list[i])
      BY <1>3, <1>5, <1>6, <1>14, <3>1
    <3>3. BlocksStay(c, d, x, list, m, m + 1, m + 1)
      BY <1>5, <3>2 DEF BlocksStay
    <3>4. m \in Nat /\ m + 1 \in 1 .. m + 1
      BY <1>3
    <3> QED BY <3>3, <3>4, MovedBlocks DEF b
  <2>4. Held(d, x) = Moved(held, m + 1, b, m + 1)
    BY <2>2, <2>3 DEF Held, BlocksOf, held, list
  <2>5. <<b>> \o held = Moved(held, m + 1, b, m + 1)
    BY <1>3, <1>8, <1>9, Prepended
  <2> QED BY <1>4, <1>11, <2>1, <2>4, <2>5 DEF b
<1>15. CASE S = Ways(c) /\ w = Oldest(rank, n)
  <2> HIDE DEF S, m, n, rank, list, held, b
  <2>1. S = 0 .. n - 1 /\ m = n
    <3>1. Cardinality(0 .. n - 1) = n
      BY <1>2, FS_Interval
    <3> QED BY <1>2, <1>15, <3>1 DEF m
  <2>2. list[n] = w
    BY <1>2, <1>3, <1>15, <2>1, OldestIsLast
  <2>3. NewestFirst(d, x) = Moved(list, n, w, n)
    <3>1. S \in SUBSET (0 .. n - 1) /\ rank \in [0 .. n - 1 -> 0 .. n - 1]
            /\ Ranking(0 .. n - 1, rank)
      BY <1>2, <1>3, Zenon
    <3>2. n \in 1 .. Cardinality(S)
      BY <1>2, <2>1 DEF m
    <3>3. Ranked(S, Newest(rank, Ranked(S, rank)[n], n)) =
            Moved(Ranked(S, rank), Cardinality(S), Ranked(S, rank)[n], n)
      BY <1>2, <3>1, <3>2, RenewedList, ZenonT(30)
    <3>4. S \cup {w} = S
      BY <1>2, <1>15
    <3>5. Cardinality(S) = n
      BY <2>1 DEF m
    <3> QED BY <1>5, <1>12, <1>13, <2>2, <3>3, <3>4, <3>5, Zenon DEF NewestFirst
  <2>4. BlocksOf(d, x, Moved(list, n, w, n)) = Moved(BlocksOf(c, x, list), n, b, n)
    <3>1. \A i \in 1 .. n : i # n => list[i] # list[n] /\ list[i] \in S
      <4>1. n \in 1 .. n
        BY <1>2
      <4>2. IsFiniteSet(S) /\ Ranking(S, rank) /\ Descends(S, rank, list)
        BY <1>3
      <4>3. \A i, j \in 1 .. Cardinality(S) : list[i] = list[j] => i = j
        BY <4>2, DescendingPlaces
      <4> QED BY <1>5, <2>1, <4>1, <4>3 DEF m
    <3>2. \A i \in 1 .. n : i # n => BlockOf(d, x, list[i]) = BlockOf(c, x, list[i])
      BY <1>3, <1>6, <2>2, <3>1
    <3>3. BlocksStay(c, d, x, list, n, n, n)
      BY <1>5, <2>1, <3>2 DEF BlocksStay
    <3>4. n \in Nat /\ n \in 1 .. n + 1 /\ n \in 1 .. n
      BY <1>2
    <3> QED BY <3>3, <3>4, MovedBlocks DEF b
  <2>5. Held(d, x) = Moved(held, n, b, n)
    BY <2>3, <2>4 DEF Held, BlocksOf, held, list
  <2>6. <<b>> \o Front(held) = Moved(held, n, b, n)
    BY <1>2, <1>8, <1>9, <2>1, PrependedFront
  <2> QED BY <1>2, <1>4, <1>11, <2>1, <2>5, <2>6 DEF b
<1> QED BY <1>14, <1>15

-----------------------------------------------------------------------------
(* The steps of an access, told by what they move. *)

\* All lines hold the blocks they held, in the order they had.
Still(c, d) == (\A y \in Sets(c) : SameBlocks(c, d, y)) /\ SameOrder(c, d)

\* ... but for way w of set x.
StillBut(c, d, x, w) ==
  /\ \A y \in Sets(c), v \in Ways(c) : y # x \/ v # w => SameTag(c, d, y, v)
  /\ SameOrder(c, d)

\* Putting a line into a way leaves the others as they are.
LEMMA LinePut ==
  ASSUME NEW cfg, NEW s \in States(cfg), NEW set \in Sets(s.c), NEW w \in Ways(s.c), NEW l,
         NEW t, t = [s EXCEPT !.c.line[set][w] = l]
  PROVE  StillBut(s.c, t.c, set, w)
<1>1. /\ s.c \in Levels(cfg)
      /\ s.c.line \in [Sets(s.c) -> [Ways(s.c) -> Lines(cfg)]]
  BY LevelFacts DEF States
<1>2. /\ t.c.line = [s.c.line EXCEPT ![set][w] = l]
      /\ t.c.recency = s.c.recency /\ t.c.arrival = s.c.arrival
  BY <1>1 DEF States, Levels
<1>3. \A y \in Sets(s.c), v \in Ways(s.c) : y # set \/ v # w => t.c.line[y][v] = s.c.line[y][v]
  BY <1>1, <1>2
<1> QED BY <1>2, <1>3 DEF StillBut, SameTag, SameOrder

\* Writing a line back moves none.
LEMMA WriteBackStill ==
  ASSUME NEW cfg, GeometryOK(cfg), NEW s \in States(cfg), NEW set \in Sets(s.c),
         NEW w \in Ways(s.c)
  PROVE  StillBut(s.c, WriteBack(s, set, w).c, set, w)
<1> DEFINE k == s.c.line[set][w]
           l == [k EXCEPT !.dirty = FALSE]
           below == MemWrite(s.n, LineStart(s.c, set, k.tag), k.data)
           t == WriteBack(s, set, w)
           u == [s EXCEPT !.c.line[set][w] = l]
<1>1. s.c \in Levels(cfg)
  BY DEF States
<1>2. CASE ~(k.valid /\ k.dirty)
  <2>1. t = s
    BY <1>2, Zenon DEF WriteBack
  <2> QED BY <2>1 DEF StillBut, SameTag, SameOrder
<1>3. CASE k.valid /\ k.dirty
  <2>1. t = [s EXCEPT !.n = below, !.c.line[set][w].dirty = FALSE]
    BY <1>3 DEF WriteBack, MemOk
  <2>2. t.c = u.c
    <3> HIDE DEF t, below
    <3> QED BY <1>1, <2>1 DEF States, Levels
  <2>3. StillBut(s.c, u.c, set, w)
    <3> HIDE DEF l
    <3> QED BY LinePut
  <2> QED BY <2>2, <2>3
<1> QED BY <1>2, <1>3

\* An eviction touches one way, and nothing when the script has named none.
LEMMA EvictStill ==
  ASSUME NEW cfg, GeometryOK(cfg), NEW s \in States(cfg), Ok(s), NEW set \in Sets(s.c)
  PROVE  \/ /\ EvictWay(s, set) \in Ways(s.c)
            /\ StillBut(s.c, Evict(s, set).c, set, EvictWay(s, set))
            /\ Ok(Evict(s, set))
         \/ Evict(s, set).c = s.c /\ Evict(s, set).err = "script"
<1> DEFINE w  == EvictWay(s, set)
           s1 == IF s.c.cfg.write = "WriteBack" THEN WriteBack(s, set, w) ELSE s
           e  == Evict(s, set)
<1>1. CASE w \notin Ways(s.c)
  <2>1. e = [s EXCEPT !.err = "script"]
    BY <1>1 DEF Evict
  <2> QED BY <2>1 DEF States
<1>2. CASE w \in Ways(s.c)
  <2>1. s1 \in States(cfg)
    BY <1>2, WriteBackType
  <2>2. s1.err = "none"
    BY DEF WriteBack, Ok, States
  <2>3. StillBut(s.c, s1.c, set, w)
    <3>1. StillBut(s.c, WriteBack(s, set, w).c, set, w)
      BY <1>2, WriteBackStill
    <3>2. StillBut(s.c, s.c, set, w)
      BY DEF StillBut, SameTag, SameOrder
    <3> HIDE DEF w
    <3> QED BY <3>1, <3>2
  <2>4. Ways(s1.c) = Ways(s.c) /\ Sets(s1.c) = Sets(s.c)
    BY <2>1, LevelFacts DEF States
  <2> HIDE DEF s1, w
  <2> DEFINE l == [s1.c.line[set][w] EXCEPT !.valid = FALSE]
             u == [s1 EXCEPT !.c.line[set][w] = l]
  <2>5. e = s1 \/ e = u
    <3>1. e = s1 \/ e = [s1 EXCEPT !.c.line[set][w].valid = FALSE]
      BY <1>2 DEF Evict, s1, w
    <3>2. [s1 EXCEPT !.c.line[set][w].valid = FALSE] = u
      BY <2>1 DEF States, Levels
    <3> QED BY <3>1, <3>2
  <2>6. u.err = s1.err
    BY <2>1 DEF States
  <2>7. StillBut(s1.c, u.c, set, w)
    <3> HIDE DEF l
    <3> QED BY <1>2, <2>1, <2>4, LinePut
  <2> HIDE DEF u, e
  <2>8. StillBut(s.c, e.c, set, w)
    <3>1. StillBut(s.c, u.c, set, w)
      BY <2>3, <2>4, <2>7 DEF StillBut, SameTag, SameOrder
    <3> QED BY <2>3, <2>5, <3>1
  <2>9. Ok(e)
    BY <2>2, <2>5, <2>6 DEF Ok, MemOk
  <2> QED BY <1>2, <2>8, <2>9 DEF e, w
<1> QED BY <1>1, <1>2

\* The way that makes room: a free one, or else the one the policy names.
Chosen(c, x, w) ==
  IF Free(c, x) # {} THEN w \in Free(c, x)
  ELSE c.cfg.repl # "Custom" => w = Oldest(Order(c, x), c.cfg.ways)

\* EvictWay is such a way.
LEMMA EvictWayChosen ==
  ASSUME NEW cfg, GeometryOK(cfg), NEW s \in States(cfg), NEW set \in Sets(s.c)
  PROVE  Chosen(s.c, set, EvictWay(s, set))
<1>1. s.c \in Levels(cfg) /\ s.c.cfg = cfg /\ cfg.repl \in {"LRU", "FIFO", "Custom"}
  BY LevelFacts, GeometryFacts DEF States, CacheConfigs
<1>2. CASE Free(s.c, set) # {}
  <2>1. Free(s.c, set) \in SUBSET Nat
    BY <1>1, LevelFacts, GeometryFacts DEF Free
  <2>2. Least(Free(s.c, set)) \in Free(s.c, set)
    BY <1>2, <2>1, LeastIsLeast
  <2> QED BY <1>2, <2>2 DEF EvictWay, Chosen
<1>3. CASE Free(s.c, set) = {}
  BY <1>1, <1>3 DEF EvictWay, Victim, Chosen, Order
<1> QED BY <1>2, <1>3

\* A line brought in renews its way, and leaves the others as they are.
LEMMA BringInInstalls ==
  ASSUME NEW cfg, GeometryOK(cfg), NEW s \in States(cfg), NEW a \in Addresses,
         NEW w \in Ways(s.c)
  PROVE  Installed(s.c, BringIn(s, a, w).c, SetOf(s.c, a), w, Tag(s.c, a))
<1> DEFINE set == SetOf(s.c, a)
           l   == FetchedLine(s, a)
           d   == WithLine(s.c, set, w, l)
           u   == [s EXCEPT !.c = d]
           t   == BringIn(s, a, w)
<1>1. /\ s.c \in Levels(cfg)
      /\ s.c.line \in [Sets(s.c) -> [Ways(s.c) -> Lines(cfg)]]
      /\ a \in Nat
  BY LevelFacts DEF States, Addresses
<1>2. set \in Sets(s.c)
  BY <1>1, AddressTypes
<1>3. t = u \/ t = [u EXCEPT !.err = "script"]
  BY BringInIs, Zenon
<1>4. l.valid /\ l.tag = Tag(s.c, a)
  BY DEF FetchedLine
<1> HIDE DEF l
<1>5. /\ d.line = [s.c.line EXCEPT ![set][w] = l]
      /\ d.recency = [s.c.recency EXCEPT ![set] = Newest(@, w, s.c.cfg.ways)]
      /\ d.arrival = [s.c.arrival EXCEPT ![set] = Newest(@, w, s.c.cfg.ways)]
  BY <1>1 DEF WithLine, Levels
<1> HIDE DEF d
<1>6. t.c = d
  <2>1. u.c = d /\ [u EXCEPT !.err = "script"].c = d
    BY DEF States
  <2> HIDE DEF t, u
  <2> QED BY <1>3, <2>1
<1> HIDE DEF t
<1>7. /\ t.c.line[set][w] = l
      /\ \A y \in Sets(s.c), v \in Ways(s.c) : y # set \/ v # w => t.c.line[y][v] = s.c.line[y][v]
  BY <1>1, <1>2, <1>5, <1>6
<1> HIDE DEF set
<1>8. /\ \A y \in Sets(s.c) \ {set} : SameBlocks(s.c, t.c, y)
      /\ \A v \in Ways(s.c) \ {w} : SameTag(s.c, t.c, set, v)
      /\ t.c.line[set][w].valid /\ t.c.line[set][w].tag = Tag(s.c, a)
  BY <1>2, <1>4, <1>7 DEF SameBlocks, SameTag
<1>9. /\ t.c.recency = [s.c.recency EXCEPT ![set] = Newest(@, w, s.c.cfg.ways)]
      /\ t.c.arrival = [s.c.arrival EXCEPT ![set] = Newest(@, w, s.c.cfg.ways)]
  BY <1>5, <1>6
<1> QED BY <1>8, <1>9, Zenon DEF Installed, t, set

\* A hit of an access at a, and a miss.
Hit(c, d, a) == Resident(c, a) /\ Touched(c, d, SetOf(c, a), WayOf(c, a))

Miss(c, d, a) ==
  /\ ~Resident(c, a)
  /\ \E w \in Ways(c) : /\ Chosen(c, SetOf(c, a), w)
                        /\ Installed(c, d, SetOf(c, a), w, Tag(c, a))

\* A fill is a miss, unless the script names no way.
LEMMA FillMoves ==
  ASSUME NEW cfg, GeometryOK(cfg), NEW s \in States(cfg), Ok(s), NEW a \in Addresses,
         ~Resident(s.c, a)
  PROVE  \/ Miss(s.c, Fill(s, a).c, a)
         \/ Fill(s, a).c = s.c /\ Fill(s, a).err = "script"
<1> DEFINE set == SetOf(s.c, a)
           e == Evict(s, set)
           w == EvictWay(s, set)
<1>1. s.c \in Levels(cfg) /\ a \in Nat
  BY DEF States, Addresses
<1>2. set \in Sets(s.c)
  BY <1>1, AddressTypes
<1>3. Chosen(s.c, set, w)
  BY <1>2, EvictWayChosen
<1>4. e \in States(cfg)
  BY <1>2, EvictType, SMTT(60)
<1>5. CASE w \in Ways(s.c) /\ StillBut(s.c, e.c, set, w) /\ Ok(e)
  <2>1. e.c \in Levels(cfg)
    BY <1>4, SMTT(30) DEF States
  <2>2. /\ Ways(e.c) = Ways(s.c) /\ Sets(e.c) = Sets(s.c) /\ e.c.cfg = s.c.cfg
        /\ SetOf(e.c, a) = set /\ Tag(e.c, a) = Tag(s.c, a)
    <3>1. Ways(e.c) = Ways(s.c) /\ Sets(e.c) = Sets(s.c) /\ e.c.cfg = s.c.cfg
      BY <1>1, <2>1, SameShape
    <3> QED BY <3>1 DEF SetOf, Tag, Block
  <2>3. Fill(s, a) = BringIn(e, a, w)
    BY <1>5 DEF Fill
  <2> HIDE DEF e, w
  <2>4. Installed(e.c, BringIn(e, a, w).c, set, w, Tag(s.c, a))
    <3>1. w \in Ways(e.c)
      BY <1>5, <2>2
    <3>2. Installed(e.c, BringIn(e, a, w).c, SetOf(e.c, a), w, Tag(e.c, a))
      BY <1>4, <3>1, BringInInstalls, SMTT(30)
    <3> QED BY <2>2, <3>2
  <2> HIDE DEF set
  <2>5. Installed(s.c, BringIn(e, a, w).c, set, w, Tag(s.c, a))
    BY <1>2, <1>5, <2>2, <2>4, SMTT(30)
       DEF Installed, StillBut, SameBlocks, SameTag, SameOrder
  <2> QED BY <1>3, <1>5, <2>3, <2>5 DEF Miss, set
<1>6. CASE e.c = s.c /\ e.err = "script"
  <2>1. Fill(s, a) = e
    BY <1>6 DEF Fill, Ok
  <2> QED BY <1>6, <2>1
<1> QED BY <1>2, <1>5, <1>6, EvictStill

\* Renewing the way of a resident address is a hit.
LEMMA TouchMoves ==
  ASSUME NEW cfg, NEW s \in States(cfg), NEW a, Resident(s.c, a)
  PROVE  Hit(s.c, TouchAt(s, a).c, a)
<1> DEFINE set == SetOf(s.c, a)
           r == Newest(s.c.recency[set], WayOf(s.c, a), s.c.cfg.ways)
           u == [s EXCEPT !.c.recency[set] = r]
           t == TouchAt(s, a)
<1>1. s.c \in Levels(cfg)
  BY DEF States
<1>2. /\ u.c.recency = [s.c.recency EXCEPT ![set] = r]
      /\ u.c.line = s.c.line /\ u.c.arrival = s.c.arrival
      /\ [u EXCEPT !.err = "script"].c = u.c
  <2> HIDE DEF r, set
  <2> QED BY <1>1 DEF States, Levels
<1>3. t = CallHook(u, "onAccess")
  BY <1>1 DEF TouchAt, TouchWay, States, Levels
<1>4. t.c = u.c
  <2> HIDE DEF u, t
  <2>1. t = u \/ t = [u EXCEPT !.err = "script"]
    BY <1>3, Zenon DEF CallHook
  <2> QED BY <1>2, <2>1
<1> HIDE DEF u, t
<1>5. /\ t.c.recency = [s.c.recency EXCEPT ![set] = Newest(@, WayOf(s.c, a), s.c.cfg.ways)]
      /\ t.c.arrival = s.c.arrival
      /\ \A y \in Sets(s.c) : SameBlocks(s.c, t.c, y)
  BY <1>2, <1>4 DEF SameBlocks, SameTag
<1> QED BY <1>5, Zenon DEF Hit, Touched, t

\* Storing bytes moves no line.
LEMMA PutBytesStill ==
  ASSUME NEW cfg, NEW c \in Levels(cfg), NEW a, NEW len, NEW data
  PROVE  Still(c, PutBytes(c, a, data, len))
<1> DEFINE new(set, w) ==
             [o \in Offsets(c) |->
                IF \E i \in Landing(c, a, len, set, w) : Offset(c, a + i) = o
                THEN data[CHOOSE i \in Landing(c, a, len, set, w) : Offset(c, a + i) = o]
                ELSE c.line[set][w].data[o]]
           put(set, w) ==
             IF Landing(c, a, len, set, w) = {} THEN c.line[set][w]
             ELSE [c.line[set][w] EXCEPT !.dirty = (c.cfg.write = "WriteBack"),
                                         !.data = new(set, w)]
           lines == [set \in Sets(c) |-> [w \in Ways(c) |-> put(set, w)]]
           d == PutBytes(c, a, data, len)
<1>1. d = [c EXCEPT !.line = lines]
  BY DEF PutBytes
<1>2. ASSUME NEW set \in Sets(c), NEW w \in Ways(c)
      PROVE  put(set, w).valid = c.line[set][w].valid /\ put(set, w).tag = c.line[set][w].tag
  <2>1. c.line[set][w] \in Lines(cfg)
    BY LevelFacts
  <2> HIDE DEF new
  <2> QED BY <2>1 DEF Lines
<1>3. \A set \in Sets(c), w \in Ways(c) : lines[set][w] = put(set, w)
  OBVIOUS
<1> HIDE DEF lines, put, d
<1>4. d.line = lines /\ d.recency = c.recency /\ d.arrival = c.arrival
  BY <1>1 DEF Levels
<1> QED BY <1>2, <1>3, <1>4 DEF Still, SameBlocks, SameTag, SameOrder, d

\* After a hit or a miss, a step that moves no line adds nothing.
LEMMA ThenStill ==
  ASSUME NEW cfg, NEW c \in Levels(cfg), NEW d \in Levels(cfg), NEW e \in Levels(cfg),
         GeometryOK(cfg), NEW a \in Nat, Still(d, e)
  PROVE  /\ Hit(c, d, a) => Hit(c, e, a)
         /\ Miss(c, d, a) => Miss(c, e, a)
<1>1. Ways(d) = Ways(c) /\ Sets(d) = Sets(c)
  BY SameShape
<1>2. SetOf(c, a) \in Sets(c)
  BY AddressTypes
<1>3. Hit(c, d, a) => Hit(c, e, a)
  BY <1>1 DEF Hit, Touched, Still, SameBlocks, SameTag, SameOrder
<1>4. \A w \in Ways(c) : \A tag : Installed(c, d, SetOf(c, a), w, tag) =>
                                     Installed(c, e, SetOf(c, a), w, tag)
  BY <1>1, <1>2 DEF Installed, Still, SameBlocks, SameTag, SameOrder
<1> QED BY <1>3, <1>4 DEF Miss

\* What an access has done before it comes to its bytes.
Readied(s, t, a) ==
  \/ Hit(s.c, t.c, a)
  \/ Miss(s.c, t.c, a)
  \/ ~Resident(s.c, a) /\ t.c = s.c /\ t.err = "script"

\* Looking a line up, and filling it, is all that moves lines.
LEMMA ReadyMoves ==
  ASSUME NEW cfg, GeometryOK(cfg), NEW s \in States(cfg), Coherent(s), Ok(s),
         NEW a \in Nat, NEW len \in Nat \ {0}, ~OutOfRange(a, len),
         Within(s.c, a, len), ~Spans(s.c, a, len)
  PROVE  LET t == IF IsHit(s.c, a, len) THEN TouchLines(s, a, len)
                                        ELSE BringInLines(s, a, len)
         IN  Readied(s, t, a)
<1> DEFINE t == IF IsHit(s.c, a, len) THEN TouchLines(s, a, len)
                                      ELSE BringInLines(s, a, len)
<1>1. IsHit(s.c, a, len) <=> Resident(s.c, a)
  BY WithinHit DEF States
<1>2. t = IF IsHit(s.c, a, len) THEN TouchAt(s, a) ELSE Fill(s, a)
  BY DEF TouchLines, BringInLines
<1> HIDE DEF t
<1>3. CASE Resident(s.c, a)
  BY <1>1, <1>2, <1>3, TouchMoves DEF Readied, t
<1>4. CASE ~Resident(s.c, a)
  <2>1. a \in Addresses
    <3>1. 0 \in 0 .. len - 1 /\ a + 0 = a
      OBVIOUS
    <3> QED BY <3>1, AccessInMemory
  <2>2. \/ Miss(s.c, Fill(s, a).c, a)
        \/ Fill(s, a).c = s.c /\ Fill(s, a).err = "script"
    BY <1>4, <2>1, FillMoves
  <2> QED BY <1>1, <1>2, <1>4, <2>2 DEF Readied, t
<1> QED BY <1>3, <1>4

\* A read is a hit or a miss unless a script breaks it off.
LEMMA ReadMoves ==
  ASSUME NEW cfg, GeometryOK(cfg), NEW s \in States(cfg), Coherent(s), Ok(s),
         NEW a \in Nat, NEW len \in Nat \ {0}, ~OutOfRange(a, len),
         Within(s.c, a, len), ~Spans(s.c, a, len)
  PROVE  LET t == ReadGeneric(s, a, len).s
         IN  /\ t \in States(cfg)
             /\ \/ Hit(s.c, t.c, a)
                \/ Miss(s.c, t.c, a)
                \/ t.c = s.c /\ t.err = "script"
<1> DEFINE t == IF IsHit(s.c, a, len) THEN TouchLines(s, a, len)
                                      ELSE BringInLines(s, a, len)
<1>1. Present(t, a, len) = t /\ t \in States(cfg)
  BY ReadyPrepared, Zenon
<1>2. Readied(s, t, a)
  BY ReadyMoves, Zenon
<1>3. ReadGeneric(s, a, len).s = t
  BY <1>1 DEF ReadGeneric
<1> HIDE DEF t
<1> QED BY <1>1, <1>2, <1>3 DEF Readied

\* So is a write, unless it bypasses the cache.
LEMMA WriteMoves ==
  ASSUME NEW cfg, GeometryOK(cfg), NEW s \in States(cfg), Coherent(s), Ok(s),
         NEW a \in Nat, NEW len \in Nat \ {0}, ~OutOfRange(a, len),
         Within(s.c, a, len), ~Spans(s.c, a, len),
         NEW data \in [0 .. len - 1 -> Values]
  PROVE  LET t == WriteGeneric(s, a, data, len)
         IN  /\ t \in States(cfg)
             /\ IF Bypass(s.c, a) THEN t.c = s.c
                ELSE \/ Hit(s.c, t.c, a)
                     \/ Miss(s.c, t.c, a)
                     \/ t.c = s.c /\ t.err = "script"
<1> DEFINE t == IF IsHit(s.c, a, len) THEN TouchLines(s, a, len)
                                      ELSE BringInLines(s, a, len)
           u == Store(t, a, data, len)
           v == WriteGeneric(s, a, data, len)
<1>1. Present(t, a, len) = t /\ t \in States(cfg)
  BY ReadyPrepared, Zenon
<1>2. Readied(s, t, a)
  BY ReadyMoves, Zenon
<1>3. s.c \in Levels(cfg) /\ v \in States(cfg)
  BY WriteGenericType DEF States
<1>4. IsHit(s.c, a, len) <=> Resident(s.c, a)
  BY <1>3, WithinHit
<1>5. CASE Bypass(s.c, a)
  <2>1. v = [s EXCEPT !.n = MemWrite(s.n, a, data)]
    BY <1>4, <1>5 DEF WriteGeneric, Bypass
  <2>2. v.c = s.c
    BY <2>1 DEF States
  <2> HIDE DEF v
  <2> QED BY <1>3, <1>5, <2>2 DEF v
<1>6. CASE ~Bypass(s.c, a)
  <2>1. v = u
    BY <1>4, <1>6 DEF WriteGeneric, Bypass
  <2> HIDE DEF t, v
  <2>2. CASE ~Ok(t)
    <3>1. u = t
      BY <1>1, <2>2 DEF Store
    <3> HIDE DEF u
    <3> QED BY <1>2, <1>3, <1>6, <2>1, <3>1 DEF Readied, v
  <2>3. CASE Ok(t)
    <3> DEFINE put == [t EXCEPT !.c = PutBytes(t.c, a, data, len)]
    <3>1. u = put \/ u = [put EXCEPT !.n = MemWrite(put.n, a, data)]
      BY <1>1, <2>3 DEF Store
    <3>2. u.c = PutBytes(t.c, a, data, len)
      <4> HIDE DEF u
      <4> QED BY <1>1, <3>1 DEF States
    <3>3. t.c \in Levels(cfg)
      BY <1>1 DEF States
    <3>4. Still(t.c, u.c)
      BY <3>2, <3>3, PutBytesStill
    <3> HIDE DEF u
    <3>5. u.c \in Levels(cfg)
      BY <1>3, <2>1 DEF States
    <3>6. t.err # "script"
      BY <2>3 DEF Ok
    <3>7. Hit(s.c, u.c, a) \/ Miss(s.c, u.c, a)
      BY <1>2, <1>3, <3>3, <3>4, <3>5, <3>6, ThenStill DEF Readied
    <3> QED BY <1>3, <1>6, <2>1, <3>7 DEF v
  <2> QED BY <2>2, <2>3
<1> QED BY <1>5, <1>6

-----------------------------------------------------------------------------
(* What those steps do to the ranks and the lists. *)

\* After a hit or a miss the ranks of every set still differ.
LEMMA MovesKeepRanks ==
  ASSUME NEW cfg, GeometryOK(cfg), NEW c \in Levels(cfg), NEW d \in Levels(cfg),
         NEW a \in Nat, RanksDiffer(c), Hit(c, d, a) \/ Miss(c, d, a)
  PROVE  RanksDiffer(d)
<1>1. SetOf(c, a) \in Sets(c)
  BY AddressTypes
<1>2. CASE Hit(c, d, a)
  <2>1. WayOf(c, a) \in Ways(c)
    BY <1>2, WayOfResident DEF Hit, Matching
  <2> QED BY <1>1, <1>2, <2>1, RanksStayDifferent DEF Hit
<1>3. CASE Miss(c, d, a)
  BY <1>1, <1>3, RanksStayDifferent DEF Miss
<1> QED BY <1>2, <1>3

\* No way of a set that lacks an address has its tag.
LEMMA AbsentTag ==
  ASSUME NEW c, NEW a, ~Resident(c, a)
  PROVE  \A v \in ValidWays(c, SetOf(c, a)) : c.line[SetOf(c, a)][v].tag # Tag(c, a)
BY DEF Resident, Matching, ValidWays

\* A way that is not free is valid.
LEMMA FreeOrValid ==
  ASSUME NEW c, NEW x
  PROVE  /\ Free(c, x) = {} => ValidWays(c, x) = Ways(c)
         /\ \A w \in Free(c, x) : w \notin ValidWays(c, x)
BY DEF Free, ValidWays

\* Under LRU and FIFO, hits and misses do to the lists what the policy says.
LEMMA MovesUse ==
  ASSUME NEW cfg, GeometryOK(cfg), NEW c \in Levels(cfg), NEW d \in Levels(cfg),
         NEW a \in Nat, RanksDiffer(c), Unique(c), cfg.repl # "Custom",
         Hit(c, d, a) \/ Miss(c, d, a)
  PROVE  /\ Held(d, SetOf(c, a)) = Used(c, SetOf(c, a), Block(c, a))
         /\ \A y \in Sets(c) \ {SetOf(c, a)} : Held(d, y) = Held(c, y)
<1> DEFINE x == SetOf(c, a)
<1>1. x \in Sets(c) /\ Tag(c, a) \in Nat /\ c.cfg = cfg
  BY AddressTypes, LevelFacts
<1>2. CASE Hit(c, d, a)
  <2>1. WayOf(c, a) \in Matching(c, x, Tag(c, a))
    BY <1>2, WayOfResident DEF Hit
  <2>2. WayOf(c, a) \in ValidWays(c, x)
    BY <2>1 DEF Matching, ValidWays
  <2>3. BlockOf(c, x, WayOf(c, a)) = Block(c, a)
    BY <2>1, BlockOfAddress
  <2>4. Touched(c, d, x, WayOf(c, a))
    BY <1>2 DEF Hit
  <2> HIDE DEF x
  <2>5. /\ Held(d, x) = Used(c, x, BlockOf(c, x, WayOf(c, a)))
        /\ \A y \in Sets(c) \ {x} : Held(d, y) = Held(c, y)
    BY <1>1, <2>2, <2>4, TouchedHeld
  <2> QED BY <2>3, <2>5 DEF x
<1>3. CASE Miss(c, d, a)
  <2>1. PICK w \in Ways(c) : Chosen(c, x, w) /\ Installed(c, d, x, w, Tag(c, a))
    BY <1>3 DEF Miss
  <2>2. \/ w \notin ValidWays(c, x)
        \/ ValidWays(c, x) = Ways(c) /\ w = Oldest(Order(c, x), cfg.ways)
    BY <1>1, <2>1, FreeOrValid DEF Chosen
  <2>3. \A v \in ValidWays(c, x) : c.line[x][v].tag # Tag(c, a)
    BY <1>3, AbsentTag DEF Miss
  <2>4. BlockOf(d, x, w) = Block(c, a)
    <3>1. Ways(d) = Ways(c) /\ d.cfg = c.cfg
      BY SameShape
    <3>2. SetOf(d, a) = x /\ Tag(d, a) = Tag(c, a) /\ Block(d, a) = Block(c, a)
      BY <3>1 DEF SetOf, Tag, Block
    <3>3. w \in Matching(d, x, Tag(d, a))
      BY <2>1, <3>1, <3>2 DEF Matching, Installed
    <3> HIDE DEF x
    <3> QED BY <3>2, <3>3, BlockOfAddress
  <2> HIDE DEF x
  <2>5. /\ Held(d, x) = Used(c, x, BlockOf(d, x, w))
        /\ \A y \in Sets(c) \ {x} : Held(d, y) = Held(c, y)
    BY <1>1, <2>1, <2>2, <2>3, InstalledHeld
  <2> QED BY <2>4, <2>5 DEF x
<1> QED BY <1>2, <1>3

\* A set holds the blocks of its valid ways.
LEMMA HeldBlocks ==
  ASSUME NEW cfg, GeometryOK(cfg), NEW c \in Levels(cfg), RanksDiffer(c), NEW x \in Sets(c)
  PROVE  Range(Held(c, x)) = {BlockOf(c, x, w) : w \in ValidWays(c, x)}
<1> DEFINE S == ValidWays(c, x)
           m == Cardinality(S)
           list == NewestFirst(c, x)
<1>1. /\ IsFiniteSet(S) /\ Ranking(S, Order(c, x)) /\ Descends(S, Order(c, x), list)
      /\ Held(c, x) = [i \in 1 .. m |-> BlockOf(c, x, list[i])]
  BY HeldList
<1>2. \A v \in S : \E i \in 1 .. m : list[i] = v
  <2> HIDE DEF S, list
  <2> QED BY <1>1, DescendingPlaces
<1>3. \A i \in 1 .. m : list[i] \in S
  BY <1>1 DEF Descends
<1> HIDE DEF S, m, list
<1> QED BY <1>1, <1>2, <1>3 DEF Range, S

\* A set whose valid ways keep their lines gives up no block.
LEMMA KeptBlocks ==
  ASSUME NEW cfg, GeometryOK(cfg), NEW c \in Levels(cfg), RanksDiffer(c),
         NEW new, GeometryOK(new), NEW d \in Levels(new), RanksDiffer(d),
         new.sets = cfg.sets, new.ways = cfg.ways, NEW x \in Sets(c),
         \A w \in ValidWays(c, x) : SameTag(c, d, x, w)
  PROVE  Range(Held(c, x)) \subseteq Range(Held(d, x))
<1>1. /\ c.cfg = cfg /\ d.cfg = new /\ Ways(d) = Ways(c) /\ Sets(d) = Sets(c)
  BY LevelFacts
<1>2. \A w \in ValidWays(c, x) : w \in ValidWays(d, x) /\ BlockOf(d, x, w) = BlockOf(c, x, w)
  BY <1>1 DEF ValidWays, SameTag, BlockOf
<1>3. Range(Held(c, x)) = {BlockOf(c, x, w) : w \in ValidWays(c, x)}
  BY HeldBlocks
<1>4. Range(Held(d, x)) = {BlockOf(d, x, w) : w \in ValidWays(d, x)}
  BY <1>1, HeldBlocks
<1> QED BY <1>2, <1>3, <1>4

\* A hit or a miss takes no block from a set that has a free way.
LEMMA MovesLoseNone ==
  ASSUME NEW cfg, GeometryOK(cfg), NEW c \in Levels(cfg), NEW d \in Levels(cfg),
         NEW a \in Nat, RanksDiffer(c), Hit(c, d, a) \/ Miss(c, d, a),
         NEW x \in Sets(c), Free(c, x) # {}
  PROVE  Range(Held(c, x)) \subseteq Range(Held(d, x))
<1>1. RanksDiffer(d)
  BY MovesKeepRanks
<1>2. \A w \in ValidWays(c, x) : SameTag(c, d, x, w)
  <2>1. CASE Hit(c, d, a)
    BY <2>1 DEF Hit, Touched, SameBlocks, ValidWays
  <2>2. CASE Miss(c, d, a)
    <3>1. PICK w \in Ways(c) : Chosen(c, SetOf(c, a), w)
                               /\ Installed(c, d, SetOf(c, a), w, Tag(c, a))
      BY <2>2 DEF Miss
    <3>2. CASE x = SetOf(c, a)
      <4>1. w \notin ValidWays(c, x)
        BY <3>1, <3>2, FreeOrValid DEF Chosen
      <4> QED BY <3>1, <3>2, <4>1 DEF Installed, ValidWays
    <3>3. CASE x # SetOf(c, a)
      BY <3>1, <3>3 DEF Installed, SameBlocks, ValidWays
    <3> QED BY <3>2, <3>3
  <2> QED BY <2>1, <2>2
<1> QED BY <1>1, <1>2, KeptBlocks

\* An empty set holds nothing.
LEMMA EmptyHeld ==
  ASSUME NEW cfg, GeometryOK(cfg), NEW c \in Levels(cfg), RanksDiffer(c), Empty(c),
         NEW x \in Sets(c)
  PROVE  Held(c, x) = <<>>
<1>1. ValidWays(c, x) = {}
  BY DEF ValidWays, Empty
<1>2. /\ IsFiniteSet({})
      /\ Held(c, x) = [i \in 1 .. Cardinality({}) |-> BlockOf(c, x, NewestFirst(c, x)[i])]
  BY <1>1, HeldList, SMTT(30)
<1>3. Cardinality({}) = 0
  BY <1>2, FS_EmptySet
<1>4. Held(c, x) = [i \in 1 .. 0 |-> BlockOf(c, x, NewestFirst(c, x)[i])]
  BY <1>2, <1>3
<1> QED BY <1>4

\* The ranks of a fresh level differ.
LEMMA FreshRanks ==
  ASSUME NEW cfg, GeometryOK(cfg), NEW c \in Levels(cfg),
         c.recency = Ranks(cfg), c.arrival = Ranks(cfg)
  PROVE  RanksDiffer(c)
<1>1. Sets(c) = 0 .. cfg.sets - 1 /\ Ways(c) = 0 .. cfg.ways - 1
  BY LevelFacts
<1>2. cfg.ways \in Nat \ {0}
  BY GeometryFacts
<1>3. \A x \in Sets(c), w \in Ways(c) : Ranks(cfg)[x][w] = w /\ w \in Int
  BY <1>1, <1>2 DEF Ranks
<1> QED BY <1>3 DEF RanksDiffer, Ranking

\* Reconfiguring leaves an empty level with fresh ranks, even when the script
\* of the new policy does not load.
LEMMA ReconfigureRanks ==
  ASSUME NEW cfg, GeometryOK(cfg), NEW s \in States(cfg), Ok(s), NEW new \in Configs
  PROVE  RanksDiffer(Reconfigure(Flush(s), new).c)
<1> DEFINE f == Flush(s)
           t == Reconfigure(f, new)
<1>1. f \in States(cfg) /\ f.err = "none" /\ f.c = Reset(s.c)
  BY FlushType DEF Flush, Ok, States
<1>2. f.c \in Levels(cfg) /\ f.c.recency = Ranks(cfg) /\ f.c.arrival = Ranks(cfg)
  BY <1>1 DEF Reset, States, Levels
<1>3. Ok(f)
  BY <1>1 DEF Ok, MemOk
<1> HIDE DEF f
<1>4. PICK cfg2 : GeometryOK(cfg2) /\ t \in States(cfg2)
  BY <1>1, ReconfigureType
<1>5. t.c \in Levels(cfg2) /\ t.c.cfg = cfg2
  BY <1>4 DEF States, Levels
<1>6. t.c.recency = Ranks(cfg2) /\ t.c.arrival = Ranks(cfg2)
  <2>1. CASE new.repl = "Custom" /\ f.c.path = "bad"
    <3> DEFINE mixed == [f.c.cfg EXCEPT !.write = new.write, !.alloc = new.alloc]
    <3>1. t = [f EXCEPT !.err = "script", !.c.cfg = mixed]
      BY <1>3, <2>1 DEF Reconfigure
    <3>2. mixed.sets = cfg.sets /\ mixed.ways = cfg.ways
      <4>1. cfg \in CacheConfigs /\ f.c.cfg = cfg
        BY <1>2, GeometryFacts, LevelFacts
      <4> QED BY <4>1 DEF CacheConfigs
    <3> HIDE DEF t, mixed
    <3>3. t.c.recency = Ranks(cfg) /\ t.c.arrival = Ranks(cfg) /\ t.c.cfg = mixed
      BY <1>1, <1>2, <3>1 DEF States, Levels
    <3>4. Ranks(mixed) = Ranks(cfg)
      BY <3>2 DEF Ranks
    <3> QED BY <1>5, <3>3, <3>4
  <2>2. CASE ~(new.repl = "Custom" /\ f.c.path = "bad")
    <3> DEFINE loaded == new.repl = "Custom" /\ f.c.path = "good"
               fresh  == [Setup(new) EXCEPT !.path = f.c.path, !.loaded = loaded]
    <3>1. t = [f EXCEPT !.c = fresh]
      BY <1>3, <2>2 DEF Reconfigure
    <3>2. fresh.recency = Ranks(new) /\ fresh.arrival = Ranks(new) /\ fresh.cfg = new
      <4> HIDE DEF loaded
      <4> QED BY DEF Setup
    <3> HIDE DEF t, fresh
    <3>3. t.c = fresh
      BY <1>1, <3>1 DEF States
    <3> QED BY <1>5, <3>2, <3>3
  <2> QED BY <2>1, <2>2
<1> HIDE DEF t
<1>7. RanksDiffer(t.c)
  BY <1>4, <1>5, <1>6, FreshRanks
<1> QED BY <1>7 DEF t, f

-----------------------------------------------------------------------------
(* The theorems, along Next. *)

\* What a step that completes or breaks off an access does to the level.
Moves(a) ==
  \/ Hit(cache, cache', a)
  \/ Miss(cache, cache', a)
  \/ cache' = cache /\ reply'.status # "ok"

\* The level of a typed state, before a step and after it.
LEMMA NowLevel ==
  ASSUME TypeOK
  PROVE  GeometryOK(cache.cfg) /\ cache \in Levels(cache.cfg)
BY DEF TypeOK

\* A read is a hit or a miss, or is broken off with nothing moved.
LEMMA ReadOrders ==
  ASSUME NoSpanning, TypeOK, Safe, NEW acc \in Accesses, NEW script \in Scripts,
         Read(acc[1], acc[2], script)
  PROVE  acc[1] \in Nat /\ cache' \in Levels(cache.cfg) /\ Moves(acc[1])
<1> DEFINE s == Start(script)
           a == acc[1]
           len == acc[2]
           r == ReadGeneric(s, a, len)
<1>1. /\ GeometryOK(cache.cfg)
      /\ a \in Nat
      /\ len \in Nat \ {0}
      /\ s \in States(cache.cfg)
      /\ Within(s.c, a, len)
      /\ ~Spans(s.c, a, len)
      /\ Coherent(s) /\ Ok(s)
      /\ s.c = cache
  BY AccessFacts, NowCoherent DEF Start
<1>2. ~OutOfRange(a, len) /\ Finish(r.s, r.data)
  BY DEF Read
<1> HIDE DEF s
<1>3. /\ r.s \in States(cache.cfg)
      /\ Hit(cache, r.s.c, a) \/ Miss(cache, r.s.c, a) \/ (r.s.c = cache /\ r.s.err = "script")
  BY <1>1, <1>2, ReadMoves
<1> HIDE DEF r
<1>4. /\ cache' = r.s.c
      /\ reply' = [status |-> Status(r.s), data |-> r.data]
  BY <1>2 DEF Finish
<1>5. r.s.c \in Levels(cache.cfg)
  BY <1>3 DEF States
<1>6. r.s.err = "script" => reply'.status # "ok"
  BY <1>4 DEF Status
<1> QED BY <1>1, <1>3, <1>4, <1>5, <1>6 DEF Moves

\* So is a write, unless it goes past the cache.
LEMMA WriteOrders ==
  ASSUME NoSpanning, TypeOK, Safe, NEW acc \in Accesses, NEW script \in Scripts,
         NEW data \in [0 .. acc[2] - 1 -> Values], Write(acc[1], acc[2], data, script)
  PROVE  /\ acc[1] \in Nat /\ cache' \in Levels(cache.cfg)
         /\ IF Bypass(cache, acc[1]) THEN cache' = cache ELSE Moves(acc[1])
<1> DEFINE s == Start(script)
           a == acc[1]
           len == acc[2]
           t == WriteGeneric(s, a, data, len)
<1>1. /\ GeometryOK(cache.cfg)
      /\ a \in Nat
      /\ len \in Nat \ {0}
      /\ s \in States(cache.cfg)
      /\ Within(s.c, a, len)
      /\ ~Spans(s.c, a, len)
      /\ Coherent(s) /\ Ok(s)
      /\ s.c = cache
  BY AccessFacts, NowCoherent DEF Start
<1>2. ~OutOfRange(a, len) /\ Finish(t, <<>>)
  BY DEF Write
<1> HIDE DEF s
<1>3. /\ t \in States(cache.cfg)
      /\ IF Bypass(cache, a) THEN t.c = cache
         ELSE Hit(cache, t.c, a) \/ Miss(cache, t.c, a) \/ (t.c = cache /\ t.err = "script")
  BY <1>1, <1>2, WriteMoves
<1> HIDE DEF t
<1>4. /\ cache' = t.c
      /\ reply' = [status |-> Status(t), data |-> <<>>]
  BY <1>2 DEF Finish
<1>5. t.c \in Levels(cache.cfg)
  BY <1>3 DEF States
<1>6. t.err = "script" => reply'.status # "ok"
  BY <1>4 DEF Status
<1> QED BY <1>1, <1>3, <1>4, <1>5, <1>6 DEF Moves

\* Either way the ranks of the level stay different, and no set with a free
\* way loses a block.
LEMMA AccessKeeps ==
  ASSUME TypeOK, RanksDiffer(cache), NEW a \in Nat, cache' \in Levels(cache.cfg),
         cache' = cache \/ Moves(a)
  PROVE  /\ RanksDiffer(cache')
         /\ \A x \in Sets(cache) : Free(cache, x) # {} =>
              Range(Held(cache, x)) \subseteq Range(Held(cache', x))
<1>1. GeometryOK(cache.cfg) /\ cache \in Levels(cache.cfg)
  BY NowLevel
<1>2. CASE cache' = cache
  BY <1>2
<1>3. CASE Hit(cache, cache', a) \/ Miss(cache, cache', a)
  BY <1>1, <1>3, MovesKeepRanks, MovesLoseNone
<1> QED BY <1>2, <1>3 DEF Moves

\* Emptying the cache, by a reconfiguration or a reset, leaves no list.
EmptiedRanked ==
  RanksDiffer(cache') /\ \A x \in Sets(cache') : Held(cache', x) = <<>>

\* Reconfiguring flushes, and sets the cache up anew.
LEMMA ReconfigureEmpties ==
  ASSUME TypeOK, Safe, NEW cfg \in Configs, ReconfigureCache(cfg)
  PROVE  EmptiedRanked
<1> DEFINE s == Start([answer |-> 0, fails |-> "never"])
           t == Reconfigure(Flush(s), cfg)
<1>1. /\ GeometryOK(cache.cfg)
      /\ s \in States(cache.cfg)
      /\ Coherent(s) /\ Ok(s)
  <2>1. [answer |-> 0, fails |-> "never"] \in
          [answer : Int, fails : {"never", "onAccess", "onInsert"}]
    OBVIOUS
  <2> QED BY <2>1, StartType, NowCoherent DEF TypeOK
<1>2. Finish(t, <<>>)
  BY DEF ReconfigureCache
<1> HIDE DEF s
<1>3. Empty(t.c)
  BY <1>1, ReconfigureCoherent
<1>4. RanksDiffer(t.c)
  BY <1>1, ReconfigureRanks
<1>5. PICK cfg2 : GeometryOK(cfg2) /\ t \in States(cfg2)
  <2>1. Flush(s) \in States(cache.cfg)
    BY <1>1, FlushType
  <2> QED BY <1>1, <2>1, ReconfigureType
<1> HIDE DEF t
<1>6. t.c \in Levels(cfg2)
  BY <1>5 DEF States
<1>7. \A x \in Sets(t.c) : Held(t.c, x) = <<>>
  BY <1>3, <1>4, <1>5, <1>6, EmptyHeld
<1>8. cache' = t.c
  BY <1>2 DEF Finish
<1> QED BY <1>4, <1>7, <1>8 DEF EmptiedRanked

\* So does the reset of the whole machine.
LEMMA ResetEmpties ==
  ASSUME TypeOK, ResetAll
  PROVE  EmptiedRanked
<1> DEFINE d == Reset(cache)
<1>1. GeometryOK(cache.cfg) /\ cache \in Levels(cache.cfg)
  BY NowLevel
<1>2. d \in Levels(cache.cfg) /\ Empty(d)
  BY <1>1, ResetType, ResetEmpty
<1>3. d.recency = Ranks(cache.cfg) /\ d.arrival = Ranks(cache.cfg)
  BY <1>1 DEF Reset, Levels
<1> HIDE DEF d
<1>4. RanksDiffer(d)
  BY <1>1, <1>2, <1>3, FreshRanks
<1>5. \A x \in Sets(d) : Held(d, x) = <<>>
  BY <1>1, <1>2, <1>4, EmptyHeld
<1>6. cache' = d
  BY DEF ResetAll, d
<1> QED BY <1>4, <1>5, <1>6 DEF EmptiedRanked

\* Loading a script changes what decides, and neither ranks nor lines.
LEMMA LoadScriptKeeps ==
  ASSUME TypeOK, TypeOK', RanksDiffer(cache), NEW path \in Paths, LoadScript(path)
  PROVE  /\ RanksDiffer(cache')
         /\ \A x \in Sets(cache) :
              Range(Held(cache, x)) \subseteq Range(Held(cache', x))
<1>1. GeometryOK(cache.cfg) /\ cache \in Levels(cache.cfg) /\ cache.cfg \in CacheConfigs
  BY NowLevel, GeometryFacts
<1>2. GeometryOK(cache'.cfg) /\ cache' \in Levels(cache'.cfg)
  BY DEF TypeOK
<1>3. cache' = LoadCustomPolicyScript(cache, path)
  BY DEF LoadScript
<1>4. /\ cache'.line = cache.line
      /\ cache'.recency = cache.recency
      /\ cache'.arrival = cache.arrival
      /\ cache'.cfg.sets = cache.cfg.sets
      /\ cache'.cfg.ways = cache.cfg.ways
  BY <1>1, <1>3 DEF LoadCustomPolicyScript, Levels, CacheConfigs
<1>5. Sets(cache') = Sets(cache) /\ Ways(cache') = Ways(cache)
  BY <1>4 DEF Sets, Ways
<1>6. RanksDiffer(cache')
  BY <1>4, <1>5 DEF RanksDiffer
<1>7. \A x \in Sets(cache) : \A w \in ValidWays(cache, x) : SameTag(cache, cache', x, w)
  BY <1>4 DEF SameTag
<1> QED BY <1>1, <1>2, <1>4, <1>6, <1>7, KeptBlocks

\* The initial ranks differ.
LEMMA RanksInit ==
  ASSUME Init
  PROVE  RanksDiffer(cache)
<1>1. PICK cfg \in Configs : cache = Setup(cfg)
  BY DEF Init
<1>2. GeometryOK(cfg)
  BY ConfigsAssumption DEF GeometryOK
<1>3. cache \in Levels(cfg)
  BY <1>1, <1>2, SetupType
<1>4. cache.recency = Ranks(cfg) /\ cache.arrival = Ranks(cfg)
  BY <1>1 DEF Setup
<1> QED BY <1>2, <1>3, <1>4, FreshRanks

\* What every step does: the ranks keep differing, and either all sets are
\* empty after it or none that has a free way loses a block.
Keeps ==
  /\ RanksDiffer(cache')
  /\ \/ \A x \in Sets(cache') : Held(cache', x) = <<>>
     \/ \A x \in Sets(cache) : Free(cache, x) # {} =>
          Range(Held(cache, x)) \subseteq Range(Held(cache', x))

\* Every step does that.
LEMMA KeepsNext ==
  ASSUME NoSpanning, TypeOK, TypeOK', Safe, RanksDiffer(cache), [Next]_vars
  PROVE  Keeps
<1>1. ASSUME NEW acc \in Accesses, NEW script \in Scripts, Read(acc[1], acc[2], script)
      PROVE  Keeps
  BY <1>1, ReadOrders, AccessKeeps DEF Keeps
<1>2. ASSUME NEW acc \in Accesses, NEW script \in Scripts,
             NEW data \in [0 .. acc[2] - 1 -> Values],
             Write(acc[1], acc[2], data, script)
      PROVE  Keeps
  BY <1>2, WriteOrders, AccessKeeps DEF Keeps
<1>3. ASSUME cache' = cache
      PROVE  Keeps
  BY <1>3 DEF Keeps
<1>4. ASSUME NEW acc \in Accesses, Refuse(acc[1], acc[2])
      PROVE  Keeps
  BY <1>3, <1>4 DEF Refuse
<1>5. ASSUME NEW cfg \in Configs, ReconfigureCache(cfg)
      PROVE  Keeps
  BY <1>5, ReconfigureEmpties DEF Keeps, EmptiedRanked
<1>6. ASSUME NEW path \in Paths, LoadScript(path)
      PROVE  Keeps
  BY <1>6, LoadScriptKeeps DEF Keeps
<1>7. CASE ResetAll
  BY <1>7, ResetEmpties DEF Keeps, EmptiedRanked
<1>8. CASE UNCHANGED vars
  BY <1>3, <1>8 DEF vars
<1> QED BY <1>1, <1>2, <1>4, <1>5, <1>6, <1>7, <1>8 DEF Next, DataOf

\* The invariant of CacheProofs.
LEMMA AlwaysSafe ==
  ASSUME NoSpanning
  PROVE  Spec => []Safe
<1>1. UniqueTags /\ CleanLinesMatchMemory /\ DirtyOnlyUnderWriteBack /\ NeverAbsent => Safe
  BY DEF Safe
<1> QED BY <1>1, SafetyCorrect, PTL

\* The ranks of the ways of a set differ in every state: no policy ever has to
\* choose between two ways that are equally old.
LEMMA RanksAlwaysDiffer ==
  ASSUME NoSpanning
  PROVE  Spec => []RanksDiffer(cache)
<1>1. Init => RanksDiffer(cache)
  BY RanksInit
<1>2. TypeOK /\ TypeOK' /\ Safe /\ RanksDiffer(cache) /\ [Next]_vars => RanksDiffer(cache)'
  BY KeepsNext DEF Keeps
<1>3. Spec => []Safe
  BY AlwaysSafe
<1> QED BY <1>1, <1>2, <1>3, TypeCorrect, PTL DEF Spec

\* Replacement never wastes a way: whatever a custom script answers, no block
\* leaves a set that has an invalid way, unless the whole cache is emptied.
THEOREM ReplacementWastesNoWay ==
  ASSUME NoSpanning
  PROVE  Spec => NoEarlyReplacement
<1> DEFINE Kept == \/ \A set \in Sets(cache)' : Held(cache, set)' = <<>>
                   \/ \A set \in Sets(cache) : Free(cache, set) # {} =>
                        Range(Held(cache, set)) \subseteq Range(Held(cache, set)')
<1>1. TypeOK /\ TypeOK' /\ Safe /\ RanksDiffer(cache) /\ [Next]_vars => Kept
  BY KeepsNext DEF Keeps
<1>2. Spec => []Safe
  BY AlwaysSafe
<1>3. NoEarlyReplacement <=> [][Kept]_vars
  BY DEF NoEarlyReplacement
<1> HIDE DEF Kept
<1> QED BY <1>1, <1>2, <1>3, TypeCorrect, RanksAlwaysDiffer, PTL DEF Spec

\* What ReplacementOrder asks of a step that completes an access at a.
MovedAsUsed(a) ==
  /\ Held(cache', SetOf(cache, a)) = Used(cache, SetOf(cache, a), Block(cache, a))
  /\ \A x \in Sets(cache) \ {SetOf(cache, a)} : Held(cache', x) = Held(cache, x)

\* A completed read or write moves its block as the policy says.
LEMMA CompletedMoves ==
  ASSUME TypeOK, Safe, RanksDiffer(cache), cache.cfg.repl # "Custom",
         NEW a \in Nat, cache' \in Levels(cache.cfg), Moves(a), reply'.status = "ok"
  PROVE  MovedAsUsed(a)
<1>1. GeometryOK(cache.cfg) /\ cache \in Levels(cache.cfg)
  BY NowLevel
<1>2. Hit(cache, cache', a) \/ Miss(cache, cache', a)
  BY DEF Moves
<1>3. Unique(cache)
  BY DEF Safe, UniqueTags, Unique
<1> QED BY <1>1, <1>2, <1>3, MovesUse DEF MovedAsUsed

\* Under LRU and FIFO the code, which compares timestamps and prefers invalid
\* ways, keeps the blocks of each set in the order the policy is taught with:
\* every completed access moves its own block to the front, or leaves it where
\* it is, drops at most the block at the end, and changes no other set.
THEOREM ReplacementFollowsThePolicy ==
  ASSUME NoSpanning
  PROVE  Spec => ReplacementOrder
<1> DEFINE Ordered ==
             cache.cfg.repl # "Custom" => \A acc \in Accesses :
               LET a   == acc[1]
                   set == SetOf(cache, a)
                   new == Used(cache, set, Block(cache, a))
               IN  /\ ReadStep(a, acc[2]) /\ reply'.status = "ok" =>
                        Held(cache, set)' = new /\ OthersKept(set)
                   /\ WriteStep(a, acc[2]) /\ reply'.status = "ok" =>
                        /\ Held(cache, set)' =
                             IF Bypass(cache, a) THEN Held(cache, set) ELSE new
                        /\ OthersKept(set)
<1>1. TypeOK /\ Safe /\ RanksDiffer(cache) => Ordered
  <2> SUFFICES ASSUME TypeOK, Safe, RanksDiffer(cache), cache.cfg.repl # "Custom",
                      NEW acc \in Accesses, reply'.status = "ok"
               PROVE  LET a   == acc[1]
                          set == SetOf(cache, a)
                          new == Used(cache, set, Block(cache, a))
                      IN  /\ ReadStep(a, acc[2]) =>
                               Held(cache, set)' = new /\ OthersKept(set)
                          /\ WriteStep(a, acc[2]) =>
                               /\ Held(cache, set)' =
                                    IF Bypass(cache, a) THEN Held(cache, set) ELSE new
                               /\ OthersKept(set)
    OBVIOUS
  <2> DEFINE a == acc[1]
  <2>1. ASSUME a \in Nat, cache' \in Levels(cache.cfg)
        PROVE  SetOf(cache', a) = SetOf(cache, a)
    BY <2>1 DEF Levels, SetOf, Block
  <2>2. ASSUME ReadStep(a, acc[2])
        PROVE  /\ Held(cache', SetOf(cache', a)) = Used(cache, SetOf(cache, a), Block(cache, a))
               /\ OthersKept(SetOf(cache, a))
    <3>1. PICK script \in Scripts : Read(a, acc[2], script)
      BY <2>2 DEF ReadStep
    <3>2. a \in Nat /\ cache' \in Levels(cache.cfg) /\ Moves(a)
      BY <3>1, ReadOrders
    <3>3. MovedAsUsed(a)
      BY <3>2, CompletedMoves
    <3> QED BY <2>1, <3>2, <3>3 DEF MovedAsUsed, OthersKept
  <2>3. ASSUME WriteStep(a, acc[2])
        PROVE  /\ Held(cache', SetOf(cache', a)) =
                    IF Bypass(cache, a) THEN Held(cache, SetOf(cache, a))
                    ELSE Used(cache, SetOf(cache, a), Block(cache, a))
               /\ OthersKept(SetOf(cache, a))
    <3>1. PICK script \in Scripts, data \in [0 .. acc[2] - 1 -> Values] :
            Write(a, acc[2], data, script)
      BY <2>3 DEF WriteStep
    <3>2. /\ a \in Nat /\ cache' \in Levels(cache.cfg)
          /\ IF Bypass(cache, a) THEN cache' = cache ELSE Moves(a)
      BY <3>1, WriteOrders
    <3>3. CASE Bypass(cache, a)
      BY <3>2, <3>3 DEF OthersKept
    <3>4. CASE ~Bypass(cache, a)
      <4>1. MovedAsUsed(a)
        BY <3>2, <3>4, CompletedMoves
      <4> QED BY <2>1, <3>2, <3>4, <4>1 DEF MovedAsUsed, OthersKept
    <3> QED BY <3>3, <3>4
  <2> QED BY <2>2, <2>3
<1>2. Spec => []Safe
  BY AlwaysSafe
<1>3. ReplacementOrder <=> [][Ordered]_vars
  BY DEF ReplacementOrder
<1> HIDE DEF Ordered
<1> QED BY <1>1, <1>2, <1>3, TypeCorrect, RanksAlwaysDiffer, PTL DEF Spec
=============================================================================
