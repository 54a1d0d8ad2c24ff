---------------------------- MODULE LevelProofs -----------------------------
(***************************************************************************)
(* A cache level over any faithful device is a faithful device: what the   *)
(* levels of MemoryHierarchy rest on, stated once for both.  The device    *)
(* below is described by the constants, and what a level relies on is the  *)
(* predicate Device.  As long as accesses and lines from above stay within *)
(* one line of the level, the level then keeps the same promises: first    *)
(* the types, then what each operation does to coherence and to the view,  *)
(* and in the end the contract again.                                      *)
(***************************************************************************)
EXTENDS CacheLevel, WellFoundedInduction, TLAPS

CONSTANTS
  Values,        \* the values of a cell
  Extent,        \* the addresses below it belong to whole lines of every level
  Usable,        \* the addresses below it can be accessed
  Dev,           \* the states of the device
  Holds(_, _),   \* (n, address) -> the cell found there through the device
  Grain(_),      \* (n) -> the length of the device's lines
  Sound(_, _)    \* (n, addresses): is what it holds there beyond doubt?

Space == 0 .. Extent - 1

Cells(len) == [0 .. len - 1 -> Values]

\* A stretch within one line of the device, and one that can be accessed.
Chunk(n, a, len) ==
  /\ a \in Nat
  /\ len \in Nat \ {0}
  /\ a + len <= Extent
  /\ \A i \in 0 .. len - 1 : (a + i) \div Grain(n) = a \div Grain(n)

Piece(n, a, len) == Chunk(n, a, len) /\ a + len <= Usable

\* The device goes from n to m, and what it holds at A stays.
Keeps(n, m, A) == Sound(m, A) /\ \A b \in A : Holds(m, b) = Holds(n, b)

\* The device goes from n to m with data over its cells from a on.
Puts(n, m, A, a, len, data) ==
  /\ Sound(m, A)
  /\ \A b \in A : Holds(m, b) = IF b - a \in 0 .. len - 1 THEN data[b - a] ELSE Holds(n, b)

\* What a device answers to readLine.
Answers(n, r, a, len) ==
  /\ r.n \in Dev
  /\ Grain(r.n) = Grain(n)
  /\ r.data \in Cells(len)
  /\ \A A \in SUBSET Space :
       Sound(n, A) => /\ Keeps(n, r.n, A)
                      /\ \A i \in 0 .. len - 1 : a + i \in A => r.data[i] = Holds(n, a + i)

\* What it makes of writeLine and of write.
Obeys(n, m, a, len, data) ==
  /\ m \in Dev
  /\ Grain(m) = Grain(n)
  /\ \A A \in SUBSET Space : Sound(n, A) => Puts(n, m, A, a, len, data)

Lawful(n) == NextOk(n) /\ Grain(n) \in Nat \ {0} /\ Extent % Grain(n) = 0

\* The contract of a device.
Device ==
  /\ Extent \in Nat \ {0} /\ Usable \in Nat /\ Usable <= Extent /\ 0 \in Values
  /\ \A n \in Dev : Lawful(n)
  /\ \A n \in Dev : \A a, len :
       Chunk(n, a, len) => Answers(n, NextReadLine(n, a, len), a, len)
  /\ \A n \in Dev : \A a, len : \A data \in Cells(len) :
       Chunk(n, a, len) => Obeys(n, NextWriteLine(n, a, data), a, len, data)
  /\ \A n \in Dev : \A a, len : \A data \in Cells(len) :
       Piece(n, a, len) => Obeys(n, NextWrite(n, a, data), a, len, data)

\* The numbers of the contract.
LEMMA SpaceFacts ==
  ASSUME Device
  PROVE  /\ Extent \in Nat \ {0}
         /\ Usable \in Nat
         /\ Usable <= Extent
         /\ 0 \in Values
         /\ \A a \in Space : a \in Nat
BY DEF Device, Space

\* The device in any of its states.
LEMMA DeviceLawful ==
  ASSUME Device, NEW n \in Dev
  PROVE  NextOk(n) /\ Grain(n) \in Nat \ {0} /\ Extent % Grain(n) = 0
BY DEF Device, Lawful

\* Its three operations.
LEMMA DeviceAnswers ==
  ASSUME Device, NEW n \in Dev, NEW a, NEW len, Chunk(n, a, len)
  PROVE  Answers(n, NextReadLine(n, a, len), a, len)
BY DEF Device

\* And to a line that is written.
LEMMA DeviceObeysLine ==
  ASSUME Device, NEW n \in Dev, NEW a, NEW len, NEW data \in Cells(len), Chunk(n, a, len)
  PROVE  Obeys(n, NextWriteLine(n, a, data), a, len, data)
BY DEF Device

\* And to a write.
LEMMA DeviceObeys ==
  ASSUME Device, NEW n \in Dev, NEW a, NEW len, NEW data \in Cells(len), Piece(n, a, len)
  PROVE  Obeys(n, NextWrite(n, a, data), a, len, data)
BY DEF Device

-----------------------------------------------------------------------------
(* Arithmetic of addresses. *)

\* A nonempty set of naturals has a least element, and Least returns it.
LEMMA LeastIsLeast ==
  ASSUME NEW S \in SUBSET Nat, S # {}
  PROVE  /\ Least(S) \in S
         /\ \A y \in S : Least(S) <= y
<1>1. PICK x \in S : \A y \in S : <<y, x>> \notin OpToRel(<, Nat)
  BY WFMin, NatLessThanWellFounded, Zenon
<1>2. \A y \in S : ~(y < x)
  BY <1>1, Zenon DEF OpToRel
<1>3. \A y \in S : x <= y
  BY <1>2
<1> QED BY <1>1, <1>3 DEF Least

\* Division with remainder.
LEMMA DivMod ==
  ASSUME NEW a \in Nat, NEW n \in Nat \ {0}
  PROVE  /\ a \div n \in Nat
         /\ a % n \in 0 .. n - 1
         /\ a = n * (a \div n) + (a % n)
OBVIOUS

\* Quotient and remainder are unique.
LEMMA DivModUnique ==
  ASSUME NEW n \in Nat \ {0}, NEW q \in Nat, NEW r \in 0 .. n - 1
  PROVE  (n * q + r) \div n = q /\ (n * q + r) % n = r
OBVIOUS

\* A multiple is a product.
LEMMA Multiple ==
  ASSUME NEW m \in Nat, NEW n \in Nat \ {0}, m % n = 0
  PROVE  m \div n \in Nat /\ m = n * (m \div n)
<1> DEFINE q == m \div n
           r == m % n
<1>1. q \in Nat /\ m = n * q + r /\ r = 0
  BY DivMod, Zenon
<1> HIDE DEF q, r
<1>2. n * q \in Nat
  BY <1>1
<1>3. m = n * q
  BY <1>1, <1>2
<1> QED BY <1>1, <1>3 DEF q

\* A multiple of n is the start of the block of size n that n * q + r is in.
LEMMA SmallerProduct ==
  ASSUME NEW n \in Nat \ {0}, NEW p \in Nat, NEW q \in Nat, p < q
  PROVE  n * p \in Nat /\ n * q \in Nat /\ n * p + n <= n * q
<1>1. n * p \in Nat /\ n * q \in Nat
  OBVIOUS
<1>2. p + 1 <= q
  OBVIOUS
<1>3. n * (p + 1) <= n * q
  BY <1>2, SMT
<1>4. n * (p + 1) = n * p + n
  OBVIOUS
<1> QED BY <1>1, <1>3, <1>4

Nested(x, n, m) == x \div m = (x \div n) \div (m \div n)

\* Blocks of a multiple of a size are blocks of blocks.
LEMMA DivDiv ==
  ASSUME NEW x \in Nat, NEW n \in Nat \ {0}, NEW m \in Nat \ {0}, m % n = 0
  PROVE  Nested(x, n, m) /\ m \div n \in Nat \ {0}
<1> DEFINE k == m \div n
           b == x \div n
           r == x % n
           q == b \div k
           t == b % k
<1>1. k \in Nat /\ m = n * k
  BY Multiple
<1>2. k # 0
  <2> HIDE DEF k
  <2> QED BY <1>1
<1>3. b \in Nat /\ r \in 0 .. n - 1 /\ x = n * b + r
  BY DivMod, Zenon
<1> HIDE DEF b, r, k
<1>4. q \in Nat /\ t \in 0 .. k - 1 /\ b = k * q + t
  BY <1>1, <1>2, <1>3, DivMod, Zenon
<1> HIDE DEF q, t
<1> DEFINE z == n * t + r
<1>5. z \in 0 .. m - 1
  <2>1. n * t \in Nat /\ n * k \in Nat /\ n * t + n <= n * k
    BY <1>1, <1>2, <1>4, SmallerProduct
  <2> QED BY <1>1, <1>3, <2>1
<1>6. x = m * q + z
  <2>1. n * b = n * (k * q) + n * t
    BY <1>1, <1>4
  <2>2. n * (k * q) = m * q
    BY <1>1, <1>4
  <2>3. m * q \in Nat /\ n * t \in Nat
    BY <1>1, <1>4
  <2> QED BY <1>3, <2>1, <2>2, <2>3
<1> HIDE DEF z
<1>7. x \div m = q
  BY <1>4, <1>5, <1>6, DivModUnique, Zenon
<1> QED BY <1>1, <1>2, <1>7 DEF q, b, k, Nested

SameBlock(x, y, n) == x \div n = y \div n

\* What shares a block shares the larger block it is part of.
LEMMA LargerBlock ==
  ASSUME NEW x \in Nat, NEW y \in Nat, NEW m \in Nat \ {0}, NEW g \in Nat \ {0},
         g % m = 0, SameBlock(x, y, m)
  PROVE  SameBlock(x, y, g)
<1>1. Nested(x, m, g) /\ Nested(y, m, g)
  BY DivDiv, Zenon
<1> QED BY <1>1, Zenon DEF Nested, SameBlock

-----------------------------------------------------------------------------
(* Levels and their types. *)

CacheConfigs == [sets : Nat \ {0}, ways : Nat \ {0}, size : Nat \ {0},
                 write : {"WriteThrough", "WriteBack"},
                 alloc : {"WriteAllocate", "NoWriteAllocate"},
                 repl  : {"LRU", "FIFO"}]

\* The space is a whole number of lines.
Geometry(cfg) == cfg \in CacheConfigs /\ Extent % cfg.size = 0

Lines(cfg) ==
  [valid : BOOLEAN, dirty : BOOLEAN, tag : Nat, data : [0 .. cfg.size - 1 -> Values]]

PerWay(cfg, S) == [0 .. cfg.sets - 1 -> [0 .. cfg.ways - 1 -> S]]

\* A valid line belongs to the space.
Inside(cfg, set, l) ==
  l.valid => (l.tag * cfg.sets + set) * cfg.size + cfg.size <= Extent

Tables(cfg) ==
  {f \in PerWay(cfg, Lines(cfg)) :
     \A set \in 0 .. cfg.sets - 1, w \in 0 .. cfg.ways - 1 : Inside(cfg, set, f[set][w])}

Levels(cfg) ==
  [cfg     : {cfg},
   line    : Tables(cfg),
   recency : PerWay(cfg, 0 .. cfg.ways - 1),
   arrival : PerWay(cfg, 0 .. cfg.ways - 1),
   path    : {"none"},
   loaded  : {FALSE}]

\* The states of the device whose lines are whole numbers of the level's.
Devs(size) == {n \in Dev : Grain(n) % size = 0}

Silent == [answer |-> 0, fails |-> "never"]

States(cfg) == [c : Levels(cfg), n : Devs(cfg.size), err : {"none"}, script : {Silent}]

\* What a configuration says of its numbers.
LEMMA GeometryFacts ==
  ASSUME NEW cfg, Geometry(cfg)
  PROVE  /\ cfg \in CacheConfigs
         /\ cfg.sets \in Nat \ {0}
         /\ cfg.ways \in Nat \ {0}
         /\ cfg.size \in Nat \ {0}
         /\ cfg.repl \in {"LRU", "FIFO"}
         /\ cfg.write \in {"WriteThrough", "WriteBack"}
         /\ Extent % cfg.size = 0
BY DEF Geometry, CacheConfigs

\* The sets, ways and lines of a level in its types.
LEMMA LevelFacts ==
  ASSUME NEW cfg, NEW c \in Levels(cfg)
  PROVE  /\ c.cfg = cfg
         /\ Sets(c) = 0 .. cfg.sets - 1
         /\ Ways(c) = 0 .. cfg.ways - 1
         /\ Offsets(c) = 0 .. cfg.size - 1
         /\ c.line \in [Sets(c) -> [Ways(c) -> Lines(cfg)]]
         /\ c.recency \in [Sets(c) -> [Ways(c) -> Ways(c)]]
         /\ c.arrival \in [Sets(c) -> [Ways(c) -> Ways(c)]]
BY DEF Levels, Tables, PerWay, Sets, Ways, Offsets

\* The valid lines of a level lie in the space.
LEMMA LineInside ==
  ASSUME NEW cfg, NEW c \in Levels(cfg), NEW set \in Sets(c), NEW w \in Ways(c)
  PROVE  Inside(cfg, set, c.line[set][w])
<1>1. c.line \in Tables(cfg) /\ set \in 0 .. cfg.sets - 1 /\ w \in 0 .. cfg.ways - 1
  BY LevelFacts, Zenon DEF Levels
<1> QED BY <1>1 DEF Tables

\* The parts of a state.
LEMMA StateFacts ==
  ASSUME NEW cfg, NEW s \in States(cfg)
  PROVE  /\ s.c \in Levels(cfg)
         /\ s.c.cfg = cfg
         /\ s.n \in Dev
         /\ Grain(s.n) % cfg.size = 0
         /\ s.err = "none"
BY DEF States, Levels, Devs

\* A typed state is one in which nothing has failed.
LEMMA StateOk ==
  ASSUME Device, NEW cfg, NEW s \in States(cfg)
  PROVE  Ok(s)
BY DeviceLawful DEF Ok, States, Devs

\* No script is there to be called.
LEMMA NoHook ==
  ASSUME NEW cfg, Geometry(cfg), NEW s, s.c \in Levels(cfg), NEW hook
  PROVE  CallHook(s, hook) = s
<1>1. ~Custom(s.c)
  BY DEF Custom, Levels
<1> QED BY <1>1, Zenon DEF CallHook

\* An address splits into a tag, a set and an offset.
LEMMA AddressTypes ==
  ASSUME NEW cfg, Geometry(cfg), NEW c \in Levels(cfg), NEW a \in Nat
  PROVE  /\ Block(c, a) \in Nat
         /\ SetOf(c, a) \in Sets(c)
         /\ Tag(c, a) \in Nat
         /\ Offset(c, a) \in Offsets(c)
         /\ Aligned(c, a) \in Nat
         /\ Aligned(c, a) = cfg.size * Block(c, a)
         /\ Offset(c, a) \in 0 .. cfg.size - 1
         /\ a = cfg.size * Block(c, a) + Offset(c, a)
<1>1. /\ cfg.size \in Nat \ {0}
      /\ cfg.sets \in Nat \ {0}
      /\ c.cfg = cfg
  BY GeometryFacts, LevelFacts
<1>2. /\ Block(c, a) \in Nat
      /\ Offset(c, a) \in Offsets(c)
      /\ a = cfg.size * Block(c, a) + Offset(c, a)
  BY <1>1, DivMod DEF Block, Offset, Offsets
<1>3. Tag(c, a) \in Nat /\ SetOf(c, a) \in Sets(c)
  BY <1>1, <1>2, DivMod DEF Tag, SetOf, Sets
<1>4. cfg.size * Block(c, a) \in Nat /\ Offset(c, a) \in Nat
  BY <1>1, <1>2 DEF Offsets
<1>5. Aligned(c, a) = cfg.size * Block(c, a)
  BY <1>2, <1>4 DEF Aligned
<1> QED BY <1>1, <1>2, <1>3, <1>4, <1>5 DEF Offsets

\* A line that holds an address of the space lies in it as a whole.
LEMMA LineInSpace ==
  ASSUME Device, NEW cfg, Geometry(cfg), NEW c \in Levels(cfg), NEW a \in Space
  PROVE  Aligned(c, a) \in Nat /\ Aligned(c, a) + cfg.size <= Extent
<1> DEFINE n == cfg.size
           b == Block(c, a)
           k == Extent \div cfg.size
<1>1. /\ n \in Nat \ {0}
      /\ c.cfg = cfg
      /\ Extent % n = 0
      /\ Extent \in Nat
      /\ a \in Nat
      /\ a < Extent
  BY GeometryFacts, LevelFacts, SpaceFacts DEF Space
<1>2. Extent = n * k /\ k \in Nat
  BY <1>1, Multiple, Zenon
<1>3. /\ b \in Nat
      /\ Aligned(c, a) = n * b
      /\ Offset(c, a) \in Nat
      /\ a = n * b + Offset(c, a)
  BY <1>1, AddressTypes DEF Offsets
<1> HIDE DEF n, b, k
<1>4. n * b \in Nat /\ n * k \in Nat
  BY <1>1, <1>2, <1>3
<1>5. n * b < n * k
  BY <1>1, <1>2, <1>3, <1>4
<1>6. b < k
  <2>1. b = k => n * b = n * k
    OBVIOUS
  <2>2. k < b => n * k + n <= n * b
    BY <1>1, <1>2, <1>3, SmallerProduct
  <2> QED BY <1>1, <1>2, <1>3, <1>4, <1>5, <2>1, <2>2
<1>7. n * b + n <= n * k
  BY <1>1, <1>2, <1>3, <1>6, SmallerProduct
<1> QED BY <1>2, <1>3, <1>4, <1>7 DEF n

\* So do all its cells.
LEMMA CellsInSpace ==
  ASSUME Device, NEW cfg, Geometry(cfg), NEW c \in Levels(cfg), NEW a \in Space,
         NEW o \in 0 .. cfg.size - 1
  PROVE  Aligned(c, a) + o \in Space
<1>1. Aligned(c, a) \in Nat /\ Aligned(c, a) + cfg.size <= Extent
  BY LineInSpace
<1>2. cfg.size \in Nat /\ Extent \in Nat
  BY GeometryFacts, SpaceFacts
<1> QED BY <1>1, <1>2 DEF Space

\* findWay returns a way of the set, whose line is valid and holds the block.
LEMMA WayOfResident ==
  ASSUME NEW cfg, Geometry(cfg), NEW c \in Levels(cfg), NEW a \in Nat,
         Resident(c, a)
  PROVE  WayOf(c, a) \in Matching(c, SetOf(c, a), Tag(c, a))
<1>1. Matching(c, SetOf(c, a), Tag(c, a)) \in SUBSET Nat
  BY GeometryFacts, LevelFacts DEF Matching
<1> QED BY <1>1, LeastIsLeast DEF Resident, WayOf, FindWay

\* Renewing a way keeps the ranks of a set below the number of its ways.
LEMMA NewestType ==
  ASSUME NEW n \in Nat \ {0}, NEW order \in [0 .. n - 1 -> 0 .. n - 1],
         NEW w \in 0 .. n - 1
  PROVE  Newest(order, w, n) \in [0 .. n - 1 -> 0 .. n - 1]
<1>1. \A x, y \in 0 .. n - 1 : x > y => x - 1 \in 0 .. n - 1
  OBVIOUS
<1>2. n - 1 \in 0 .. n - 1
  OBVIOUS
<1>3. ASSUME NEW v \in 0 .. n - 1
      PROVE  Newest(order, w, n)[v] \in 0 .. n - 1
  <2>1. order[v] \in 0 .. n - 1 /\ order[w] \in 0 .. n - 1
    OBVIOUS
  <2> QED BY <1>1, <1>2, <2>1, Zenon DEF Newest
<1> QED BY <1>3, Zenon DEF Newest

\* Replacing one entry of a table of sets and ways.
LEMMA PerWayUpdate ==
  ASSUME NEW cfg, NEW S, NEW f \in PerWay(cfg, S),
         NEW set \in 0 .. cfg.sets - 1,
         NEW g \in [0 .. cfg.ways - 1 -> S]
  PROVE  [f EXCEPT ![set] = g] \in PerWay(cfg, S)
BY DEF PerWay

\* Renewing a way of a set in such a table.
LEMMA RenewType ==
  ASSUME NEW cfg, Geometry(cfg), NEW order \in PerWay(cfg, 0 .. cfg.ways - 1),
         NEW set \in 0 .. cfg.sets - 1, NEW w \in 0 .. cfg.ways - 1
  PROVE  [order EXCEPT ![set] = Newest(order[set], w, cfg.ways)]
           \in PerWay(cfg, 0 .. cfg.ways - 1)
<1> DEFINE r == Newest(order[set], w, cfg.ways)
<1>1. cfg.ways \in Nat \ {0}
  BY GeometryFacts
<1>2. order[set] \in [0 .. cfg.ways - 1 -> 0 .. cfg.ways - 1]
  BY DEF PerWay
<1>3. r \in [0 .. cfg.ways - 1 -> 0 .. cfg.ways - 1]
  BY <1>1, <1>2, NewestType
<1> HIDE DEF r
<1>4. [order EXCEPT ![set] = r] \in PerWay(cfg, 0 .. cfg.ways - 1)
  BY <1>3, PerWayUpdate
<1> QED BY <1>4 DEF r

\* Replacing one line by another that lies inside.
LEMMA TableUpdate ==
  ASSUME NEW cfg, NEW f \in Tables(cfg), NEW set \in 0 .. cfg.sets - 1,
         NEW w \in 0 .. cfg.ways - 1, NEW l \in Lines(cfg), Inside(cfg, set, l)
  PROVE  [f EXCEPT ![set][w] = l] \in Tables(cfg)
<1> DEFINE g == [f EXCEPT ![set][w] = l]
<1>1. f \in PerWay(cfg, Lines(cfg))
  BY DEF Tables
<1>2. g \in PerWay(cfg, Lines(cfg))
  BY <1>1 DEF PerWay
<1>3. ASSUME NEW x \in 0 .. cfg.sets - 1, NEW v \in 0 .. cfg.ways - 1
      PROVE  Inside(cfg, x, g[x][v])
  <2>1. g[x][v] = IF x = set /\ v = w THEN l ELSE f[x][v]
    BY <1>1 DEF PerWay
  <2>2. Inside(cfg, x, f[x][v])
    BY DEF Tables
  <2> HIDE DEF g
  <2> QED BY <2>1, <2>2
<1> HIDE DEF g
<1>4. g \in Tables(cfg)
  BY <1>2, <1>3 DEF Tables
<1> QED BY <1>4 DEF g

LineReplaced(cfg, s, t, set, w, l) ==
  /\ t \in States(cfg)
  /\ t.c.line = [s.c.line EXCEPT ![set][w] = l]
  /\ t.n = s.n

\* Replacing one line keeps a level typed.
LEMMA LineUpdateType ==
  ASSUME NEW cfg, NEW s \in States(cfg), NEW set \in Sets(s.c), NEW w \in Ways(s.c),
         NEW l \in Lines(cfg), Inside(cfg, set, l), NEW t, t = [s EXCEPT !.c.line[set][w] = l]
  PROVE  LineReplaced(cfg, s, t, set, w, l)
<1>1. /\ s.c \in Levels(cfg)
      /\ set \in 0 .. cfg.sets - 1
      /\ w \in 0 .. cfg.ways - 1
      /\ s.c.line \in Tables(cfg)
  BY StateFacts, LevelFacts DEF Levels
<1> DEFINE g == [s.c.line EXCEPT ![set][w] = l]
<1>2. g \in Tables(cfg)
  BY <1>1, TableUpdate
<1>3. t = [s EXCEPT !.c.line = g]
  BY <1>1 DEF States, Levels
<1> HIDE DEF g
<1> DEFINE u == [s EXCEPT !.c.line = g]
<1> HIDE DEF g
<1>4. u \in States(cfg)
  BY <1>1, <1>2 DEF States, Levels
<1>5. u.c.line = g /\ u.n = s.n
  BY <1>1 DEF States, Levels
<1>6. t = u
  BY <1>3
<1> HIDE DEF u
<1> QED BY <1>4, <1>5, <1>6 DEF g, LineReplaced

-----------------------------------------------------------------------------
(* Coherence and the view, at the addresses A.                             *)

Unique(c) ==
  \A set \in Sets(c), v, w \in Ways(c) :
    /\ c.line[set][v].valid
    /\ c.line[set][w].valid
    /\ c.line[set][v].tag = c.line[set][w].tag
    => v = w

Clean(c, n, A) ==
  \A a \in A :
    \A w \in Matching(c, SetOf(c, a), Tag(c, a)) :
      ~c.line[SetOf(c, a)][w].dirty =>
         c.line[SetOf(c, a)][w].data[Offset(c, a)] = Holds(n, a)

DirtyWriteBack(c) ==
  \A set \in Sets(c), w \in Ways(c) :
    c.line[set][w].dirty => c.cfg.write = "WriteBack"

Coherent(s, A) ==
  Unique(s.c) /\ Clean(s.c, s.n, A) /\ DirtyWriteBack(s.c) /\ Sound(s.n, A)

ViewAt(s, a) == IF Resident(s.c, a) THEN Cell(s.c, a) ELSE Holds(s.n, a)

SameView(s, t, A) == \A a \in A : ViewAt(s, a) = ViewAt(t, a)

\* What the device holds after a step from s to t it held before, or it has come
\* down from the level.
Passed(s, t, A) ==
  \A a \in A : Holds(t.n, a) = Holds(s.n, a) \/ Holds(t.n, a) = ViewAt(s, a)

-----------------------------------------------------------------------------
(* Addresses as coordinates: a set, a tag and an offset. *)

\* A line starts where its set and tag say.
LEMMA LineStartAligned ==
  ASSUME NEW cfg, Geometry(cfg), NEW c \in Levels(cfg), NEW a \in Nat
  PROVE  LineStart(c, SetOf(c, a), Tag(c, a)) = Aligned(c, a)
<1>1. cfg.sets \in Nat \ {0} /\ cfg.size \in Nat \ {0} /\ c.cfg = cfg
  BY GeometryFacts, LevelFacts
<1>2. Block(c, a) \in Nat /\ Aligned(c, a) = cfg.size * Block(c, a)
  BY AddressTypes
<1>3. /\ Tag(c, a) = Block(c, a) \div cfg.sets
      /\ SetOf(c, a) = Block(c, a) % cfg.sets
  BY <1>1 DEF Tag, SetOf
<1>4. /\ Tag(c, a) \in Nat
      /\ SetOf(c, a) \in 0 .. cfg.sets - 1
      /\ Block(c, a) = cfg.sets * Tag(c, a) + SetOf(c, a)
  <2>1. /\ Block(c, a) \div cfg.sets \in Nat
        /\ Block(c, a) % cfg.sets \in 0 .. cfg.sets - 1
        /\ Block(c, a) =
             cfg.sets * (Block(c, a) \div cfg.sets) + (Block(c, a) % cfg.sets)
    BY <1>1, <1>2, DivMod, Zenon
  <2> QED BY <1>3, <2>1, Zenon
<1>5. Tag(c, a) * cfg.sets + SetOf(c, a) = Block(c, a)
  BY <1>1, <1>4
<1>6. LineStart(c, SetOf(c, a), Tag(c, a)) = Block(c, a) * cfg.size
  BY <1>1, <1>5 DEF LineStart
<1> QED BY <1>1, <1>2, <1>6

\* The cells of a line are the addresses with its set and tag.
LEMMA CellsOfLine ==
  ASSUME NEW cfg, Geometry(cfg), NEW c \in Levels(cfg),
         NEW set \in Sets(c), NEW tag \in Nat, NEW b \in Nat
  PROVE  /\ b - LineStart(c, set, tag) \in 0 .. cfg.size - 1
              <=> SetOf(c, b) = set /\ Tag(c, b) = tag
         /\ SetOf(c, b) = set /\ Tag(c, b) = tag =>
              b - LineStart(c, set, tag) = Offset(c, b)
<1> DEFINE n == cfg.size
           k == cfg.sets
           p == k * tag + set
<1>1. n \in Nat \ {0} /\ k \in Nat \ {0} /\ c.cfg = cfg /\ set \in 0 .. k - 1
  BY GeometryFacts, LevelFacts
<1>2. p \in Nat /\ k * tag \in Nat
  BY <1>1
<1>3. LineStart(c, set, tag) = n * p
  <2>1. tag * k + set = p
    BY <1>1
  <2>2. LineStart(c, set, tag) = p * n
    BY <1>1, <2>1 DEF LineStart
  <2> HIDE DEF p, n
  <2> QED BY <1>1, <1>2, <2>2
<1>4. n * p \in Nat
  <2> HIDE DEF p, n
  <2> QED BY <1>1, <1>2
<1>5. ASSUME b - LineStart(c, set, tag) \in 0 .. n - 1
      PROVE  SetOf(c, b) = set /\ Tag(c, b) = tag
  <2>1. PICK r \in 0 .. n - 1 : r = b - n * p
    BY <1>3, <1>5
  <2>2. b = n * p + r
    BY <1>1, <1>4, <2>1
  <2>3. b \div n = p
    <3> HIDE DEF p, n
    <3>1. (n * p + r) \div n = p
      BY <1>1, <1>2, DivModUnique, Zenon
    <3> QED BY <2>2, <3>1, Zenon
  <2>4. p \div k = tag /\ p % k = set
    <3> HIDE DEF k
    <3> QED BY <1>1, DivModUnique
  <2> QED BY <1>1, <2>3, <2>4 DEF SetOf, Tag, Block
<1>6. ASSUME SetOf(c, b) = set, Tag(c, b) = tag
      PROVE  b - LineStart(c, set, tag) = Offset(c, b) /\ Offset(c, b) \in 0 .. n - 1
  <2>1. LineStart(c, set, tag) = Aligned(c, b)
    BY <1>6, LineStartAligned
  <2>2. /\ Aligned(c, b) = b - Offset(c, b)
        /\ Offset(c, b) \in 0 .. n - 1
    BY AddressTypes DEF Aligned
  <2> QED BY <1>1, <2>1, <2>2
<1> QED BY <1>5, <1>6

\* At most one way holds an address, and it is the one that is read.
LEMMA OneWay ==
  ASSUME NEW cfg, Geometry(cfg), NEW c \in Levels(cfg), Unique(c), NEW a \in Nat,
         NEW w \in Matching(c, SetOf(c, a), Tag(c, a))
  PROVE  /\ Resident(c, a)
         /\ WayOf(c, a) = w
         /\ Cell(c, a) = c.line[SetOf(c, a)][w].data[Offset(c, a)]
<1>1. Resident(c, a)
  BY DEF Resident
<1>2. WayOf(c, a) \in Matching(c, SetOf(c, a), Tag(c, a))
  BY <1>1, WayOfResident
<1>3. SetOf(c, a) \in Sets(c)
  BY AddressTypes
<1>4. WayOf(c, a) = w
  BY <1>2, <1>3 DEF Matching, Unique
<1> QED BY <1>1, <1>4 DEF Cell

\* Levels of one geometry split addresses alike.
LEMMA SameSplit ==
  ASSUME NEW c, NEW d, c.cfg.sets = d.cfg.sets, c.cfg.ways = d.cfg.ways,
         c.cfg.size = d.cfg.size
  PROVE  /\ Sets(c) = Sets(d)
         /\ Ways(c) = Ways(d)
         /\ Offsets(c) = Offsets(d)
         /\ \A a : SetOf(c, a) = SetOf(d, a)
         /\ \A a : Tag(c, a) = Tag(d, a)
         /\ \A a : Offset(c, a) = Offset(d, a)
         /\ \A a : Aligned(c, a) = Aligned(d, a)
         /\ \A set, tag : LineStart(c, set, tag) = LineStart(d, set, tag)
BY DEF Sets, Ways, Offsets, SetOf, Tag, Offset, Block, Aligned, LineStart

\* Residency and cells depend on the geometry and the lines alone.
LEMMA SameCells ==
  ASSUME NEW c, NEW d, c.cfg.sets = d.cfg.sets, c.cfg.ways = d.cfg.ways,
         c.cfg.size = d.cfg.size, c.line = d.line
  PROVE  /\ \A set, tag : Matching(c, set, tag) = Matching(d, set, tag)
         /\ \A a : Resident(c, a) <=> Resident(d, a)
         /\ \A a : WayOf(c, a) = WayOf(d, a)
         /\ \A a : Cell(c, a) = Cell(d, a)
<1>1. /\ Ways(c) = Ways(d)
      /\ \A a : SetOf(c, a) = SetOf(d, a)
      /\ \A a : Tag(c, a) = Tag(d, a)
      /\ \A a : Offset(c, a) = Offset(d, a)
  BY SameSplit
<1>2. \A set, tag : Matching(c, set, tag) = Matching(d, set, tag)
  BY <1>1 DEF Matching
<1>3. \A a : Resident(c, a) <=> Resident(d, a)
  BY <1>1, <1>2 DEF Resident
<1>4. \A a : WayOf(c, a) = WayOf(d, a)
  BY <1>1, <1>2 DEF WayOf, FindWay
<1>5. \A a : Cell(c, a) = Cell(d, a)
  BY <1>1, <1>4 DEF Cell
<1> QED BY <1>2, <1>3, <1>4, <1>5

\* Coherence and the view depend on the geometry, the write policy, the lines
\* and the device alone.
LEMMA SameLines ==
  ASSUME NEW s, NEW t, NEW A, s.c.cfg.sets = t.c.cfg.sets, s.c.cfg.ways = t.c.cfg.ways,
         s.c.cfg.size = t.c.cfg.size, s.c.cfg.write = t.c.cfg.write,
         s.c.line = t.c.line, s.n = t.n
  PROVE  /\ Coherent(s, A) <=> Coherent(t, A)
         /\ SameView(s, t, A)
<1>1. /\ Sets(s.c) = Sets(t.c)
      /\ Ways(s.c) = Ways(t.c)
      /\ \A a : SetOf(s.c, a) = SetOf(t.c, a)
      /\ \A a : Tag(s.c, a) = Tag(t.c, a)
      /\ \A a : Offset(s.c, a) = Offset(t.c, a)
  BY SameSplit
<1>2. \A set, tag : Matching(s.c, set, tag) = Matching(t.c, set, tag)
  BY SameCells
<1>3. Unique(s.c) <=> Unique(t.c)
  BY <1>1, ZenonT(60) DEF Unique
<1>4. DirtyWriteBack(s.c) <=> DirtyWriteBack(t.c)
  BY <1>1, Zenon DEF DirtyWriteBack
<1>5. Clean(s.c, s.n, A) <=> Clean(t.c, t.n, A)
  <2>1. ASSUME NEW a, NEW v
        PROVE  /\ Matching(s.c, SetOf(s.c, a), Tag(s.c, a)) =
                    Matching(t.c, SetOf(t.c, a), Tag(t.c, a))
               /\ s.c.line[SetOf(s.c, a)][v] = t.c.line[SetOf(t.c, a)][v]
               /\ Offset(s.c, a) = Offset(t.c, a)
               /\ Holds(s.n, a) = Holds(t.n, a)
    BY <1>1, <1>2, Zenon
  <2> QED BY <2>1, ZenonT(60) DEF Clean
<1>6. /\ \A a : Resident(s.c, a) <=> Resident(t.c, a)
      /\ \A a : Cell(s.c, a) = Cell(t.c, a)
  BY SameCells
<1> QED BY <1>3, <1>4, <1>5, <1>6 DEF Coherent, SameView, ViewAt

\* The view of an address, told by the way that holds it.
LEMMA ViewOfWay ==
  ASSUME NEW cfg, Geometry(cfg), NEW s \in States(cfg), Unique(s.c),
         NEW a \in Space
  PROVE  /\ \A w \in Matching(s.c, SetOf(s.c, a), Tag(s.c, a)) :
              ViewAt(s, a) = s.c.line[SetOf(s.c, a)][w].data[Offset(s.c, a)]
         /\ Matching(s.c, SetOf(s.c, a), Tag(s.c, a)) = {} => ViewAt(s, a) = Holds(s.n, a)
<1>1. s.c \in Levels(cfg) /\ a \in Nat
  BY StateFacts DEF Space
<1> QED BY <1>1, OneWay DEF ViewAt, Resident

\* Does another way than w of the set hold the address?
HeldElsewhere(c, a, set, w) ==
  \E v \in Matching(c, SetOf(c, a), Tag(c, a)) : SetOf(c, a) # set \/ v # w

\* What is seen at A once line l is in way w of the set.
ViewAfter(s, t, A, set, w, l) ==
  \A a \in A :
    IF l.valid /\ SetOf(s.c, a) = set /\ Tag(s.c, a) = l.tag
    THEN ViewAt(t, a) = l.data[Offset(s.c, a)]
    ELSE IF HeldElsewhere(s.c, a, set, w) THEN ViewAt(t, a) = ViewAt(s, a)
    ELSE ViewAt(t, a) = Holds(t.n, a)

\* A step that puts line l into way w of a set, and may change the device under
\* the blocks no other way holds.
LEMMA ReplaceLine ==
  ASSUME NEW cfg, Geometry(cfg), NEW s \in States(cfg), NEW t \in States(cfg),
         NEW A \in SUBSET Space, Coherent(s, A), Sound(t.n, A), NEW set \in Sets(s.c), NEW w \in Ways(s.c), NEW l \in Lines(cfg),
         t.c.line = [s.c.line EXCEPT ![set][w] = l],
         l.valid => \A v \in Matching(s.c, set, l.tag) : v = w,
         l.dirty => cfg.write = "WriteBack",
         \A a \in A :
           l.valid /\ ~l.dirty /\ SetOf(s.c, a) = set /\ Tag(s.c, a) = l.tag =>
             l.data[Offset(s.c, a)] = Holds(t.n, a),
         \A a \in A : Holds(t.n, a) = Holds(s.n, a) \/ ~HeldElsewhere(s.c, a, set, w)
  PROVE  /\ Coherent(t, A)
         /\ ViewAfter(s, t, A, set, w, l)
<1>1. /\ s.c \in Levels(cfg)
      /\ t.c \in Levels(cfg)
      /\ s.c.cfg = cfg
      /\ t.c.cfg = cfg
  BY StateFacts
<1>2. /\ Sets(s.c) = Sets(t.c)
      /\ Ways(s.c) = Ways(t.c)
      /\ \A a : SetOf(s.c, a) = SetOf(t.c, a)
      /\ \A a : Tag(s.c, a) = Tag(t.c, a)
      /\ \A a : Offset(s.c, a) = Offset(t.c, a)
  BY <1>1, SameSplit
<1>3. ASSUME NEW x \in Sets(s.c), NEW v \in Ways(s.c)
      PROVE  t.c.line[x][v] = IF x = set /\ v = w THEN l ELSE s.c.line[x][v]
  <2>1. s.c.line \in [Sets(s.c) -> [Ways(s.c) -> Lines(cfg)]]
    BY <1>1, LevelFacts
  <2> QED BY <2>1
<1>4. \A a \in A : SetOf(s.c, a) \in Sets(s.c)
  BY <1>1, AddressTypes DEF Space
<1>5. ASSUME NEW a \in A, NEW v
      PROVE  v \in Matching(t.c, SetOf(t.c, a), Tag(t.c, a)) <=>
               IF SetOf(s.c, a) = set /\ v = w
               THEN l.valid /\ Tag(s.c, a) = l.tag
               ELSE v \in Matching(s.c, SetOf(s.c, a), Tag(s.c, a))
  BY <1>2, <1>3, <1>4 DEF Matching
<1>6. Unique(t.c)
  <2> SUFFICES ASSUME NEW x \in Sets(t.c), NEW v \in Ways(t.c), NEW u \in Ways(t.c),
                      t.c.line[x][v].valid, t.c.line[x][u].valid,
                      t.c.line[x][v].tag = t.c.line[x][u].tag
               PROVE  v = u
    BY DEF Unique
  <2>0. x \in Sets(s.c) /\ v \in Ways(s.c) /\ u \in Ways(s.c)
    BY <1>2, Zenon
  <2>1. /\ t.c.line[x][v] = IF x = set /\ v = w THEN l ELSE s.c.line[x][v]
        /\ t.c.line[x][u] = IF x = set /\ u = w THEN l ELSE s.c.line[x][u]
    BY <1>3, <2>0, Zenon
  <2>2. CASE x = set /\ v = w
    BY <1>2, <2>1, <2>2 DEF Matching
  <2>3. CASE x = set /\ u = w
    BY <1>2, <2>1, <2>3, SMTT(60) DEF Matching
  <2>4. CASE ~(x = set /\ v = w) /\ ~(x = set /\ u = w)
    BY <1>2, <2>1, <2>4 DEF Coherent, Unique
  <2> QED BY <2>2, <2>3, <2>4, Zenon
<1>7. DirtyWriteBack(t.c)
  <2> SUFFICES ASSUME NEW x \in Sets(t.c), NEW v \in Ways(t.c), t.c.line[x][v].dirty
               PROVE  cfg.write = "WriteBack"
    BY <1>1 DEF DirtyWriteBack
  <2>1. t.c.line[x][v] = IF x = set /\ v = w THEN l ELSE s.c.line[x][v]
    BY <1>2, <1>3
  <2> QED BY <1>1, <1>2, <2>1 DEF Coherent, DirtyWriteBack
<1>8. ASSUME NEW a \in A, NEW v \in Matching(t.c, SetOf(t.c, a), Tag(t.c, a)),
             ~t.c.line[SetOf(t.c, a)][v].dirty
      PROVE  t.c.line[SetOf(t.c, a)][v].data[Offset(t.c, a)] = Holds(t.n, a)
  <2> DEFINE x == SetOf(s.c, a)
  <2>1. x \in Sets(s.c) /\ v \in Ways(s.c)
    BY <1>2, <1>4 DEF Matching
  <2>2. t.c.line[x][v] = IF x = set /\ v = w THEN l ELSE s.c.line[x][v]
    BY <1>3, <2>1
  <2>3. CASE x = set /\ v = w
    BY <1>2, <1>5, <1>8, <2>2, <2>3
  <2>4. CASE ~(x = set /\ v = w)
    <3>1. v \in Matching(s.c, x, Tag(s.c, a))
      BY <1>5, <2>4
    <3>2. ~s.c.line[x][v].dirty
      BY <1>2, <1>8, <2>2, <2>4
    <3>3. s.c.line[x][v].data[Offset(s.c, a)] = Holds(s.n, a)
      BY <3>1, <3>2 DEF Coherent, Clean
    <3>4. Holds(t.n, a) = Holds(s.n, a)
      BY <2>4, <3>1, SMTT(60) DEF HeldElsewhere
    <3> QED BY <1>2, <2>2, <2>4, <3>3, <3>4
  <2> QED BY <2>3, <2>4
<1>9. Coherent(t, A)
  BY <1>6, <1>7, <1>8 DEF Coherent, Clean
<1>10. ASSUME NEW a \in A
       PROVE  IF l.valid /\ SetOf(s.c, a) = set /\ Tag(s.c, a) = l.tag
              THEN ViewAt(t, a) = l.data[Offset(s.c, a)]
              ELSE IF HeldElsewhere(s.c, a, set, w) THEN ViewAt(t, a) = ViewAt(s, a)
              ELSE ViewAt(t, a) = Holds(t.n, a)
  <2> DEFINE x == SetOf(s.c, a)
             M == Matching(s.c, x, Tag(s.c, a))
             N == Matching(t.c, SetOf(t.c, a), Tag(t.c, a))
  <2>0. a \in Space
    OBVIOUS
  <2>1. \A v \in N : ViewAt(t, a) = t.c.line[x][v].data[Offset(s.c, a)]
    <3>1. \A v \in N :
             ViewAt(t, a) = t.c.line[SetOf(t.c, a)][v].data[Offset(t.c, a)]
      BY <1>6, <2>0, ViewOfWay, Zenon
    <3>2. SetOf(t.c, a) = x /\ Offset(t.c, a) = Offset(s.c, a)
      BY <1>2
    <3> QED BY <3>1, <3>2, Zenon
  <2>2. N = {} => ViewAt(t, a) = Holds(t.n, a)
    BY <1>6, ViewOfWay
  <2>3. \A v \in M : ViewAt(s, a) = s.c.line[x][v].data[Offset(s.c, a)]
    BY ViewOfWay DEF Coherent
  <2>4. CASE l.valid /\ x = set /\ Tag(s.c, a) = l.tag
    <3>1. w \in N
      BY <1>5, <2>4
    <3>2. t.c.line[x][w] = l
      BY <1>3, <2>4
    <3> QED BY <2>1, <2>4, <3>1, <3>2
  <2>5. CASE ~(l.valid /\ x = set /\ Tag(s.c, a) = l.tag) /\ HeldElsewhere(s.c, a, set, w)
    <3>1. PICK v \in M : x # set \/ v # w
      BY <2>5, SMTT(60) DEF HeldElsewhere
    <3>2. v \in N /\ v \in Ways(s.c)
      BY <1>5, <3>1 DEF Matching
    <3>3. t.c.line[x][v] = s.c.line[x][v]
      BY <1>3, <1>4, <3>1, <3>2
    <3>4. /\ ViewAt(t, a) = t.c.line[x][v].data[Offset(s.c, a)]
          /\ ViewAt(s, a) = s.c.line[x][v].data[Offset(s.c, a)]
      BY <2>1, <2>3, <3>1, <3>2, Zenon
    <3>5. ViewAt(t, a) = ViewAt(s, a)
      BY <3>3, <3>4, Zenon
    <3> QED BY <2>5, <3>5, Zenon
  <2>6. CASE /\ ~(l.valid /\ x = set /\ Tag(s.c, a) = l.tag)
             /\ ~HeldElsewhere(s.c, a, set, w)
    <3>1. N = {}
      BY <1>5, <2>6 DEF HeldElsewhere
    <3> QED BY <2>2, <2>6, <3>1
  <2> QED BY <2>4, <2>5, <2>6
<1> QED BY <1>9, <1>10 DEF ViewAfter

-----------------------------------------------------------------------------
(* Stretches within a line. *)

Within(c, a, len) == \A i \in 0 .. len - 1 : Block(c, a + i) = Block(c, a)

\* What lies within a line of the level lies within one of the device.
LEMMA WithinChunk ==
  ASSUME Device, NEW cfg, Geometry(cfg), NEW c \in Levels(cfg), NEW n \in Devs(cfg.size),
         NEW a \in Nat, NEW len \in Nat \ {0}, Within(c, a, len), a + len <= Extent
  PROVE  Chunk(n, a, len)
<1> DEFINE g == Grain(n)
<1>1. /\ cfg.size \in Nat \ {0} /\ c.cfg = cfg
      /\ g \in Nat \ {0} /\ g % cfg.size = 0
  BY GeometryFacts, LevelFacts, DeviceLawful DEF Devs
<1> HIDE DEF g
<1>2. ASSUME NEW i \in 0 .. len - 1
      PROVE  (a + i) \div g = a \div g
  <2> DEFINE x == a + i
  <2>1. x \in Nat
    OBVIOUS
  <2>2. Block(c, x) = Block(c, a)
    BY DEF Within
  <2> HIDE DEF x
  <2>3. SameBlock(x, a, cfg.size)
    BY <1>1, <2>2 DEF Block, SameBlock
  <2>4. SameBlock(x, a, g)
    BY <1>1, <2>1, <2>3, LargerBlock, Zenon
  <2> QED BY <2>4 DEF x, SameBlock
<1> QED BY <1>2 DEF Chunk, g

\* So a line of the level is a chunk of the device.
LEMMA LineIsChunk ==
  ASSUME Device, NEW cfg, Geometry(cfg), NEW c \in Levels(cfg), NEW n \in Devs(cfg.size),
         NEW set \in Sets(c), NEW tag \in Nat, LineStart(c, set, tag) + cfg.size <= Extent
  PROVE  Chunk(n, LineStart(c, set, tag), cfg.size)
<1> DEFINE m == cfg.size
           p == tag * cfg.sets + set
           a == m * p
<1>1. m \in Nat \ {0} /\ cfg.sets \in Nat \ {0} /\ c.cfg = cfg /\ set \in Nat
  BY GeometryFacts, LevelFacts
<1>2. p \in Nat
  BY <1>1
<1>3. LineStart(c, set, tag) = p * m
  BY <1>1 DEF LineStart
<1> HIDE DEF p, m
<1>4. LineStart(c, set, tag) = a /\ a \in Nat
  BY <1>1, <1>2, <1>3
<1>5. ASSUME NEW i \in 0 .. m - 1
      PROVE  (a + i) \div m = p
  BY <1>1, <1>2, DivModUnique
<1>6. 0 \in 0 .. m - 1 /\ a + 0 = a
  BY <1>1, <1>4
<1>7. a \div m = p
  BY <1>5, <1>6
<1>8. Within(c, a, m)
  BY <1>1, <1>5, <1>7 DEF Within, Block, m
<1>9. a + m <= Extent
  BY <1>4 DEF m
<1> HIDE DEF a
<1> QED BY <1>1, <1>4, <1>8, <1>9, WithinChunk DEF m

\* From n to m the device has the data of one of the level's lines over it.
LineOver(c, n, m, set, tag, data, b) ==
  Holds(m, b) =
    IF SetOf(c, b) = set /\ Tag(c, b) = tag THEN data[Offset(c, b)] ELSE Holds(n, b)

\* A line of the device's data, by the addresses it holds.
LEMMA PutsLine ==
  ASSUME Device, NEW cfg, Geometry(cfg), NEW c \in Levels(cfg),
         NEW set \in Sets(c), NEW tag \in Nat, NEW data, NEW A \in SUBSET Space,
         NEW n, NEW m, Puts(n, m, A, LineStart(c, set, tag), cfg.size, data), NEW b \in A
  PROVE  LineOver(c, n, m, set, tag, data, b)
<1>1. b \in Nat
  BY DEF Space
<1>2. Holds(m, b) = IF b - LineStart(c, set, tag) \in 0 .. cfg.size - 1
                    THEN data[b - LineStart(c, set, tag)] ELSE Holds(n, b)
  BY DEF Puts
<1> QED BY <1>1, <1>2, CellsOfLine DEF LineOver

-----------------------------------------------------------------------------
(* The steps of a miss. *)

Cleaned(l) == [l EXCEPT !.dirty = FALSE]

\* The device with line l of the set written to it.
Written(s, set, l) == NextWriteLine(s.n, LineStart(s.c, set, l.tag), l.data)

WroteBack(cfg, s, t, set, w, k) ==
  /\ Obeys(s.n, Written(s, set, k), LineStart(s.c, set, k.tag), cfg.size, k.data)
  /\ t \in States(cfg)
  /\ t.n = Written(s, set, k)
  /\ t.c.line = [s.c.line EXCEPT ![set][w] = Cleaned(k)]

\* What a write-back leaves: the line clean, and the device with its data.
LEMMA WriteBackIs ==
  ASSUME Device, NEW cfg, Geometry(cfg), NEW s \in States(cfg),
         NEW set \in Sets(s.c), NEW w \in Ways(s.c),
         NEW k, k = s.c.line[set][w], k.valid, k.dirty, NEW t, t = WriteBack(s, set, w)
  PROVE  WroteBack(cfg, s, t, set, w, k)
<1> DEFINE l == Cleaned(k)
           start == LineStart(s.c, set, k.tag)
           below == Written(s, set, k)
<1>1. /\ s.c \in Levels(cfg)
      /\ s.n \in Devs(cfg.size)
      /\ s.n \in Dev
      /\ s.c.cfg = cfg
      /\ s.c.line \in [Sets(s.c) -> [Ways(s.c) -> Lines(cfg)]]
  BY StateFacts, LevelFacts DEF States
<1>2. k \in Lines(cfg) /\ k.tag \in Nat /\ k.data \in Cells(cfg.size) /\ k.valid /\ k.dirty
  BY <1>1 DEF Lines, Cells
<1>3. Inside(cfg, set, k)
  BY <1>1, LineInside
<1>4. Obeys(s.n, below, start, cfg.size, k.data)
  <2>1. start + cfg.size <= Extent
    BY <1>1, <1>2, <1>3 DEF Inside, LineStart
  <2>2. Chunk(s.n, start, cfg.size)
    BY <1>1, <1>2, <2>1, LineIsChunk
  <2> QED BY <1>1, <1>2, <2>2, DeviceObeysLine DEF Written
<1>5. below \in Devs(cfg.size)
  <2> HIDE DEF below
  <2> QED BY <1>1, <1>4 DEF Obeys, Devs
<1>6. t = [s EXCEPT !.n = below, !.c.line[set][w].dirty = FALSE]
  <2>1. NextOk(below)
    BY <1>5, DeviceLawful DEF Devs
  <2> QED BY <1>2, <2>1 DEF WriteBack, Written
<1>7. l \in Lines(cfg) /\ Inside(cfg, set, l)
  BY <1>2, <1>3 DEF Lines, Inside, Cleaned
<1> DEFINE u == [s EXCEPT !.c.line[set][w] = l]
<1>8. t = [u EXCEPT !.n = below]
  <2> HIDE DEF below
  <2> QED BY <1>1, <1>6 DEF States, Levels, Cleaned
<1>9. u \in States(cfg) /\ u.c.line = [s.c.line EXCEPT ![set][w] = l]
  <2>1. LineReplaced(cfg, s, u, set, w, l)
    BY <1>7, LineUpdateType, Zenon
  <2> QED BY <2>1, Zenon DEF LineReplaced
<1>10. t \in States(cfg) /\ t.n = below /\ t.c.line = u.c.line
  <2> HIDE DEF u, below
  <2> QED BY <1>5, <1>8, <1>9 DEF States
<1> HIDE DEF u
<1> QED BY <1>4, <1>9, <1>10 DEF WroteBack

\* Writing a dirty line back changes neither coherence nor the view.
LEMMA WriteBackCoherent ==
  ASSUME Device, NEW cfg, Geometry(cfg), NEW s \in States(cfg), NEW A \in SUBSET Space,
         Coherent(s, A), NEW set \in Sets(s.c), NEW w \in Ways(s.c)
  PROVE  LET t == WriteBack(s, set, w)
         IN  /\ t \in States(cfg)
             /\ Grain(t.n) = Grain(s.n)
             /\ Coherent(t, A)
             /\ SameView(s, t, A)
             /\ Passed(s, t, A)
             /\ t.c.line[set][w].valid => ~t.c.line[set][w].dirty
             /\ \A x \in Sets(s.c) : \A tag :
                   Matching(t.c, x, tag) = Matching(s.c, x, tag)
<1> DEFINE k == s.c.line[set][w]
           l == Cleaned(k)
           below == Written(s, set, k)
           t == WriteBack(s, set, w)
<1>1. /\ s.c \in Levels(cfg)
      /\ s.c.cfg = cfg
      /\ s.c.line \in [Sets(s.c) -> [Ways(s.c) -> Lines(cfg)]]
  BY StateFacts, LevelFacts
<1>2. k \in Lines(cfg) /\ k.tag \in Nat /\ k.data \in [0 .. cfg.size - 1 -> Values]
  BY <1>1 DEF Lines
<1>3. CASE ~(k.valid /\ k.dirty)
  <2>1. WriteBack(s, set, w) = s
    BY <1>3, Zenon DEF WriteBack
  <2> QED BY <1>3, <2>1 DEF SameView, Passed
<1>4. CASE k.valid /\ k.dirty
  <2>1. /\ Obeys(s.n, below, LineStart(s.c, set, k.tag), cfg.size, k.data)
        /\ t \in States(cfg)
        /\ t.n = below
        /\ t.c.line = [s.c.line EXCEPT ![set][w] = l]
    <3>1. WroteBack(cfg, s, t, set, w, k)
      BY <1>4, WriteBackIs, Zenon
    <3> QED BY <3>1, Zenon DEF WroteBack
  <2>2. /\ Grain(t.n) = Grain(s.n)
        /\ Puts(s.n, t.n, A, LineStart(s.c, set, k.tag), cfg.size, k.data)
    <3> HIDE DEF t, below, k
    <3> QED BY <2>1 DEF Obeys, Coherent
  <2>3. Sound(t.n, A)
    BY <2>2 DEF Puts
  <2>4. l \in Lines(cfg) /\ l.valid /\ ~l.dirty /\ l.tag = k.tag /\ l.data = k.data
    <3> HIDE DEF k
    <3> QED BY <1>2, <1>4 DEF Lines, Cleaned
  <2>5. \A v \in Matching(s.c, set, l.tag) : v = w
    <3> SUFFICES ASSUME NEW v \in Matching(s.c, set, l.tag)
                 PROVE  v = w
      OBVIOUS
    <3>1. v \in Ways(s.c) /\ s.c.line[set][v].valid /\ s.c.line[set][v].tag = l.tag
      BY Zenon DEF Matching
    <3>2. Unique(s.c) /\ k.valid /\ l.tag = k.tag
      BY <1>4, <2>4, Zenon DEF Coherent
    <3> QED BY <3>1, <3>2, ZenonT(30) DEF Unique
  <2> HIDE DEF l, t, k, below
  <2>6. ASSUME NEW a \in A
        PROVE  Holds(t.n, a) = IF SetOf(s.c, a) = set /\ Tag(s.c, a) = l.tag
                               THEN l.data[Offset(s.c, a)] ELSE Holds(s.n, a)
    <3>1. k.tag \in Nat
      BY <1>2
    <3>2. LineOver(s.c, s.n, t.n, set, k.tag, k.data, a)
      BY <1>1, <3>1, <2>2, PutsLine, Zenon
    <3> QED BY <2>4, <3>2 DEF LineOver
  <2>7. \A a \in A : Holds(t.n, a) = Holds(s.n, a) \/ ~HeldElsewhere(s.c, a, set, w)
    BY <2>5, <2>6 DEF HeldElsewhere
  <2>8. \A a \in A :
           l.valid /\ ~l.dirty /\ SetOf(s.c, a) = set /\ Tag(s.c, a) = l.tag =>
             l.data[Offset(s.c, a)] = Holds(t.n, a)
    BY <2>6
  <2>9. Coherent(t, A) /\ ViewAfter(s, t, A, set, w, l)
    BY <2>1, <2>3, <2>4, <2>5, <2>7, <2>8, ReplaceLine
  <2>10. ASSUME NEW a \in A
         PROVE  ViewAt(t, a) = ViewAt(s, a)
    <3> DEFINE M == Matching(s.c, SetOf(s.c, a), Tag(s.c, a))
    <3>1. /\ \A v \in M : ViewAt(s, a) = s.c.line[SetOf(s.c, a)][v].data[Offset(s.c, a)]
          /\ M = {} => ViewAt(s, a) = Holds(s.n, a)
      BY ViewOfWay DEF Coherent
    <3>2. CASE SetOf(s.c, a) = set /\ Tag(s.c, a) = l.tag
      <4>1. w \in M
        BY <1>4, <2>4, <3>2 DEF Matching, k
      <4> QED BY <2>4, <2>9, <3>1, <3>2, <4>1 DEF k, ViewAfter
    <3>3. CASE ~(SetOf(s.c, a) = set /\ Tag(s.c, a) = l.tag) /\ HeldElsewhere(s.c, a, set, w)
      BY <2>9, <3>3 DEF ViewAfter
    <3>4. CASE ~(SetOf(s.c, a) = set /\ Tag(s.c, a) = l.tag) /\ ~HeldElsewhere(s.c, a, set, w)
      <4>1. M = {}
        BY <2>4, <3>4 DEF HeldElsewhere, Matching, k
      <4>2. ViewAt(t, a) = Holds(t.n, a) /\ Holds(t.n, a) = Holds(s.n, a)
        BY <2>6, <2>9, <3>4 DEF ViewAfter
      <4> QED BY <3>1, <4>1, <4>2
    <3> QED BY <3>2, <3>3, <3>4
  <2>11. t.c.line[set][w] = l
    BY <1>1, <2>1
  <2>12. ASSUME NEW x \in Sets(s.c), NEW tag
         PROVE  Matching(t.c, x, tag) = Matching(s.c, x, tag)
    <3>1. Ways(t.c) = Ways(s.c)
      BY <1>1, <2>1, StateFacts DEF Ways
    <3>2. \A v \in Ways(s.c) : /\ t.c.line[x][v].valid <=> s.c.line[x][v].valid
                               /\ t.c.line[x][v].tag = s.c.line[x][v].tag
      BY <1>1, <1>4, <2>1, <2>4, SMTT(30) DEF k
    <3> QED BY <3>1, <3>2, SMTT(30) DEF Matching
  <2>13. ASSUME NEW a \in A
         PROVE  Holds(t.n, a) = Holds(s.n, a) \/ Holds(t.n, a) = ViewAt(s, a)
    <3>1. CASE SetOf(s.c, a) = set /\ Tag(s.c, a) = l.tag
      <4>1. ViewAt(t, a) = l.data[Offset(s.c, a)]
        BY <2>4, <2>9, <3>1 DEF ViewAfter
      <4> QED BY <2>6, <2>10, <3>1, <4>1
    <3>2. CASE ~(SetOf(s.c, a) = set /\ Tag(s.c, a) = l.tag)
      BY <2>6, <3>2
    <3> QED BY <3>1, <3>2
  <2>14. Passed(s, t, A)
    BY <2>13 DEF Passed
  <2> QED BY <2>1, <2>2, <2>4, <2>9, <2>10, <2>11, <2>12, <2>14 DEF SameView, t
<1> QED BY <1>3, <1>4


\* From s to t nothing changes that can be seen at A.
Harmless(cfg, s, t, A) ==
  /\ t \in States(cfg)
  /\ Grain(t.n) = Grain(s.n)
  /\ Coherent(t, A)
  /\ SameView(s, t, A)
  /\ Passed(s, t, A)

\* Two such steps are one.
LEMMA HarmlessTransitive ==
  ASSUME NEW cfg, NEW s, NEW t, NEW u, NEW A, Harmless(cfg, s, t, A), Harmless(cfg, t, u, A)
  PROVE  Harmless(cfg, s, u, A)
BY DEF Harmless, SameView, Passed

\* Nor does nothing change anything.
LEMMA HarmlessIdle ==
  ASSUME NEW cfg, NEW s \in States(cfg), NEW A, Coherent(s, A)
  PROVE  Harmless(cfg, s, s, A)
BY DEF Harmless, SameView, Passed

\* The lines of t that hold a block held it in s.
Fewer(s, t) ==
  \A x \in Sets(s.c) : \A tag : Matching(t.c, x, tag) \subseteq Matching(s.c, x, tag)

\* A clean line can be invalidated.
LEMMA InvalidateCoherent ==
  ASSUME NEW cfg, Geometry(cfg), NEW s \in States(cfg), NEW A \in SUBSET Space,
         Coherent(s, A), NEW set \in Sets(s.c), NEW w \in Ways(s.c),
         ~s.c.line[set][w].dirty, NEW t, t = [s EXCEPT !.c.line[set][w].valid = FALSE]
  PROVE  /\ Harmless(cfg, s, t, A)
         /\ ~t.c.line[set][w].valid
         /\ Fewer(s, t)
<1> DEFINE k == s.c.line[set][w]
           l == [k EXCEPT !.valid = FALSE]
<1>1. /\ s.c \in Levels(cfg)
      /\ s.c.cfg = cfg
      /\ s.c.line \in [Sets(s.c) -> [Ways(s.c) -> Lines(cfg)]]
  BY StateFacts, LevelFacts
<1>2. k \in Lines(cfg)
  BY <1>1
<1>3. l \in Lines(cfg) /\ ~l.valid /\ ~l.dirty /\ Inside(cfg, set, l)
  <2> HIDE DEF k
  <2>1. ~k.dirty
    BY DEF k
  <2> QED BY <1>2, <2>1 DEF Lines, Inside
<1>4. t = [s EXCEPT !.c.line[set][w] = l]
  BY <1>1 DEF States, Levels
<1>5. t \in States(cfg) /\ t.n = s.n /\ t.c.line = [s.c.line EXCEPT ![set][w] = l]
  <2>1. LineReplaced(cfg, s, t, set, w, l)
    BY <1>3, <1>4, LineUpdateType, Zenon
  <2> QED BY <2>1, Zenon DEF LineReplaced
<1>6. t.c \in Levels(cfg) /\ t.c.cfg = cfg
  BY <1>5, StateFacts
<1> HIDE DEF l, k
<1>7. Sound(t.n, A) /\ \A a \in A : Holds(t.n, a) = Holds(s.n, a)
  BY <1>5 DEF Coherent
<1>8. /\ Coherent(t, A)
      /\ \A a \in A :
           IF HeldElsewhere(s.c, a, set, w) THEN ViewAt(t, a) = ViewAt(s, a)
           ELSE ViewAt(t, a) = Holds(t.n, a)
  <2>1. /\ l.valid => \A v \in Matching(s.c, set, l.tag) : v = w
        /\ l.dirty => cfg.write = "WriteBack"
        /\ \A a \in A :
             l.valid /\ ~l.dirty /\ SetOf(s.c, a) = set /\ Tag(s.c, a) = l.tag =>
               l.data[Offset(s.c, a)] = Holds(t.n, a)
        /\ \A a \in A : Holds(t.n, a) = Holds(s.n, a) \/ ~HeldElsewhere(s.c, a, set, w)
    BY <1>3, <1>7
  <2>2. Coherent(t, A) /\ ViewAfter(s, t, A, set, w, l)
    BY <1>3, <1>5, <1>7, <2>1, ReplaceLine
  <2> QED BY <1>3, <2>2 DEF ViewAfter
<1>9. ASSUME NEW a \in A
      PROVE  ViewAt(t, a) = ViewAt(s, a)
  <2> DEFINE M == Matching(s.c, SetOf(s.c, a), Tag(s.c, a))
  <2>1. /\ \A v \in M : ViewAt(s, a) = s.c.line[SetOf(s.c, a)][v].data[Offset(s.c, a)]
        /\ M = {} => ViewAt(s, a) = Holds(s.n, a)
    BY ViewOfWay DEF Coherent
  <2>2. CASE HeldElsewhere(s.c, a, set, w)
    BY <1>8, <2>2
  <2>3. CASE ~HeldElsewhere(s.c, a, set, w)
    <3>1. ViewAt(t, a) = Holds(s.n, a)
      BY <1>7, <1>8, <2>3
    <3>2. \A v \in M : SetOf(s.c, a) = set /\ v = w
      BY <2>3 DEF HeldElsewhere
    <3>3. w \in M /\ SetOf(s.c, a) = set =>
            s.c.line[set][w].data[Offset(s.c, a)] = Holds(s.n, a)
      BY DEF Coherent, Clean
    <3> QED BY <2>1, <3>1, <3>2, <3>3
  <2> QED BY <2>2, <2>3
<1>10. t.c.line[set][w] = l
  BY <1>1, <1>5
<1>11. ASSUME NEW x \in Sets(s.c), NEW tag
       PROVE  Matching(t.c, x, tag) \subseteq Matching(s.c, x, tag)
  <2>1. Ways(t.c) = Ways(s.c)
    BY <1>1, <1>6 DEF Ways
  <2>2. \A v \in Ways(s.c) : t.c.line[x][v].valid =>
           s.c.line[x][v].valid /\ t.c.line[x][v].tag = s.c.line[x][v].tag
    <3> SUFFICES ASSUME NEW v \in Ways(s.c), t.c.line[x][v].valid
                 PROVE  s.c.line[x][v].valid /\ t.c.line[x][v].tag = s.c.line[x][v].tag
      OBVIOUS
    <3> HIDE DEF l
    <3>1. t.c.line[x][v] = IF x = set /\ v = w THEN l ELSE s.c.line[x][v]
      BY <1>1, <1>5
    <3>2. t.c.line[x][v] = s.c.line[x][v]
      BY <1>3, <3>1, Zenon
    <3> QED BY <3>2, Zenon
  <2> QED BY <2>1, <2>2, ZenonT(30) DEF Matching
<1>12. Passed(s, t, A)
  BY <1>7 DEF Passed
<1> QED BY <1>3, <1>5, <1>8, <1>9, <1>10, <1>11, <1>12 DEF SameView, Harmless, Fewer

\* A set has an oldest way.
LEMMA OldestExists ==
  ASSUME NEW n \in Nat \ {0}, NEW order \in [0 .. n - 1 -> 0 .. n - 1]
  PROVE  Oldest(order, n) \in 0 .. n - 1
<1> DEFINE W == 0 .. n - 1
           S == {order[v] : v \in W}
<1>1. S \in SUBSET Nat /\ S # {}
  <2>1. 0 \in W
    OBVIOUS
  <2> QED BY <2>1
<1>2. Least(S) \in S /\ \A y \in S : Least(S) <= y
  BY <1>1, LeastIsLeast
<1>3. PICK w \in W : order[w] = Least(S)
  BY <1>2
<1>4. \A v \in W : order[w] <= order[v]
  BY <1>2, <1>3
<1> HIDE DEF W
<1> QED BY <1>3, <1>4 DEF Oldest, W

\* The way a miss takes is one of the set, and an invalid one when there is one.
LEMMA EvictWayIs ==
  ASSUME NEW cfg, Geometry(cfg), NEW s \in States(cfg), NEW set \in Sets(s.c)
  PROVE  /\ EvictWay(s, set) \in Ways(s.c)
         /\ Free(s.c, set) # {} => ~s.c.line[set][EvictWay(s, set)].valid
<1>1. /\ s.c \in Levels(cfg)
      /\ s.c.cfg = cfg
      /\ Ways(s.c) = 0 .. cfg.ways - 1
      /\ s.c.recency \in [Sets(s.c) -> [Ways(s.c) -> Ways(s.c)]]
      /\ s.c.arrival \in [Sets(s.c) -> [Ways(s.c) -> Ways(s.c)]]
  BY StateFacts, LevelFacts
<1>2. cfg.ways \in Nat \ {0} /\ cfg.repl \in {"LRU", "FIFO"}
  BY GeometryFacts
<1>3. CASE Free(s.c, set) # {}
  <2>1. Free(s.c, set) \in SUBSET Nat
    BY <1>1, <1>2 DEF Free
  <2>2. Least(Free(s.c, set)) \in Free(s.c, set)
    BY <1>3, <2>1, LeastIsLeast
  <2> QED BY <1>3, <2>2 DEF EvictWay, Free
<1>4. CASE Free(s.c, set) = {}
  <2>1. /\ Oldest(s.c.recency[set], cfg.ways) \in 0 .. cfg.ways - 1
        /\ Oldest(s.c.arrival[set], cfg.ways) \in 0 .. cfg.ways - 1
    BY <1>1, <1>2, OldestExists
  <2>2. Victim(s, set) \in Ways(s.c)
    BY <1>1, <1>2, <2>1 DEF Victim
  <2> QED BY <1>4, <2>2 DEF EvictWay
<1> QED BY <1>3, <1>4

\* Eviction loses nothing and makes room.
LEMMA EvictCoherent ==
  ASSUME Device, NEW cfg, Geometry(cfg), NEW s \in States(cfg), NEW A \in SUBSET Space,
         Coherent(s, A), NEW set \in Sets(s.c), NEW t, t = Evict(s, set)
  PROVE  /\ Harmless(cfg, s, t, A)
         /\ ~t.c.line[set][EvictWay(s, set)].valid
         /\ Fewer(s, t)
<1> DEFINE w == EvictWay(s, set)
           u == WriteBack(s, set, w)
           s1 == IF s.c.cfg.write = "WriteBack" THEN u ELSE s
<1>1. s.c \in Levels(cfg) /\ s.c.cfg = cfg
  BY StateFacts
<1>2. w \in Ways(s.c) /\ (Free(s.c, set) # {} => ~s.c.line[set][w].valid)
  BY EvictWayIs
<1> HIDE DEF w
<1>3. /\ Harmless(cfg, s, s1, A)
      /\ s1.c.line[set][w].valid => ~s1.c.line[set][w].dirty
      /\ \A x \in Sets(s.c) : \A tag : Matching(s1.c, x, tag) = Matching(s.c, x, tag)
  <2>1. CASE cfg.write = "WriteBack"
    <3>1. /\ u \in States(cfg)
          /\ Grain(u.n) = Grain(s.n)
          /\ Coherent(u, A)
          /\ SameView(s, u, A)
          /\ Passed(s, u, A)
          /\ u.c.line[set][w].valid => ~u.c.line[set][w].dirty
          /\ \A x \in Sets(s.c) : \A tag : Matching(u.c, x, tag) = Matching(s.c, x, tag)
      BY <1>2, WriteBackCoherent, Zenon
    <3> HIDE DEF u
    <3> QED BY <1>1, <2>1, <3>1 DEF Harmless
  <2>2. CASE cfg.write # "WriteBack"
    <3>1. s1 = s
      BY <1>1, <2>2
    <3>2. ~s.c.line[set][w].dirty
      BY <1>1, <1>2, <2>2 DEF Coherent, DirtyWriteBack
    <3> HIDE DEF s1
    <3> QED BY <3>1, <3>2, HarmlessIdle
  <2> QED BY <2>1, <2>2
<1>4. s1 \in States(cfg) /\ Coherent(s1, A) /\ Ok(s1)
  <2> HIDE DEF s1
  <2> QED BY <1>3, StateOk DEF Harmless
<1>5. s1.c \in Levels(cfg) /\ Sets(s1.c) = Sets(s.c) /\ Ways(s1.c) = Ways(s.c)
  <2> HIDE DEF s1
  <2> QED BY <1>1, <1>4, StateFacts, LevelFacts
<1>6. t = IF Free(s.c, set) # {} THEN s1 ELSE [s1 EXCEPT !.c.line[set][w].valid = FALSE]
  BY <1>2, <1>4, Zenon DEF Evict, w
<1>7. CASE Free(s.c, set) # {}
  <2>1. ~s.c.line[set][w].valid
    BY <1>2, <1>7
  <2>2. u = s
    BY <2>1, Zenon DEF WriteBack
  <2>3. s1 = s
    <3> HIDE DEF u
    <3> QED BY <2>2
  <2> HIDE DEF s1
  <2> QED BY <1>3, <1>6, <1>7, <2>1, <2>3 DEF w, Fewer
<1>8. CASE Free(s.c, set) = {}
  <2> HIDE DEF s1
  <2>1. s.c.line[set][w].valid
    BY <1>2, <1>8 DEF Free
  <2>2. w \in Matching(s.c, set, s.c.line[set][w].tag)
    BY <1>2, <2>1 DEF Matching
  <2>3. ~s1.c.line[set][w].dirty
    BY <1>3, <2>2 DEF Matching
  <2>4. t = [s1 EXCEPT !.c.line[set][w].valid = FALSE]
    BY <1>6, <1>8
  <2>5. Harmless(cfg, s1, t, A) /\ ~t.c.line[set][w].valid /\ Fewer(s1, t)
    BY <1>2, <1>4, <1>5, <2>3, <2>4, InvalidateCoherent
  <2>6. Harmless(cfg, s, t, A)
    BY <1>3, <2>5, HarmlessTransitive
  <2> QED BY <1>3, <1>5, <2>5, <2>6 DEF w, Fewer
<1> QED BY <1>7, <1>8

\* A step of the device alone that keeps what it holds cannot be seen.
LEMMA DeviceKept ==
  ASSUME NEW cfg, Geometry(cfg), NEW s \in States(cfg), NEW A \in SUBSET Space,
         Coherent(s, A), NEW n \in Dev, Grain(n) = Grain(s.n), Keeps(s.n, n, A),
         NEW t, t = [s EXCEPT !.n = n]
  PROVE  Harmless(cfg, s, t, A) /\ t.c = s.c /\ t.n = n
<1>1. t.c = s.c /\ t.n = n
  BY DEF States
<1>2. t \in States(cfg)
  BY DEF States, Devs
<1>3. Sound(n, A) /\ \A a \in A : Holds(n, a) = Holds(s.n, a)
  BY DEF Keeps
<1>4. Clean(s.c, n, A)
  BY <1>3 DEF Coherent, Clean
<1>5. Coherent(t, A)
  BY <1>1, <1>3, <1>4 DEF Coherent
<1>6. SameView(s, t, A)
  BY <1>1, <1>3 DEF SameView, ViewAt
<1>7. Passed(s, t, A)
  BY <1>1, <1>3 DEF Passed
<1> QED BY <1>1, <1>2, <1>5, <1>6, <1>7 DEF Harmless

\* What the device answers for the line of a, and the line that makes of it.
Fetched(s, a) == NextReadLine(s.n, Aligned(s.c, a), s.c.cfg.size)

FetchedLine(s, a) ==
  [valid |-> TRUE, dirty |-> FALSE, tag |-> Tag(s.c, a), data |-> Fetched(s, a).data]

\* Line l in way w of the set, which becomes the newest in both orders.
WithLine(c, set, w, l) ==
  [c EXCEPT
     !.line    = [c.line EXCEPT ![set][w] = l],
     !.recency = [c.recency EXCEPT ![set] = Newest(c.recency[set], w, c.cfg.ways)],
     !.arrival = [c.arrival EXCEPT ![set] = Newest(c.arrival[set], w, c.cfg.ways)]]

\* The record of BringIn, of any answer.
Brought(s, a, w, n, data) ==
  [s EXCEPT !.n = n,
            !.c.line[SetOf(s.c, a)][w] = [valid |-> TRUE, dirty |-> FALSE,
                                          tag |-> Tag(s.c, a), data |-> data],
            !.c.recency[SetOf(s.c, a)] = Newest(@, w, s.c.cfg.ways),
            !.c.arrival[SetOf(s.c, a)] = Newest(@, w, s.c.cfg.ways)]

BroughtLine(s, a, w, n, data, l) ==
  Brought(s, a, w, n, data) = [s EXCEPT !.n = n, !.c = WithLine(s.c, SetOf(s.c, a), w, l)]

\* It is the level with the line, over the device that answered.
LEMMA BroughtIs ==
  ASSUME NEW cfg, NEW s \in States(cfg), NEW a, NEW w, NEW n, NEW data,
         NEW l, l = [valid |-> TRUE, dirty |-> FALSE, tag |-> Tag(s.c, a), data |-> data]
  PROVE  BroughtLine(s, a, w, n, data, l)
<1> DEFINE set == SetOf(s.c, a)
           rec == Newest(s.c.recency[set], w, s.c.cfg.ways)
           arr == Newest(s.c.arrival[set], w, s.c.cfg.ways)
           d == WithLine(s.c, set, w, l)
           u == Brought(s, a, w, n, data)
<1>1. s.c \in Levels(cfg)
  BY StateFacts
<1>2. u = [s EXCEPT !.n = n, !.c.line[set][w] = l,
                    !.c.recency[set] = rec, !.c.arrival[set] = arr]
  BY DEF Brought
<1>3. d = [s.c EXCEPT !.line    = [s.c.line EXCEPT ![set][w] = l],
                      !.recency = [s.c.recency EXCEPT ![set] = rec],
                      !.arrival = [s.c.arrival EXCEPT ![set] = arr]]
  BY DEF WithLine
<1> HIDE DEF set, rec, arr, d, u
<1>4. u.c = d
  <2>1. /\ u.c.line = [s.c.line EXCEPT ![set][w] = l]
        /\ u.c.recency = [s.c.recency EXCEPT ![set] = rec]
        /\ u.c.arrival = [s.c.arrival EXCEPT ![set] = arr]
    BY <1>1, <1>2, ZenonT(30) DEF States, Levels
  <2>2. u.c = [s.c EXCEPT !.line = u.c.line, !.recency = u.c.recency,
                          !.arrival = u.c.arrival]
    BY <1>1, <1>2, ZenonT(30) DEF States, Levels
  <2> QED BY <1>3, <2>1, <2>2, Zenon
<1>5. u = [s EXCEPT !.n = n, !.c = u.c]
  BY <1>1, <1>2, ZenonT(30) DEF States, Levels
<1> QED BY <1>4, <1>5, Zenon DEF d, set, u, BroughtLine

BringsIn(s, a, w, d) == BringIn(s, a, w) = [s EXCEPT !.n = Fetched(s, a).n, !.c = d]

\* The device answers, so the line brought in is the one it holds.
LEMMA BringInIs ==
  ASSUME Device, NEW cfg, Geometry(cfg), NEW s \in States(cfg), NEW a, NEW w,
         Fetched(s, a).n \in Devs(cfg.size),
         NEW d, d = WithLine(s.c, SetOf(s.c, a), w, FetchedLine(s, a)), d \in Levels(cfg)
  PROVE  BringsIn(s, a, w, d)
<1> DEFINE got == NextReadLine(s.n, Aligned(s.c, a), s.c.cfg.size)
           data == IF NextOk(got.n) THEN got.data ELSE s.c.line[SetOf(s.c,a)][w].data
           u == Brought(s, a, w, got.n, data)
           l == FetchedLine(s, a)
<1>1. BringIn(s, a, w) = IF Ok(u) THEN CallHook(u, "onInsert") ELSE u
  BY Zenon DEF BringIn, Brought
<1>2. got = Fetched(s, a)
  BY DEF Fetched
<1>3. data = got.data
  <2>1. NextOk(got.n)
    BY <1>2, DeviceLawful DEF Devs
  <2> QED BY <2>1
<1> HIDE DEF got, data
<1>4. l = [valid |-> TRUE, dirty |-> FALSE, tag |-> Tag(s.c, a), data |-> data]
  BY <1>2, <1>3 DEF FetchedLine
<1> HIDE DEF l, u
<1>5. u = [s EXCEPT !.n = got.n, !.c = d]
  <2> DEFINE e == WithLine(s.c, SetOf(s.c, a), w, l)
  <2>1. u = [s EXCEPT !.n = got.n, !.c = e]
    <3>1. BroughtLine(s, a, w, got.n, data, l)
      BY <1>4, BroughtIs, Zenon
    <3> QED BY <3>1, Zenon DEF u, BroughtLine
  <2>2. e = d
    BY DEF l
  <2> HIDE DEF e
  <2> QED BY <2>1, <2>2
<1>6. u \in States(cfg) /\ u.c = d
  BY <1>2, <1>5 DEF States
<1>7. Ok(u)
  BY <1>6, StateOk
<1>8. CallHook(u, "onInsert") = u
  BY <1>6, NoHook
<1> QED BY <1>1, <1>2, <1>5, <1>7, <1>8 DEF BringsIn

\* A line of an address of the space is a chunk of the device.
LEMMA AddressChunk ==
  ASSUME Device, NEW cfg, Geometry(cfg), NEW c \in Levels(cfg), NEW n \in Devs(cfg.size),
         NEW a \in Space
  PROVE  Chunk(n, Aligned(c, a), cfg.size)
<1>1. a \in Nat
  BY DEF Space
<1>2. SetOf(c, a) \in Sets(c) /\ Tag(c, a) \in Nat
  BY <1>1, AddressTypes
<1>3. LineStart(c, SetOf(c, a), Tag(c, a)) = Aligned(c, a)
  BY <1>1, LineStartAligned
<1>4. Aligned(c, a) + cfg.size <= Extent
  BY LineInSpace
<1> QED BY <1>2, <1>3, <1>4, LineIsChunk

\* Putting a line of the space in keeps a level typed.
LEMMA WithLineType ==
  ASSUME NEW cfg, Geometry(cfg), NEW c \in Levels(cfg), NEW set \in Sets(c),
         NEW w \in Ways(c), NEW l \in Lines(cfg), Inside(cfg, set, l),
         NEW d, d = WithLine(c, set, w, l)
  PROVE  d \in Levels(cfg) /\ d.line = [c.line EXCEPT ![set][w] = l]
<1> DEFINE lines == [c.line EXCEPT ![set][w] = l]
           recs == [c.recency EXCEPT ![set] = Newest(c.recency[set], w, c.cfg.ways)]
           arrs == [c.arrival EXCEPT ![set] = Newest(c.arrival[set], w, c.cfg.ways)]
<1>1. /\ c.cfg = cfg
      /\ set \in 0 .. cfg.sets - 1
      /\ w \in 0 .. cfg.ways - 1
      /\ c.line \in Tables(cfg)
      /\ c.recency \in PerWay(cfg, 0 .. cfg.ways - 1)
      /\ c.arrival \in PerWay(cfg, 0 .. cfg.ways - 1)
  BY LevelFacts DEF Levels
<1>2. lines \in Tables(cfg)
  BY <1>1, TableUpdate
<1>3. recs \in PerWay(cfg, 0 .. cfg.ways - 1) /\ arrs \in PerWay(cfg, 0 .. cfg.ways - 1)
  BY <1>1, RenewType
<1>4. d = [c EXCEPT !.line = lines, !.recency = recs, !.arrival = arrs]
  BY DEF WithLine
<1> HIDE DEF lines, recs, arrs
<1>5. d \in Levels(cfg) /\ d.line = lines
  BY <1>2, <1>3, <1>4 DEF Levels
<1> QED BY <1>5 DEF lines

\* What is brought in, and what that makes of the device.
LEMMA FetchedFacts ==
  ASSUME Device, NEW cfg, Geometry(cfg), NEW s \in States(cfg), NEW a \in Space
  PROVE  /\ Answers(s.n, Fetched(s, a), Aligned(s.c, a), cfg.size)
         /\ Fetched(s, a).n \in Devs(cfg.size)
         /\ Grain(Fetched(s, a).n) = Grain(s.n)
         /\ FetchedLine(s, a) \in Lines(cfg)
         /\ Inside(cfg, SetOf(s.c, a), FetchedLine(s, a))
<1> DEFINE r == Fetched(s, a)
           l == FetchedLine(s, a)
<1>1. /\ s.c \in Levels(cfg)
      /\ s.c.cfg = cfg
      /\ s.n \in Devs(cfg.size)
      /\ s.n \in Dev
      /\ a \in Nat
  BY StateFacts DEF States, Space
<1>2. Answers(s.n, r, Aligned(s.c, a), cfg.size)
  BY <1>1, AddressChunk, DeviceAnswers DEF Fetched
<1> HIDE DEF r
<1>3. r.n \in Devs(cfg.size) /\ Grain(r.n) = Grain(s.n)
  BY <1>1, <1>2 DEF Answers, Devs
<1>4. r.data \in [0 .. cfg.size - 1 -> Values]
  BY <1>2 DEF Answers, Cells
<1>5. SetOf(s.c, a) \in Sets(s.c) /\ Tag(s.c, a) \in Nat
  BY <1>1, AddressTypes
<1>6. l \in Lines(cfg) /\ l.tag = Tag(s.c, a)
  BY <1>4, <1>5 DEF FetchedLine, Lines, r
<1>7. Inside(cfg, SetOf(s.c, a), l)
  <2>1. LineStart(s.c, SetOf(s.c, a), Tag(s.c, a)) = Aligned(s.c, a)
    BY <1>1, LineStartAligned
  <2>2. Aligned(s.c, a) + cfg.size <= Extent
    BY <1>1, LineInSpace
  <2> QED BY <1>1, <1>6, <2>1, <2>2 DEF Inside, LineStart
<1> QED BY <1>2, <1>3, <1>6, <1>7 DEF r

\* Bringing an absent line in leaves the view as it is.
LEMMA BringInCoherent ==
  ASSUME Device, NEW cfg, Geometry(cfg), NEW s \in States(cfg), NEW A \in SUBSET Space,
         Coherent(s, A), NEW a \in Space, NEW w \in Ways(s.c), ~Resident(s.c, a),
         ~s.c.line[SetOf(s.c, a)][w].valid, NEW t, t = BringIn(s, a, w)
  PROVE  Harmless(cfg, s, t, A) /\ Resident(t.c, a)
<1> DEFINE set == SetOf(s.c, a)
           r == Fetched(s, a)
           l == FetchedLine(s, a)
           d == WithLine(s.c, set, w, l)
           s0 == [s EXCEPT !.n = r.n]
<1>1. /\ s.c \in Levels(cfg)
      /\ s.n \in Dev
      /\ s.c.cfg = cfg
      /\ s.c.line \in [Sets(s.c) -> [Ways(s.c) -> Lines(cfg)]]
      /\ a \in Nat
  BY StateFacts, LevelFacts DEF Space
<1>2. set \in Sets(s.c) /\ Tag(s.c, a) \in Nat
  BY <1>1, AddressTypes
<1>3. /\ Answers(s.n, r, Aligned(s.c, a), cfg.size)
      /\ r.n \in Devs(cfg.size)
      /\ Grain(r.n) = Grain(s.n)
      /\ l \in Lines(cfg)
      /\ Inside(cfg, set, l)
  BY FetchedFacts
<1>4. /\ l.valid /\ ~l.dirty /\ l.tag = Tag(s.c, a) /\ l.data = r.data
      /\ \A v \in Matching(s.c, set, l.tag) : v = w
  BY DEF Resident, FetchedLine
<1>5. /\ r.n \in Dev
      /\ Keeps(s.n, r.n, A)
      /\ \A i \in 0 .. cfg.size - 1 :
           Aligned(s.c, a) + i \in A => r.data[i] = Holds(s.n, Aligned(s.c, a) + i)
  <2> HIDE DEF r
  <2> QED BY <1>3 DEF Answers, Coherent
<1> HIDE DEF r, l, set
<1>6. Harmless(cfg, s, s0, A) /\ s0.c = s.c /\ s0.n = r.n
  BY <1>3, <1>5, DeviceKept
<1>7. d \in Levels(cfg) /\ d.line = [s.c.line EXCEPT ![set][w] = l]
  BY <1>1, <1>2, <1>3, WithLineType
<1> HIDE DEF d, s0
<1>8. t = [s EXCEPT !.n = r.n, !.c = d]
  <2>1. d = WithLine(s.c, SetOf(s.c, a), w, FetchedLine(s, a)) /\ Fetched(s, a) = r
    BY DEF d, l, set, r
  <2>2. Fetched(s, a).n \in Devs(cfg.size)
    BY <1>3, <2>1
  <2>3. BringsIn(s, a, w, d)
    BY <1>7, <2>1, <2>2, BringInIs, Zenon
  <2> QED BY <2>1, <2>3 DEF BringsIn
<1>9. t \in States(cfg) /\ t.n = r.n /\ t.c = d
  BY <1>3, <1>7, <1>8 DEF States
<1>10. ASSUME NEW b \in A, SetOf(s.c, b) = set, Tag(s.c, b) = Tag(s.c, a)
       PROVE  l.data[Offset(s.c, b)] = Holds(r.n, b)
  <2>1. b \in Nat /\ Offset(s.c, b) \in 0 .. cfg.size - 1
    <3>1. b \in Nat
      BY DEF Space
    <3> QED BY <1>1, <3>1, AddressTypes, Zenon
  <2>2. Aligned(s.c, a) = Aligned(s.c, b)
    BY <1>1, <1>10, <2>1, LineStartAligned, Zenon DEF set
  <2>3. Aligned(s.c, b) + Offset(s.c, b) = b
    BY <1>1, <2>1 DEF Aligned
  <2>4. r.data[Offset(s.c, b)] = Holds(s.n, Aligned(s.c, a) + Offset(s.c, b))
    BY <1>5, <2>1, <2>2, <2>3
  <2>5. Holds(r.n, b) = Holds(s.n, b)
    BY <1>5 DEF Keeps
  <2> QED BY <1>4, <2>2, <2>3, <2>4, <2>5
<1>11. Coherent(t, A) /\ ViewAfter(s0, t, A, set, w, l)
  <2>1. /\ s0 \in States(cfg)
        /\ Coherent(s0, A)
        /\ set \in Sets(s0.c)
        /\ w \in Ways(s0.c)
        /\ t.c.line = [s0.c.line EXCEPT ![set][w] = l]
        /\ Sound(t.n, A)
    BY <1>2, <1>5, <1>6, <1>7, <1>9 DEF Harmless, Keeps
  <2>2. /\ l.valid => \A v \in Matching(s0.c, set, l.tag) : v = w
        /\ l.dirty => cfg.write = "WriteBack"
        /\ \A b \in A :
             l.valid /\ ~l.dirty /\ SetOf(s0.c, b) = set /\ Tag(s0.c, b) = l.tag =>
               l.data[Offset(s0.c, b)] = Holds(t.n, b)
        /\ \A b \in A : Holds(t.n, b) = Holds(s0.n, b) \/ ~HeldElsewhere(s0.c, b, set, w)
    BY <1>4, <1>6, <1>9, <1>10
  <2> QED BY <1>3, <1>9, <2>1, <2>2, ReplaceLine
<1>12. ASSUME NEW b \in A
       PROVE  ViewAt(t, b) = ViewAt(s, b)
  <2> DEFINE M == Matching(s.c, SetOf(s.c, b), Tag(s.c, b))
  <2>1. /\ M = {} => ViewAt(s, b) = Holds(s.n, b)
        /\ ViewAt(s0, b) = ViewAt(s, b)
        /\ Holds(r.n, b) = Holds(s.n, b)
    BY <1>5, <1>6, ViewOfWay DEF Coherent, Harmless, SameView, Keeps
  <2>2. IF l.valid /\ SetOf(s.c, b) = set /\ Tag(s.c, b) = l.tag
        THEN ViewAt(t, b) = l.data[Offset(s.c, b)]
        ELSE IF HeldElsewhere(s.c, b, set, w) THEN ViewAt(t, b) = ViewAt(s0, b)
        ELSE ViewAt(t, b) = Holds(t.n, b)
    BY <1>6, <1>11 DEF ViewAfter
  <2>3. CASE SetOf(s.c, b) = set /\ Tag(s.c, b) = Tag(s.c, a)
    <3>1. M = {}
      BY <2>3 DEF Resident, set
    <3> QED BY <1>4, <1>10, <2>1, <2>2, <2>3, <3>1
  <2>4. CASE ~(SetOf(s.c, b) = set /\ Tag(s.c, b) = Tag(s.c, a))
             /\ HeldElsewhere(s.c, b, set, w)
    BY <1>4, <2>1, <2>2, <2>4
  <2>5. CASE ~(SetOf(s.c, b) = set /\ Tag(s.c, b) = Tag(s.c, a))
             /\ ~HeldElsewhere(s.c, b, set, w)
    <3>1. M = {}
      BY <2>5, SMTT(60) DEF HeldElsewhere, Matching, set
    <3> QED BY <1>4, <1>9, <2>1, <2>2, <2>5, <3>1
  <2> QED BY <2>3, <2>4, <2>5
<1>13. Resident(t.c, a)
  <2>1. t.c.line[set][w] = l
    BY <1>1, <1>2, <1>7, <1>9
  <2>2. t.c.cfg = s.c.cfg
    BY <1>1, <1>9, StateFacts
  <2>3. SetOf(t.c, a) = set /\ Tag(t.c, a) = Tag(s.c, a) /\ Ways(t.c) = Ways(s.c)
    BY <2>2, SameSplit DEF set
  <2> QED BY <1>4, <2>1, <2>3 DEF Resident, Matching
<1>14. Passed(s, t, A)
  BY <1>5, <1>9 DEF Passed, Keeps
<1> QED BY <1>3, <1>9, <1>11, <1>12, <1>13, <1>14 DEF SameView, Harmless

\* A miss leaves the view as it is, and the line in place.
LEMMA FillCoherent ==
  ASSUME Device, NEW cfg, Geometry(cfg), NEW s \in States(cfg), NEW A \in SUBSET Space,
         Coherent(s, A), NEW a \in Space, ~Resident(s.c, a), NEW t, t = Fill(s, a)
  PROVE  Harmless(cfg, s, t, A) /\ Resident(t.c, a)
<1> DEFINE set == SetOf(s.c, a)
           s1 == Evict(s, set)
           w == EvictWay(s, set)
<1>1. s.c \in Levels(cfg) /\ s.c.cfg = cfg /\ a \in Nat
  BY StateFacts DEF Space
<1>2. set \in Sets(s.c) /\ w \in Ways(s.c)
  BY <1>1, AddressTypes, EvictWayIs
<1>3. /\ Harmless(cfg, s, s1, A)
      /\ ~s1.c.line[set][w].valid
      /\ Fewer(s, s1)
  BY <1>2, EvictCoherent
<1> HIDE DEF s1, w
<1>4. s1 \in States(cfg) /\ Coherent(s1, A) /\ Ok(s1) /\ s1.c.cfg = cfg
  BY <1>3, StateOk, StateFacts DEF Harmless
<1>5. /\ SetOf(s1.c, a) = set
      /\ Tag(s1.c, a) = Tag(s.c, a)
      /\ Ways(s1.c) = Ways(s.c)
  BY <1>1, <1>4, SameSplit
<1>6. ~Resident(s1.c, a)
  BY <1>2, <1>3, <1>5 DEF Resident, Fewer
<1>7. t = BringIn(s1, a, w)
  BY <1>4 DEF Fill, s1, w
<1>8. Harmless(cfg, s1, t, A) /\ Resident(t.c, a)
  BY <1>2, <1>3, <1>4, <1>5, <1>6, <1>7, BringInCoherent
<1> QED BY <1>3, <1>8, HarmlessTransitive

-----------------------------------------------------------------------------
(* Accesses within a line. *)

\* All cells of such an access have the set and tag of the first.
LEMMA WithinFacts ==
  ASSUME NEW cfg, Geometry(cfg), NEW c \in Levels(cfg), NEW a \in Nat, NEW len \in Nat,
         Within(c, a, len), NEW i \in 0 .. len - 1
  PROVE  /\ SetOf(c, a + i) = SetOf(c, a)
         /\ Tag(c, a + i) = Tag(c, a)
         /\ Offset(c, a + i) = Offset(c, a) + i
         /\ Resident(c, a + i) <=> Resident(c, a)
<1>1. Block(c, a + i) = Block(c, a)
  BY DEF Within
<1>2. SetOf(c, a + i) = SetOf(c, a) /\ Tag(c, a + i) = Tag(c, a)
  BY <1>1 DEF SetOf, Tag
<1>3. Offset(c, a + i) = Offset(c, a) + i
  <2> DEFINE x == a + i
             k == cfg.size * Block(c, a)
  <2>1. x \in Nat
    OBVIOUS
  <2> HIDE DEF x
  <2>2. /\ a = cfg.size * Block(c, a) + Offset(c, a)
        /\ Offset(c, a) \in 0 .. cfg.size - 1
        /\ Block(c, a) \in Nat
    BY AddressTypes, Zenon
  <2>3. /\ x = cfg.size * Block(c, x) + Offset(c, x)
        /\ Offset(c, x) \in 0 .. cfg.size - 1
    BY <2>1, AddressTypes, ZenonT(60)
  <2>4. cfg.size \in Nat
    BY GeometryFacts
  <2>5. k \in Nat
    BY <2>2, <2>4
  <2>6. Block(c, x) = Block(c, a)
    BY <1>1 DEF x
  <2>7. a = k + Offset(c, a) /\ x = k + Offset(c, x)
    BY <2>2, <2>3, <2>6, Zenon
  <2> HIDE DEF k
  <2>8. x = a + i
    BY DEF x
  <2>9. Offset(c, x) = Offset(c, a) + i
    BY <2>2, <2>3, <2>4, <2>5, <2>7, <2>8
  <2> QED BY <2>9 DEF x
<1> QED BY <1>2, <1>3 DEF Resident

\* An access within a line hits when its first cell is resident.
LEMMA WithinHit ==
  ASSUME NEW cfg, Geometry(cfg), NEW c \in Levels(cfg), NEW a \in Nat,
         NEW len \in Nat \ {0}, Within(c, a, len)
  PROVE  IsHit(c, a, len) <=> Resident(c, a)
<1>1. 0 \in 0 .. len - 1 /\ a + 0 = a
  OBVIOUS
<1>2. \A i \in 0 .. len - 1 : Resident(c, a + i) <=> Resident(c, a)
  BY WithinFacts
<1> QED BY <1>1, <1>2, Zenon DEF IsHit

\* Two addresses of one line are as far apart as their offsets.
LEMMA SameLineDistance ==
  ASSUME NEW cfg, Geometry(cfg), NEW c \in Levels(cfg), NEW a \in Nat, NEW b \in Nat,
         SetOf(c, a) = SetOf(c, b), Tag(c, a) = Tag(c, b)
  PROVE  b - a = Offset(c, b) - Offset(c, a)
<1>1. Aligned(c, a) = Aligned(c, b)
  BY LineStartAligned, Zenon
<1>2. /\ Offset(c, a) \in 0 .. cfg.size - 1
      /\ Offset(c, b) \in 0 .. cfg.size - 1
  BY AddressTypes, Zenon
<1>3. cfg.size \in Nat
  BY GeometryFacts
<1> QED BY <1>1, <1>2, <1>3 DEF Aligned

\* The line of a level after a store to it.
Stored(c, a, data, len) ==
  LET k == c.line[SetOf(c, a)][WayOf(c, a)]
  IN  [k EXCEPT !.dirty = (c.cfg.write = "WriteBack"),
                !.data  = [o \in Offsets(c) |->
                             IF o - Offset(c, a) \in 0 .. len - 1
                             THEN data[o - Offset(c, a)] ELSE k.data[o]]]

PutsBytes(c, a, data, len) ==
  PutBytes(c, a, data, len) =
    [c EXCEPT !.line[SetOf(c, a)][WayOf(c, a)] = Stored(c, a, data, len)]

\* A store that stays within a line changes that line only.
LEMMA PutBytesWithin ==
  ASSUME NEW cfg, Geometry(cfg), NEW c \in Levels(cfg), NEW a \in Nat,
         NEW len \in Nat \ {0}, Within(c, a, len), Resident(c, a),
         NEW data \in [0 .. len - 1 -> Values]
  PROVE  PutsBytes(c, a, data, len)
<1> DEFINE set == SetOf(c, a)
           w   == WayOf(c, a)
           k   == c.line[set][w]
           put(x, v) ==
             IF Landing(c, a, len, x, v) = {} THEN c.line[x][v]
             ELSE [c.line[x][v] EXCEPT
                     !.dirty = (c.cfg.write = "WriteBack"),
                     !.data  = [o \in Offsets(c) |->
                        IF \E i \in Landing(c, a, len, x, v) : Offset(c, a + i) = o
                        THEN data[CHOOSE i \in Landing(c, a, len, x, v) :
                                    Offset(c, a + i) = o]
                        ELSE c.line[x][v].data[o]]]
<1>1. /\ c.line \in [Sets(c) -> [Ways(c) -> Lines(cfg)]]
      /\ set \in Sets(c)
      /\ w \in Ways(c)
      /\ Offset(c, a) \in Nat
      /\ Offsets(c) \subseteq Nat
  <2>1. w \in Ways(c)
    BY WayOfResident DEF Matching
  <2>2. Offset(c, a) \in Nat /\ Offsets(c) \subseteq Nat
    BY AddressTypes DEF Offsets
  <2> QED BY <2>1, <2>2, LevelFacts, AddressTypes
<1>2. ASSUME NEW i \in 0 .. len - 1
      PROVE  /\ SetOf(c, a + i) = set
             /\ WayOf(c, a + i) = w
             /\ Offset(c, a + i) = Offset(c, a) + i
  BY WithinFacts, ZenonT(60) DEF WayOf
<1>3. ASSUME NEW x, NEW v
      PROVE  Landing(c, a, len, x, v) = IF x = set /\ v = w THEN 0 .. len - 1 ELSE {}
  BY <1>2 DEF Landing
<1>4. put(set, w) = Stored(c, a, data, len)
  <2>1. Landing(c, a, len, set, w) = 0 .. len - 1 /\ 0 .. len - 1 # {}
    BY <1>3
  <2>2. ASSUME NEW o \in Offsets(c)
        PROVE  (IF \E i \in 0 .. len - 1 : Offset(c, a + i) = o
                THEN data[CHOOSE i \in 0 .. len - 1 : Offset(c, a + i) = o]
                ELSE k.data[o])
               = IF o - Offset(c, a) \in 0 .. len - 1
                 THEN data[o - Offset(c, a)] ELSE k.data[o]
    <3>1. ASSUME NEW i \in 0 .. len - 1
          PROVE  Offset(c, a + i) = o <=> i = o - Offset(c, a)
      BY <1>1, <1>2
    <3>2. CASE o - Offset(c, a) \in 0 .. len - 1
      <4>1. (CHOOSE i \in 0 .. len - 1 : Offset(c, a + i) = o) = o - Offset(c, a)
        BY <3>1, <3>2
      <4> QED BY <3>1, <3>2, <4>1
    <3>3. CASE ~(o - Offset(c, a) \in 0 .. len - 1)
      BY <3>1, <3>3
    <3> QED BY <3>2, <3>3
  <2> DEFINE f == [o \in Offsets(c) |->
                     IF \E i \in 0 .. len - 1 : Offset(c, a + i) = o
                     THEN data[CHOOSE i \in 0 .. len - 1 : Offset(c, a + i) = o]
                     ELSE k.data[o]]
             g == [o \in Offsets(c) |->
                     IF o - Offset(c, a) \in 0 .. len - 1
                     THEN data[o - Offset(c, a)] ELSE k.data[o]]
             wb == c.cfg.write = "WriteBack"
  <2>3. f = g
    BY <2>2, Zenon
  <2>4. put(set, w) = [k EXCEPT !.dirty = wb, !.data = f]
    BY <2>1, Zenon
  <2>5. Stored(c, a, data, len) = [k EXCEPT !.dirty = wb, !.data = g]
    BY DEF Stored
  <2> HIDE DEF f, g, put, wb
  <2> QED BY <2>3, <2>4, <2>5, Zenon
<1>5. PutBytes(c, a, data, len) =
        [c EXCEPT !.line = [x \in Sets(c) |-> [v \in Ways(c) |-> put(x, v)]]]
  BY Zenon DEF PutBytes
<1>6. ASSUME NEW x, NEW v, ~(x = set /\ v = w)
      PROVE  put(x, v) = c.line[x][v]
  <2>1. Landing(c, a, len, x, v) = {}
    BY <1>3, <1>6
  <2> QED BY <2>1, Zenon
<1> HIDE DEF put
<1>7. [x \in Sets(c) |-> [v \in Ways(c) |-> put(x, v)]] =
        [c.line EXCEPT ![set][w] = Stored(c, a, data, len)]
  <2> DEFINE e == Stored(c, a, data, len)
             row(x) == [v \in Ways(c) |-> put(x, v)]
             new == [c.line EXCEPT ![set][w] = e]
  <2>1. put(set, w) = e
    BY <1>4
  <2> HIDE DEF e, set, w
  <2>2. ASSUME NEW x \in Sets(c)
        PROVE  row(x) = IF x = set THEN [c.line[set] EXCEPT ![w] = e] ELSE c.line[x]
    <3>1. c.line[x] = [v \in Ways(c) |-> c.line[x][v]]
      BY <1>1
    <3>2. CASE x # set
      <4>1. \A v : put(x, v) = c.line[x][v]
        BY <1>6, <3>2
      <4> QED BY <3>1, <3>2, <4>1, Zenon
    <3>3. CASE x = set
      <4>1. \A v \in Ways(c) : put(x, v) = IF v = w THEN e ELSE c.line[set][v]
        BY <1>6, <2>1, <3>3
      <4>2. [c.line[set] EXCEPT ![w] = e] = [v \in Ways(c) |-> IF v = w THEN e ELSE c.line[set][v]]
        BY <1>1, <3>1, <3>3
      <4> QED BY <3>3, <4>1, <4>2, Zenon
    <3> QED BY <3>2, <3>3
  <2>3. new = [x \in Sets(c) |-> IF x = set THEN [c.line[set] EXCEPT ![w] = e] ELSE c.line[x]]
    BY <1>1
  <2> HIDE DEF row, new
  <2>4. [x \in Sets(c) |-> row(x)] = new
    BY <2>2, <2>3, Zenon
  <2> QED BY <2>4, Zenon DEF row, new, e, set, w
<1>8. PutBytes(c, a, data, len) =
        [c EXCEPT !.line = [c.line EXCEPT ![set][w] = Stored(c, a, data, len)]]
  BY <1>5, <1>7, Zenon
<1> QED BY <1>8 DEF Levels, PutsBytes

\* Such an access does not span.
LEMMA WithinOneLine ==
  ASSUME NEW c, NEW a \in Nat, NEW len \in Nat \ {0}, Within(c, a, len)
  PROVE  ~Spans(c, a, len)
<1> DEFINE i == len - 1
<1>1. i \in 0 .. len - 1 /\ a + i = a + len - 1
  OBVIOUS
<1> HIDE DEF i
<1>2. Block(c, a + i) = Block(c, a)
  BY <1>1 DEF Within
<1> QED BY <1>1, <1>2 DEF Spans

\* Its addresses belong to the space, and their cells to its line.
LEMMA StretchInSpace ==
  ASSUME Device, NEW a \in Nat, NEW len \in Nat \ {0}, a + len <= Extent
  PROVE  a \in Space /\ \A i \in 0 .. len - 1 : a + i \in Space
BY SpaceFacts DEF Space

\* The line after a store is a line.
LEMMA StoredType ==
  ASSUME NEW cfg, Geometry(cfg), NEW c \in Levels(cfg), NEW a \in Nat,
         NEW len \in Nat \ {0}, Within(c, a, len), Resident(c, a), NEW data \in Cells(len),
         NEW k, k = c.line[SetOf(c, a)][WayOf(c, a)], NEW l, l = Stored(c, a, data, len)
  PROVE  /\ WayOf(c, a) \in Ways(c)
         /\ k.valid /\ k.tag = Tag(c, a)
         /\ l \in Lines(cfg)
         /\ Inside(cfg, SetOf(c, a), l)
         /\ l.valid
         /\ l.tag = Tag(c, a)
         /\ l.dirty <=> cfg.write = "WriteBack"
         /\ \A o \in Offsets(c) :
              l.data[o] = IF o - Offset(c, a) \in 0 .. len - 1
                          THEN data[o - Offset(c, a)] ELSE k.data[o]
<1> DEFINE g == [o \in Offsets(c) |->
                   IF o - Offset(c, a) \in 0 .. len - 1
                   THEN data[o - Offset(c, a)] ELSE k.data[o]]
           wb == cfg.write = "WriteBack"
<1>1. /\ c.cfg = cfg
      /\ c.line \in [Sets(c) -> [Ways(c) -> Lines(cfg)]]
      /\ Offsets(c) = 0 .. cfg.size - 1
      /\ SetOf(c, a) \in Sets(c)
  BY LevelFacts, AddressTypes
<1>2. WayOf(c, a) \in Ways(c) /\ k.valid /\ k.tag = Tag(c, a)
  BY WayOfResident DEF Matching
<1>3. k \in Lines(cfg) /\ k.tag \in Nat /\ k.data \in [0 .. cfg.size - 1 -> Values]
  BY <1>1, <1>2 DEF Lines
<1>4. g \in [0 .. cfg.size - 1 -> Values]
  BY <1>1, <1>3, ZenonT(60) DEF Cells
<1>5. l = [k EXCEPT !.dirty = wb, !.data = g]
  BY <1>1 DEF Stored
<1>6. wb \in BOOLEAN
  OBVIOUS
<1>7. \A o \in Offsets(c) :
         g[o] = IF o - Offset(c, a) \in 0 .. len - 1
                THEN data[o - Offset(c, a)] ELSE k.data[o]
  OBVIOUS
<1>8. l \in Lines(cfg) /\ l.valid /\ l.tag = k.tag /\ l.dirty = wb /\ l.data = g
  <2> HIDE DEF g, wb
  <2> QED BY <1>2, <1>3, <1>4, <1>5, <1>6 DEF Lines
<1>9. Inside(cfg, SetOf(c, a), l)
  <2>1. Inside(cfg, SetOf(c, a), k)
    BY <1>1, <1>2, LineInside
  <2> HIDE DEF g
  <2> QED BY <1>2, <1>8, <2>1 DEF Inside
<1> HIDE DEF g
<1> QED BY <1>2, <1>7, <1>8, <1>9

-----------------------------------------------------------------------------
(* What an access does. *)

\* From s to t the cells from a on take the data, as far as A shows.
Takes(cfg, s, t, A, a, len, data) ==
  /\ t \in States(cfg)
  /\ Grain(t.n) = Grain(s.n)
  /\ Coherent(t, A)
  /\ \A b \in A :
       ViewAt(t, b) = IF b - a \in 0 .. len - 1 THEN data[b - a] ELSE ViewAt(s, b)
  /\ \A b \in A : b - a \notin 0 .. len - 1 =>
       Holds(t.n, b) = Holds(s.n, b) \/ Holds(t.n, b) = ViewAt(s, b)

\* What cannot be seen before it does not count.
LEMMA HarmlessTakes ==
  ASSUME NEW cfg, NEW s, NEW t, NEW u, NEW A, NEW a, NEW len, NEW data,
         Harmless(cfg, s, t, A), Takes(cfg, t, u, A, a, len, data)
  PROVE  Takes(cfg, s, u, A, a, len, data)
BY DEF Harmless, SameView, Passed, Takes

\* The data goes into a line, and below it exactly under write-through.
LEMMA StoreTakes ==
  ASSUME Device, NEW cfg, Geometry(cfg), NEW s \in States(cfg), NEW A \in SUBSET Space,
         Coherent(s, A), NEW a \in Nat, NEW len \in Nat \ {0}, a + len <= Extent,
         Within(s.c, a, len), Resident(s.c, a), NEW data \in Cells(len),
         NEW t \in States(cfg), NEW set, set = SetOf(s.c, a), NEW w, w = WayOf(s.c, a),
         t.c.line = [s.c.line EXCEPT ![set][w] = Stored(s.c, a, data, len)],
         IF cfg.write = "WriteThrough" THEN Obeys(s.n, t.n, a, len, data) ELSE t.n = s.n
  PROVE  Takes(cfg, s, t, A, a, len, data)
<1> DEFINE k == s.c.line[set][w]
           l == Stored(s.c, a, data, len)
<1>1. /\ s.c \in Levels(cfg)
      /\ s.c.cfg = cfg
      /\ cfg.write \in {"WriteThrough", "WriteBack"}
      /\ SetOf(s.c, a) \in Sets(s.c)
  BY StateFacts, GeometryFacts, AddressTypes
<1>2. /\ set \in Sets(s.c)
      /\ w \in Ways(s.c)
      /\ k.valid /\ k.tag = Tag(s.c, a)
      /\ l \in Lines(cfg)
      /\ l.valid
      /\ l.tag = Tag(s.c, a)
      /\ l.dirty <=> cfg.write = "WriteBack"
      /\ \A o \in Offsets(s.c) :
           l.data[o] = IF o - Offset(s.c, a) \in 0 .. len - 1
                       THEN data[o - Offset(s.c, a)] ELSE k.data[o]
  BY <1>1, StoredType
<1> HIDE DEF l, k
<1>3. t.c.line = [s.c.line EXCEPT ![set][w] = l]
  BY DEF l
<1>4. \A v \in Matching(s.c, set, l.tag) : v = w
  BY <1>1, <1>2, OneWay DEF Coherent
<1>5. Grain(t.n) = Grain(s.n) /\ Sound(t.n, A)
  BY <1>1 DEF Obeys, Puts, Coherent
<1>6. ASSUME NEW b \in A
      PROVE  Holds(t.n, b) = IF b - a \in 0 .. len - 1 /\ cfg.write = "WriteThrough"
                             THEN data[b - a] ELSE Holds(s.n, b)
  BY <1>1 DEF Obeys, Puts, Coherent
<1>7. ASSUME NEW b \in A, b - a \in 0 .. len - 1
      PROVE  SetOf(s.c, b) = set /\ Tag(s.c, b) = Tag(s.c, a)
  <2>1. PICK i \in 0 .. len - 1 : i = b - a
    BY <1>7
  <2>2. b = a + i
    BY <2>1 DEF Space
  <2>3. Block(s.c, b) = Block(s.c, a)
    BY <2>2 DEF Within
  <2> QED BY <2>3 DEF SetOf, Tag
<1>8. ASSUME NEW b \in A, SetOf(s.c, b) = set, Tag(s.c, b) = Tag(s.c, a)
      PROVE  l.data[Offset(s.c, b)] =
               IF b - a \in 0 .. len - 1 THEN data[b - a] ELSE k.data[Offset(s.c, b)]
  <2>1. b \in Nat
    BY DEF Space
  <2>2. b - a = Offset(s.c, b) - Offset(s.c, a)
    BY <1>1, <1>8, <2>1, SameLineDistance
  <2>3. Offset(s.c, b) \in Offsets(s.c)
    BY <1>1, <2>1, AddressTypes
  <2> QED BY <1>2, <2>2, <2>3
<1>9. ASSUME NEW b \in A, SetOf(s.c, b) = set, Tag(s.c, b) = Tag(s.c, a)
      PROVE  w \in Matching(s.c, SetOf(s.c, b), Tag(s.c, b))
  BY <1>2, <1>9 DEF Matching, k
<1>10. ASSUME NEW b \in A, ~l.dirty, SetOf(s.c, b) = set, Tag(s.c, b) = l.tag
       PROVE  l.data[Offset(s.c, b)] = Holds(t.n, b)
  <2>1. cfg.write = "WriteThrough"
    BY <1>1, <1>2, <1>10
  <2>2. ~k.dirty
    BY <1>1, <1>2, <2>1 DEF Coherent, DirtyWriteBack, k
  <2>3. k.data[Offset(s.c, b)] = Holds(s.n, b)
    BY <1>2, <1>9, <1>10, <2>2, SMTT(30) DEF Coherent, Clean, k
  <2> QED BY <1>2, <1>6, <1>8, <1>10, <2>1, <2>3
<1>11. \A b \in A : Holds(t.n, b) = Holds(s.n, b) \/ ~HeldElsewhere(s.c, b, set, w)
  BY <1>2, <1>4, <1>6, <1>7 DEF HeldElsewhere
<1>12. Coherent(t, A) /\ ViewAfter(s, t, A, set, w, l)
  <2>1. \A b \in A :
          l.valid /\ ~l.dirty /\ SetOf(s.c, b) = set /\ Tag(s.c, b) = l.tag =>
            l.data[Offset(s.c, b)] = Holds(t.n, b)
    BY <1>10
  <2> QED BY <1>2, <1>3, <1>4, <1>5, <1>11, <2>1, ReplaceLine
<1>13. ASSUME NEW b \in A
       PROVE  ViewAt(t, b) = IF b - a \in 0 .. len - 1 THEN data[b - a] ELSE ViewAt(s, b)
  <2> DEFINE M == Matching(s.c, SetOf(s.c, b), Tag(s.c, b))
  <2>1. /\ \A v \in M : ViewAt(s, b) = s.c.line[SetOf(s.c, b)][v].data[Offset(s.c, b)]
        /\ M = {} => ViewAt(s, b) = Holds(s.n, b)
    BY ViewOfWay DEF Coherent
  <2>2. CASE SetOf(s.c, b) = set /\ Tag(s.c, b) = Tag(s.c, a)
    <3>1. ViewAt(s, b) = k.data[Offset(s.c, b)]
      BY <1>9, <2>1, <2>2 DEF k
    <3>2. ViewAt(t, b) = l.data[Offset(s.c, b)]
      BY <1>2, <1>12, <2>2 DEF ViewAfter
    <3> QED BY <1>8, <2>2, <3>1, <3>2
  <2>3. CASE /\ ~(SetOf(s.c, b) = set /\ Tag(s.c, b) = Tag(s.c, a))
             /\ HeldElsewhere(s.c, b, set, w)
    BY <1>2, <1>7, <1>12, <2>3 DEF ViewAfter
  <2>4. CASE /\ ~(SetOf(s.c, b) = set /\ Tag(s.c, b) = Tag(s.c, a))
             /\ ~HeldElsewhere(s.c, b, set, w)
    <3>1. ~(b - a \in 0 .. len - 1)
      BY <1>7, <2>4, SMTT(60)
    <3>2. M = {}
      BY <1>2, <2>4 DEF HeldElsewhere, Matching, k
    <3>3. ViewAt(t, b) = Holds(t.n, b) /\ Holds(t.n, b) = Holds(s.n, b)
      BY <1>2, <1>6, <1>12, <2>4, <3>1 DEF ViewAfter
    <3> QED BY <2>1, <3>1, <3>2, <3>3
  <2> QED BY <2>2, <2>3, <2>4
<1> QED BY <1>5, <1>6, <1>12, <1>13 DEF Takes

\* An access to a line that is not resident goes below when it does not allocate.
LEMMA BelowTakes ==
  ASSUME NEW cfg, Geometry(cfg), NEW s \in States(cfg), NEW A \in SUBSET Space,
         Coherent(s, A), NEW a \in Nat, NEW len \in Nat \ {0}, Within(s.c, a, len),
         ~Resident(s.c, a), NEW data \in Cells(len), NEW n, Obeys(s.n, n, a, len, data),
         NEW t, t = [s EXCEPT !.n = n]
  PROVE  Takes(cfg, s, t, A, a, len, data)
<1>1. t.c = s.c /\ t.n = n /\ s.c \in Levels(cfg)
  BY DEF States
<1>2. t \in States(cfg) /\ Grain(t.n) = Grain(s.n)
  BY <1>1 DEF States, Devs, Obeys
<1>3. Puts(s.n, n, A, a, len, data)
  BY DEF Obeys, Coherent
<1>4. ASSUME NEW b \in A
      PROVE  Holds(n, b) = IF b - a \in 0 .. len - 1 THEN data[b - a] ELSE Holds(s.n, b)
  BY <1>3 DEF Puts
<1>5. ASSUME NEW b \in A, b - a \in 0 .. len - 1
      PROVE  ~Resident(s.c, b)
  <2>1. PICK i \in 0 .. len - 1 : i = b - a
    BY <1>5
  <2>2. b = a + i
    BY <2>1 DEF Space
  <2> QED BY <1>1, <2>2, WithinFacts
<1>6. Clean(s.c, n, A)
  BY <1>4, <1>5 DEF Coherent, Clean, Resident
<1>7. Coherent(t, A)
  BY <1>1, <1>3, <1>6 DEF Coherent, Puts
<1> QED BY <1>1, <1>2, <1>4, <1>5, <1>7 DEF ViewAt, Takes

\* An access at a can go on from t as it could from s.
Prepared(cfg, s, t, a, A) == Harmless(cfg, s, t, A) /\ Resident(t.c, a)

Touched(cfg, s, t) ==
  /\ t \in States(cfg)
  /\ t.c.line = s.c.line
  /\ t.c.cfg = s.c.cfg
  /\ t.n = s.n

\* A hit renews its line and changes nothing else.
LEMMA TouchIs ==
  ASSUME NEW cfg, Geometry(cfg), NEW s \in States(cfg), NEW a \in Nat, Resident(s.c, a),
         NEW t, t = TouchAt(s, a)
  PROVE  Touched(cfg, s, t)
<1> DEFINE set == SetOf(s.c, a)
           w == WayOf(s.c, a)
           recs == [s.c.recency EXCEPT ![set] = Newest(s.c.recency[set], w, cfg.ways)]
           u == [s EXCEPT !.c.recency[set] = Newest(@, w, s.c.cfg.ways)]
<1>1. /\ s.c \in Levels(cfg)
      /\ s.c.cfg = cfg
      /\ s.c.recency \in PerWay(cfg, 0 .. cfg.ways - 1)
  BY StateFacts DEF Levels
<1>2. set \in 0 .. cfg.sets - 1 /\ w \in 0 .. cfg.ways - 1
  <2>1. set \in Sets(s.c) /\ w \in Ways(s.c)
    BY <1>1, AddressTypes, WayOfResident DEF Matching
  <2> QED BY <1>1, <2>1, LevelFacts
<1> HIDE DEF set, w
<1>3. recs \in PerWay(cfg, 0 .. cfg.ways - 1)
  BY <1>1, <1>2, RenewType
<1>4. u = [s EXCEPT !.c.recency = recs]
  BY <1>1 DEF States, Levels
<1> HIDE DEF recs, u
<1>5. u \in States(cfg) /\ u.c.line = s.c.line /\ u.c.cfg = s.c.cfg /\ u.n = s.n
  BY <1>1, <1>3, <1>4 DEF States, Levels
<1>6. t = u
  <2>1. t = CallHook(u, "onAccess")
    BY DEF TouchAt, TouchWay, u, set, w
  <2>2. u.c \in Levels(cfg)
    BY <1>5, StateFacts
  <2> QED BY <2>1, <2>2, NoHook
<1> QED BY <1>5, <1>6 DEF Touched

\* So the access can go on.
LEMMA TouchPrepares ==
  ASSUME NEW cfg, Geometry(cfg), NEW s \in States(cfg), NEW A \in SUBSET Space,
         Coherent(s, A), NEW a \in Nat, Resident(s.c, a), NEW t, t = TouchAt(s, a)
  PROVE  Prepared(cfg, s, t, a, A)
<1>1. t \in States(cfg) /\ t.c.line = s.c.line /\ t.c.cfg = s.c.cfg /\ t.n = s.n
  BY TouchIs DEF Touched
<1>2. (Coherent(s, A) <=> Coherent(t, A)) /\ SameView(s, t, A)
  BY <1>1, SameLines
<1>3. Resident(t.c, a)
  BY <1>1, SameCells
<1>4. Passed(s, t, A)
  BY <1>1 DEF Passed
<1> QED BY <1>1, <1>2, <1>3, <1>4 DEF Prepared, Harmless

\* So does a miss, which brings it in.
LEMMA FillPrepares ==
  ASSUME Device, NEW cfg, Geometry(cfg), NEW s \in States(cfg), NEW A \in SUBSET Space,
         Coherent(s, A), NEW a \in Space, ~Resident(s.c, a), NEW t, t = Fill(s, a)
  PROVE  Prepared(cfg, s, t, a, A)
BY FillCoherent DEF Prepared

\* The bytes of an access are there when its line is.
LEMMA PresentIs ==
  ASSUME NEW cfg, Geometry(cfg), NEW s \in States(cfg), NEW a \in Nat,
         NEW len \in Nat \ {0}, Within(s.c, a, len), Resident(s.c, a)
  PROVE  Present(s, a, len) = s
<1>1. IsHit(s.c, a, len)
  BY StateFacts, WithinHit
<1> QED BY <1>1, Zenon DEF Present, IsHit

\* What stays within a line of a level stays within one after any step.
LEMMA WithinStays ==
  ASSUME NEW cfg, NEW s \in States(cfg), NEW t \in States(cfg), NEW a, NEW len,
         Within(s.c, a, len)
  PROVE  Within(t.c, a, len)
<1>1. s.c.cfg = t.c.cfg
  BY StateFacts
<1> QED BY <1>1 DEF Within, Block

\* Either way an access of the processor finds its bytes.
Ready(s, a, len) ==
  IF IsHit(s.c, a, len) THEN TouchLines(s, a, len) ELSE BringInLines(s, a, len)

\* The line is there, and the view is as it was.
LEMMA ReadyPrepares ==
  ASSUME Device, NEW cfg, Geometry(cfg), NEW s \in States(cfg), NEW A \in SUBSET Space,
         Coherent(s, A), NEW a \in Nat, NEW len \in Nat \ {0}, a + len <= Extent,
         Within(s.c, a, len), NEW t, t = Ready(s, a, len)
  PROVE  Prepared(cfg, s, t, a, A) /\ Present(t, a, len) = t
<1>1. s.c \in Levels(cfg)
  BY StateFacts
<1>2. IsHit(s.c, a, len) <=> Resident(s.c, a)
  BY <1>1, WithinHit
<1>3. t = IF IsHit(s.c, a, len) THEN TouchAt(s, a) ELSE Fill(s, a)
  <2>1. ~Spans(s.c, a, len)
    BY WithinOneLine
  <2> QED BY <2>1, Zenon DEF Ready, TouchLines, BringInLines
<1>4. a \in Space
  BY StretchInSpace
<1>5. Prepared(cfg, s, t, a, A)
  BY <1>2, <1>3, <1>4, TouchPrepares, FillPrepares
<1>6. t \in States(cfg) /\ Within(t.c, a, len) /\ Resident(t.c, a)
  BY <1>5, WithinStays DEF Prepared, Harmless
<1> QED BY <1>5, <1>6, PresentIs

\* And so does one of the level above.
LEMMA ReachPrepares ==
  ASSUME Device, NEW cfg, Geometry(cfg), NEW s \in States(cfg), NEW A \in SUBSET Space,
         Coherent(s, A), NEW a \in Space, NEW t, t = Reach(s, a)
  PROVE  Prepared(cfg, s, t, a, A)
<1>1. a \in Nat
  BY DEF Space
<1> QED BY <1>1, TouchPrepares, FillPrepares DEF Reach

-----------------------------------------------------------------------------
(* Reading. *)

\* From s the operation answers with what can be seen.
Returns(cfg, s, t, data, A, a, len) ==
  /\ Harmless(cfg, s, t, A)
  /\ data \in Cells(len)
  /\ \A i \in 0 .. len - 1 : a + i \in A => data[i] = ViewAt(s, a + i)

\* The cells of a resident line, of an access prepared for.
LEMMA CellsReturn ==
  ASSUME Device, NEW cfg, Geometry(cfg), NEW s \in States(cfg), NEW A \in SUBSET Space,
         NEW a \in Nat, NEW len \in Nat \ {0}, a + len <= Extent, Within(s.c, a, len),
         NEW t, Prepared(cfg, s, t, a, A),
         NEW data, data = [i \in 0 .. len - 1 |-> Cell(t.c, a + i)]
  PROVE  Returns(cfg, s, t, data, A, a, len)
<1>1. /\ t \in States(cfg)
      /\ Within(t.c, a, len)
      /\ t.c \in Levels(cfg)
      /\ t.c.line \in [Sets(t.c) -> [Ways(t.c) -> Lines(cfg)]]
      /\ Offsets(t.c) = 0 .. cfg.size - 1
  BY WithinStays, StateFacts, LevelFacts DEF Prepared, Harmless
<1>2. ASSUME NEW i \in 0 .. len - 1
      PROVE  Resident(t.c, a + i) /\ Cell(t.c, a + i) \in Values
  <2> DEFINE x == a + i
  <2>1. x \in Nat
    OBVIOUS
  <2>2. Resident(t.c, x)
    BY <1>1, WithinFacts DEF Prepared
  <2> HIDE DEF x
  <2>3. WayOf(t.c, x) \in Ways(t.c) /\ SetOf(t.c, x) \in Sets(t.c) /\ Offset(t.c, x) \in Offsets(t.c)
    BY <1>1, <2>1, <2>2, WayOfResident, AddressTypes DEF Matching
  <2>4. t.c.line[SetOf(t.c, x)][WayOf(t.c, x)].data \in [0 .. cfg.size - 1 -> Values]
    BY <1>1, <2>3 DEF Lines
  <2>5. Cell(t.c, x) \in Values
    BY <1>1, <2>3, <2>4 DEF Cell
  <2> QED BY <2>2, <2>5 DEF x
<1>3. data \in Cells(len)
  BY <1>2 DEF Cells
<1>4. ASSUME NEW i \in 0 .. len - 1, a + i \in A
      PROVE  data[i] = ViewAt(s, a + i)
  BY <1>2, <1>4 DEF Prepared, Harmless, SameView, ViewAt
<1> QED BY <1>3, <1>4 DEF Returns, Prepared

\* A read of the processor returns what can be seen, and changes nothing.
LEMMA ReadReturns ==
  ASSUME Device, NEW cfg, Geometry(cfg), NEW s \in States(cfg), NEW A \in SUBSET Space,
         Coherent(s, A), NEW a \in Nat, NEW len \in Nat \ {0}, a + len <= Extent,
         Within(s.c, a, len), NEW r, r = ReadGeneric(s, a, len)
  PROVE  Returns(cfg, s, r.s, r.data, A, a, len)
<1> DEFINE t == Ready(s, a, len)
<1>1. Prepared(cfg, s, t, a, A) /\ Present(t, a, len) = t
  BY ReadyPrepares
<1>2. Ok(t)
  BY <1>1, StateOk DEF Prepared, Harmless
<1>3. r.s = t /\ r.data = [i \in 0 .. len - 1 |-> Cell(t.c, a + i)]
  BY <1>1, <1>2 DEF ReadGeneric, Ready
<1> HIDE DEF t
<1> QED BY <1>1, <1>3, CellsReturn

\* So does readLine.
LEMMA ReadLineReturns ==
  ASSUME Device, NEW cfg, Geometry(cfg), NEW s \in States(cfg), NEW A \in SUBSET Space,
         Coherent(s, A), NEW a \in Nat, NEW len \in Nat \ {0}, a + len <= Extent,
         Within(s.c, a, len), NEW r, r = ReadLine(s, a, len)
  PROVE  Returns(cfg, s, r.n, r.data, A, a, len)
<1> DEFINE t == Reach(s, a)
<1>1. a \in Space
  BY StretchInSpace
<1>2. Prepared(cfg, s, t, a, A)
  BY <1>1, ReachPrepares
<1>3. Ok(t)
  BY <1>2, StateOk DEF Prepared, Harmless
<1>4. r.n = t /\ r.data = [i \in 0 .. len - 1 |-> Cell(t.c, a + i)]
  BY <1>3 DEF ReadLine, LineOf
<1> HIDE DEF t
<1> QED BY <1>2, <1>4, CellsReturn

-----------------------------------------------------------------------------
(* Writing. *)

\* The bytes go into the line of a, and the device below becomes n.
PutOver(s, n, a, data, len) == [s EXCEPT !.c = PutBytes(@, a, data, len), !.n = n]

\* With what a write-through passes on.
LEMMA PutTakes ==
  ASSUME Device, NEW cfg, Geometry(cfg), NEW s \in States(cfg), NEW A \in SUBSET Space,
         Coherent(s, A), NEW a \in Nat, NEW len \in Nat \ {0}, a + len <= Extent,
         Within(s.c, a, len), Resident(s.c, a), NEW data \in Cells(len), NEW n,
         IF cfg.write = "WriteThrough" THEN Obeys(s.n, n, a, len, data) ELSE n = s.n,
         NEW t, t = PutOver(s, n, a, data, len)
  PROVE  Takes(cfg, s, t, A, a, len, data)
<1> DEFINE set == SetOf(s.c, a)
           w == WayOf(s.c, a)
           l == Stored(s.c, a, data, len)
           u == [s EXCEPT !.c.line[set][w] = l]
<1>1. /\ s.c \in Levels(cfg)
      /\ s.c.cfg = cfg
      /\ s.n \in Devs(cfg.size)
      /\ SetOf(s.c, a) \in Sets(s.c)
  BY StateFacts, AddressTypes DEF States
<1>2. w \in Ways(s.c) /\ l \in Lines(cfg) /\ Inside(cfg, set, l)
  BY <1>1, StoredType
<1>3. data \in [0 .. len - 1 -> Values]
  BY DEF Cells
<1>4. PutBytes(s.c, a, data, len) = [s.c EXCEPT !.line[set][w] = l]
  <2>1. PutsBytes(s.c, a, data, len)
    BY <1>1, <1>3, PutBytesWithin, Zenon
  <2> QED BY <2>1, Zenon DEF PutsBytes
<1> HIDE DEF l
<1>5. /\ u \in States(cfg)
      /\ u.c.line = [s.c.line EXCEPT ![set][w] = l]
      /\ u.n = s.n
  <2>1. set \in Sets(s.c)
    BY <1>1
  <2> HIDE DEF set, w
  <2>2. LineReplaced(cfg, s, u, set, w, l)
    BY <1>2, <2>1, LineUpdateType, Zenon
  <2> QED BY <2>2, Zenon DEF LineReplaced
<1>6. n \in Devs(cfg.size)
  BY <1>1 DEF Obeys, Devs
<1>7. t = [u EXCEPT !.n = n]
  <2>1. t = [s EXCEPT !.c = [s.c EXCEPT !.line[set][w] = l], !.n = n]
    BY <1>4, Zenon DEF PutOver
  <2> HIDE DEF set, w
  <2> QED BY <1>1, <2>1 DEF States, Levels
<1> HIDE DEF u
<1>8. t \in States(cfg) /\ t.n = n /\ t.c.line = [s.c.line EXCEPT ![set][w] = l]
  BY <1>5, <1>6, <1>7 DEF States
<1>9. t.c.line = [s.c.line EXCEPT ![set][w] = Stored(s.c, a, data, len)]
  BY <1>8 DEF l
<1> HIDE DEF set, w
<1> QED BY <1>8, <1>9, StoreTakes DEF set, w

\* A write of the processor that finds its line, or has brought it in.
LEMMA StoreInTakes ==
  ASSUME Device, NEW cfg, Geometry(cfg), NEW s \in States(cfg), NEW A \in SUBSET Space,
         Coherent(s, A), NEW a \in Nat, NEW len \in Nat \ {0}, a + len <= Usable,
         Within(s.c, a, len), Resident(s.c, a), NEW data \in Cells(len),
         NEW t, t = Store(s, a, data, len)
  PROVE  Takes(cfg, s, t, A, a, len, data)
<1> DEFINE n == IF cfg.write = "WriteThrough" THEN NextWrite(s.n, a, data) ELSE s.n
<1>1. /\ s.c.cfg = cfg
      /\ s.n \in Devs(cfg.size)
      /\ s.n \in Dev
      /\ s.c \in Levels(cfg)
      /\ a + len <= Extent
  BY StateFacts, SpaceFacts DEF States
<1>2. Present(s, a, len) = s /\ Ok(s)
  BY PresentIs, StateOk
<1>3. t = PutOver(s, n, a, data, len)
  BY <1>1, <1>2 DEF Store, PutOver, States
<1>4. Chunk(s.n, a, len)
  BY <1>1, WithinChunk
<1>5. IF cfg.write = "WriteThrough" THEN Obeys(s.n, n, a, len, data) ELSE n = s.n
  BY <1>1, <1>4, DeviceObeys DEF Piece
<1> HIDE DEF n
<1> QED BY <1>1, <1>3, <1>5, PutTakes

\* A write of the processor changes the cells it names and no others.
LEMMA WriteTakes ==
  ASSUME Device, NEW cfg, Geometry(cfg), NEW s \in States(cfg), NEW A \in SUBSET Space,
         Coherent(s, A), NEW a \in Nat, NEW len \in Nat \ {0}, a + len <= Usable,
         Within(s.c, a, len), NEW data \in Cells(len),
         NEW t, t = WriteGeneric(s, a, data, len)
  PROVE  Takes(cfg, s, t, A, a, len, data)
<1> DEFINE u == Ready(s, a, len)
           n == NextWrite(s.n, a, data)
<1>1. /\ s.n \in Devs(cfg.size)
      /\ s.n \in Dev
      /\ s.c \in Levels(cfg)
      /\ a + len <= Extent
  BY StateFacts, SpaceFacts DEF States
<1>2. IsHit(s.c, a, len) <=> Resident(s.c, a)
  BY <1>1, WithinHit
<1>3. CASE ~IsHit(s.c, a, len) /\ s.c.cfg.alloc = "NoWriteAllocate"
  <2>1. t = [s EXCEPT !.n = n]
    BY <1>3 DEF WriteGeneric
  <2>2. Chunk(s.n, a, len)
    BY <1>1, WithinChunk
  <2>3. Obeys(s.n, n, a, len, data)
    BY <1>1, <2>2, DeviceObeys DEF Piece
  <2> HIDE DEF n
  <2> QED BY <1>2, <1>3, <2>1, <2>3, BelowTakes
<1>4. CASE IsHit(s.c, a, len) \/ s.c.cfg.alloc # "NoWriteAllocate"
  <2>1. t = Store(u, a, data, len)
    BY <1>4, Zenon DEF WriteGeneric, Ready
  <2>2. Prepared(cfg, s, u, a, A)
    BY <1>1, ReadyPrepares
  <2> HIDE DEF u
  <2>3. /\ Harmless(cfg, s, u, A)
        /\ u \in States(cfg)
        /\ Coherent(u, A)
        /\ Resident(u.c, a)
        /\ Within(u.c, a, len)
    BY <2>2, WithinStays DEF Prepared, Harmless
  <2>4. Takes(cfg, u, t, A, a, len, data)
    BY <2>1, <2>3, StoreInTakes
  <2> QED BY <2>3, <2>4, HarmlessTakes
<1> QED BY <1>3, <1>4

\* putLine, of a line that is there.
LEMMA PutLineTakes ==
  ASSUME Device, NEW cfg, Geometry(cfg), NEW s \in States(cfg), NEW A \in SUBSET Space,
         Coherent(s, A), NEW a \in Nat, NEW len \in Nat \ {0}, a + len <= Extent,
         Within(s.c, a, len), Resident(s.c, a), NEW data \in Cells(len),
         NEW t, t = PutLine(s, a, data, len)
  PROVE  Takes(cfg, s, t, A, a, len, data)
<1> DEFINE n == IF cfg.write = "WriteThrough" THEN NextWriteLine(s.n, a, data) ELSE s.n
<1>1. /\ s.c.cfg = cfg
      /\ s.n \in Devs(cfg.size)
      /\ s.n \in Dev
      /\ s.c \in Levels(cfg)
  BY StateFacts DEF States
<1>2. Ok(s)
  BY StateOk
<1>3. t = PutOver(s, n, a, data, len)
  BY <1>1, <1>2 DEF PutLine, PutOver, States
<1>4. Chunk(s.n, a, len)
  BY <1>1, WithinChunk
<1>5. IF cfg.write = "WriteThrough" THEN Obeys(s.n, n, a, len, data) ELSE n = s.n
  BY <1>1, <1>4, DeviceObeysLine
<1> HIDE DEF n
<1> QED BY <1>3, <1>5, PutTakes

\* writeLine changes the cells of the line and no others.
LEMMA WriteLineTakes ==
  ASSUME Device, NEW cfg, Geometry(cfg), NEW s \in States(cfg), NEW A \in SUBSET Space,
         Coherent(s, A), NEW a \in Nat, NEW len \in Nat \ {0}, a + len <= Extent,
         Within(s.c, a, len), NEW data \in Cells(len),
         NEW t, t = WriteLine(s, a, data, len)
  PROVE  Takes(cfg, s, t, A, a, len, data)
<1> DEFINE u == Reach(s, a)
           n == NextWriteLine(s.n, a, data)
<1>1. /\ s.n \in Devs(cfg.size)
      /\ s.n \in Dev
      /\ s.c \in Levels(cfg)
      /\ a \in Space
  BY StateFacts, StretchInSpace DEF States
<1>2. CASE ~Resident(s.c, a) /\ s.c.cfg.alloc = "NoWriteAllocate"
  <2>1. t = [s EXCEPT !.n = n]
    BY <1>2 DEF WriteLine
  <2>2. Chunk(s.n, a, len)
    BY <1>1, WithinChunk
  <2>3. Obeys(s.n, n, a, len, data)
    BY <1>1, <2>2, DeviceObeysLine
  <2> HIDE DEF n
  <2> QED BY <1>2, <2>1, <2>3, BelowTakes
<1>3. CASE ~(~Resident(s.c, a) /\ s.c.cfg.alloc = "NoWriteAllocate")
  <2>1. t = PutLine(u, a, data, len)
    BY <1>3, Zenon DEF WriteLine
  <2>2. Prepared(cfg, s, u, a, A)
    BY <1>1, ReachPrepares
  <2> HIDE DEF u
  <2>3. /\ Harmless(cfg, s, u, A)
        /\ u \in States(cfg)
        /\ Coherent(u, A)
        /\ Resident(u.c, a)
        /\ Within(u.c, a, len)
    BY <2>2, WithinStays DEF Prepared, Harmless
  <2>4. Takes(cfg, u, t, A, a, len, data)
    BY <2>1, <2>3, PutLineTakes
  <2> QED BY <2>3, <2>4, HarmlessTakes
<1> QED BY <1>2, <1>3

-----------------------------------------------------------------------------
(* Levels that hold nothing dirty, and emptying. *)

\* No line is valid or dirty.
Empty(c) == \A set \in Sets(c), w \in Ways(c) :
              ~c.line[set][w].valid /\ ~c.line[set][w].dirty

\* A level without valid lines shows what the device holds.
LEMMA EmptyCoherent ==
  ASSUME NEW cfg, Geometry(cfg), NEW s, s.c \in Levels(cfg), NEW A \in SUBSET Space,
         Empty(s.c), Sound(s.n, A)
  PROVE  /\ Coherent(s, A)
         /\ \A a \in A : ViewAt(s, a) = Holds(s.n, a)
<1>1. ASSUME NEW a \in A
      PROVE  Matching(s.c, SetOf(s.c, a), Tag(s.c, a)) = {}
  <2>1. SetOf(s.c, a) \in Sets(s.c)
    BY AddressTypes DEF Space
  <2> QED BY <2>1 DEF Matching, Empty
<1>2. Unique(s.c) /\ DirtyWriteBack(s.c)
  BY DEF Unique, DirtyWriteBack, Empty
<1>3. Clean(s.c, s.n, A)
  BY <1>1, Zenon DEF Clean
<1> QED BY <1>1, <1>2, <1>3 DEF Coherent, ViewAt, Resident

\* A fresh level is one, with no valid line.
LEMMA SetupIs ==
  ASSUME NEW cfg, Geometry(cfg), 0 \in Values
  PROVE  Setup(cfg) \in Levels(cfg) /\ Empty(Setup(cfg))
<1>1. cfg.size \in Nat \ {0} /\ cfg.ways \in Nat \ {0}
  BY GeometryFacts
<1> DEFINE e == EmptyLine(cfg)
<1>2. e \in Lines(cfg) /\ ~e.valid /\ ~e.dirty
  BY DEF EmptyLine, Lines
<1> HIDE DEF e
<1> DEFINE lines == [set \in 0 .. cfg.sets - 1 |-> [w \in 0 .. cfg.ways - 1 |-> e]]
<1>3. lines \in Tables(cfg)
  BY <1>2 DEF Tables, PerWay, Inside
<1>4. Ranks(cfg) \in PerWay(cfg, 0 .. cfg.ways - 1)
  BY DEF Ranks, PerWay
<1>5. Setup(cfg) = [cfg |-> cfg, line |-> lines, recency |-> Ranks(cfg),
                    arrival |-> Ranks(cfg), path |-> "none", loaded |-> FALSE]
  BY Zenon DEF Setup, e
<1>6. \A set \in 0 .. cfg.sets - 1, w \in 0 .. cfg.ways - 1 : lines[set][w] = e
  OBVIOUS
<1> HIDE DEF lines
<1>7. Setup(cfg) \in Levels(cfg)
  BY <1>3, <1>4, <1>5 DEF Levels
<1>8. Empty(Setup(cfg))
  BY <1>2, <1>5, <1>6 DEF Empty, Sets, Ways
<1> QED BY <1>7, <1>8

\* So is an emptied one.
LEMMA ResetIs ==
  ASSUME NEW cfg, Geometry(cfg), 0 \in Values, NEW c \in Levels(cfg)
  PROVE  Reset(c) \in Levels(cfg) /\ Empty(Reset(c))
<1>1. c.cfg = cfg /\ Setup(cfg) \in Levels(cfg) /\ Empty(Setup(cfg))
  BY LevelFacts, SetupIs
<1>2. Reset(c) = [c EXCEPT !.line = Setup(cfg).line, !.recency = Ranks(cfg),
                           !.arrival = Ranks(cfg)]
  BY <1>1 DEF Reset
<1>3. Setup(cfg).recency = Ranks(cfg) /\ Setup(cfg).arrival = Ranks(cfg)
  BY DEF Setup
<1>4. Reset(c) \in Levels(cfg) /\ Reset(c).line = Setup(cfg).line /\ Reset(c).cfg = cfg
  BY <1>1, <1>2, <1>3 DEF Levels
<1>5. Setup(cfg).cfg = cfg
  BY DEF Setup
<1> QED BY <1>1, <1>4, <1>5 DEF Empty, Sets, Ways

\* No line is dirty.
AllClean(c) == \A set \in Sets(c), w \in Ways(c) :
                 c.line[set][w].valid => ~c.line[set][w].dirty

\* Then the device holds what can be seen.
LEMMA CleanShows ==
  ASSUME NEW cfg, Geometry(cfg), NEW s \in States(cfg), NEW A \in SUBSET Space,
         Coherent(s, A), AllClean(s.c), NEW a \in A
  PROVE  ViewAt(s, a) = Holds(s.n, a)
<1> DEFINE M == Matching(s.c, SetOf(s.c, a), Tag(s.c, a))
<1>1. /\ \A v \in M : ViewAt(s, a) = s.c.line[SetOf(s.c, a)][v].data[Offset(s.c, a)]
      /\ M = {} => ViewAt(s, a) = Holds(s.n, a)
  BY ViewOfWay DEF Coherent
<1>2. SetOf(s.c, a) \in Sets(s.c)
  BY StateFacts, AddressTypes DEF Space
<1>3. \A v \in M : s.c.line[SetOf(s.c, a)][v].data[Offset(s.c, a)] = Holds(s.n, a)
  BY <1>2 DEF Matching, AllClean, Coherent, Clean
<1> QED BY <1>1, <1>3

\* From s to t the level is new and empty, and what can be seen stays.
Emptied(s, t, A) ==
  /\ Grain(t.n) = Grain(s.n)
  /\ Empty(t.c)
  /\ Coherent(t, A)
  /\ SameView(s, t, A)

\* A clean level can be replaced by any empty one.
LEMMA RenewedShows ==
  ASSUME NEW cfg, Geometry(cfg), NEW s \in States(cfg), NEW A \in SUBSET Space,
         Coherent(s, A), AllClean(s.c), NEW new, Geometry(new), Grain(s.n) % new.size = 0,
         NEW d \in Levels(new), Empty(d), NEW t, t = [s EXCEPT !.c = d]
  PROVE  t \in States(new) /\ Emptied(s, t, A)
<1>1. t \in States(new) /\ t.c = d /\ t.n = s.n
  BY DEF States, Devs
<1>2. Sound(t.n, A)
  BY <1>1 DEF Coherent
<1>3. Coherent(t, A) /\ \A a \in A : ViewAt(t, a) = Holds(t.n, a)
  BY <1>1, <1>2, EmptyCoherent
<1>4. \A a \in A : ViewAt(s, a) = Holds(s.n, a)
  BY CleanShows
<1> QED BY <1>1, <1>3, <1>4 DEF Emptied, SameView

-----------------------------------------------------------------------------
(* Flushing and reconfiguring. *)

CleanAt(c, set, w) == c.line[set][w].valid => ~c.line[set][w].dirty

\* The line in a way is clean from now on, and no other becomes dirty.
CleanedOne(s, t, set, w) ==
  /\ CleanAt(t.c, set, w)
  /\ \A x \in Sets(s.c), v \in Ways(s.c) : CleanAt(s.c, x, v) => CleanAt(t.c, x, v)

\* So does a write-back.
LEMMA WriteBackCleans ==
  ASSUME Device, NEW cfg, Geometry(cfg), NEW s \in States(cfg),
         NEW set \in Sets(s.c), NEW w \in Ways(s.c), NEW t, t = WriteBack(s, set, w)
  PROVE  CleanedOne(s, t, set, w)
<1> DEFINE k == s.c.line[set][w]
<1>1. CASE ~(k.valid /\ k.dirty)
  <2>1. t = s
    BY <1>1, Zenon DEF WriteBack
  <2> QED BY <1>1, <2>1, Zenon DEF CleanedOne, CleanAt
<1>2. CASE k.valid /\ k.dirty
  <2>1. WroteBack(cfg, s, t, set, w, k)
    BY <1>2, WriteBackIs, Zenon
  <2>2. s.c.line \in [Sets(s.c) -> [Ways(s.c) -> Lines(cfg)]]
    BY StateFacts, LevelFacts
  <2>3. Cleaned(k).dirty = FALSE
    BY <2>2 DEF Cleaned, Lines
  <2> DEFINE l == Cleaned(k)
  <2>4. t.c.line = [s.c.line EXCEPT ![set][w] = l]
    BY <2>1, Zenon DEF WroteBack
  <2> HIDE DEF l, k
  <2>5. \A x \in Sets(s.c), v \in Ways(s.c) :
           t.c.line[x][v] = IF x = set /\ v = w THEN l ELSE s.c.line[x][v]
    BY <2>2, <2>4
  <2>6. l.dirty = FALSE
    BY <2>3 DEF l
  <2> QED BY <2>5, <2>6, Zenon DEF CleanedOne, CleanAt
<1> QED BY <1>1, <1>2

\* The order of flush reaches every way of every set, and nothing else.
LEMMA WaysInOrder ==
  ASSUME NEW sets \in Nat \ {0}, NEW ways \in Nat \ {0}
  PROVE  /\ sets * ways \in Nat
         /\ \A i \in 1 .. sets * ways :
              (i - 1) \div ways \in 0 .. sets - 1 /\ (i - 1) % ways \in 0 .. ways - 1
         /\ \A x \in 0 .. sets - 1, v \in 0 .. ways - 1 :
              \E i \in 1 .. sets * ways : (i - 1) \div ways = x /\ (i - 1) % ways = v
<1>1. sets * ways \in Nat /\ ways * sets = sets * ways
  OBVIOUS
<1>2. ASSUME NEW i \in 1 .. sets * ways
      PROVE  (i - 1) \div ways \in 0 .. sets - 1 /\ (i - 1) % ways \in 0 .. ways - 1
  <2> DEFINE x == i - 1
             q == x \div ways
             r == x % ways
  <2>1. x \in Nat /\ x < sets * ways
    BY <1>1
  <2> HIDE DEF x
  <2>2. q \in Nat /\ r \in 0 .. ways - 1 /\ x = ways * q + r
    BY <2>1, DivMod, Zenon
  <2> HIDE DEF q, r
  <2>3. q < sets
    <3>1. sets < q => ways * sets + ways <= ways * q
      BY <2>2, SmallerProduct
    <3>2. ways * q \in Nat /\ ways * sets \in Nat
      BY <2>2
    <3>3. q = sets => ways * q = ways * sets
      OBVIOUS
    <3> QED BY <1>1, <2>1, <2>2, <3>1, <3>2, <3>3
  <2>4. q \in 0 .. sets - 1
    BY <2>2, <2>3
  <2> QED BY <2>2, <2>4 DEF q, r, x
<1>3. ASSUME NEW x \in 0 .. sets - 1, NEW v \in 0 .. ways - 1
      PROVE  \E i \in 1 .. sets * ways : (i - 1) \div ways = x /\ (i - 1) % ways = v
  <2> DEFINE p == ways * x
             i == p + v + 1
  <2>1. p \in Nat /\ x \in Nat /\ v \in Nat
    OBVIOUS
  <2>2. p + ways <= ways * sets
    BY SmallerProduct
  <2>3. (p + v) \div ways = x /\ (p + v) % ways = v
    BY DivModUnique, <2>1
  <2> HIDE DEF p
  <2>4. i \in 1 .. sets * ways /\ i - 1 = p + v
    BY <1>1, <2>1, <2>2
  <2> HIDE DEF i
  <2>5. (i - 1) \div ways = x /\ (i - 1) % ways = v
    BY <2>3, <2>4, Zenon
  <2> QED BY <2>4, <2>5
<1> QED BY <1>1, <1>2, <1>3

\* Induction over the natural numbers, for a set of them.
LEMMA Induction ==
  ASSUME NEW S, 0 \in S, \A n \in Nat : n \in S => n + 1 \in S
  PROVE  \A n \in Nat : n \in S
<1> DEFINE R == Nat \ S
<1> SUFFICES ASSUME R # {} PROVE FALSE
  OBVIOUS
<1>1. R \in SUBSET Nat
  OBVIOUS
<1> DEFINE x == Least(R)
<1>2. x \in R /\ \A y \in R : x <= y
  BY <1>1, LeastIsLeast
<1> HIDE DEF x
<1>3. x - 1 \in Nat /\ (x - 1) + 1 = x
  BY <1>2
<1>4. x - 1 \notin S
  BY <1>2, <1>3
<1>5. ~(x <= x - 1)
  BY <1>3
<1> QED BY <1>2, <1>3, <1>4, <1>5

\* The states of a flush, which writes one way back after the other.
Flushes(cfg, s, f) ==
  /\ f[0] = s
  /\ \A i \in 1 .. cfg.sets * cfg.ways :
       f[i] = WriteBack(f[i - 1], (i - 1) \div cfg.ways, (i - 1) % cfg.ways)

\* Its last state shows the same, and no line of it is dirty.
LEMMA FlushCleans ==
  ASSUME Device, NEW cfg, Geometry(cfg), NEW s \in States(cfg), NEW A \in SUBSET Space,
         Coherent(s, A), NEW f, Flushes(cfg, s, f),
         NEW t, t = f[cfg.sets * cfg.ways]
  PROVE  Harmless(cfg, s, t, A) /\ AllClean(t.c)
<1> DEFINE n == cfg.sets * cfg.ways
           X(i) == (i - 1) \div cfg.ways
           V(i) == (i - 1) % cfg.ways
           Good(i) == /\ Harmless(cfg, s, f[i], A)
                      /\ \A j \in 1 .. i : CleanAt(f[i].c, X(j), V(j))
           S == {i \in Nat : i <= n => Good(i)}
<1>1. cfg.sets \in Nat \ {0} /\ cfg.ways \in Nat \ {0}
  BY GeometryFacts
<1>2. /\ n \in Nat
      /\ \A i \in 1 .. n : X(i) \in 0 .. cfg.sets - 1 /\ V(i) \in 0 .. cfg.ways - 1
      /\ \A x \in 0 .. cfg.sets - 1, v \in 0 .. cfg.ways - 1 : \E i \in 1 .. n : X(i) = x /\ V(i) = v
  BY <1>1, WaysInOrder
<1>3. f[0] = s /\ \A i \in 1 .. n : f[i] = WriteBack(f[i - 1], X(i), V(i))
  BY DEF Flushes
<1> HIDE DEF n, X, V
<1>4. 0 \in S
  <2>1. Harmless(cfg, s, f[0], A)
    BY <1>3, HarmlessIdle
  <2> QED BY <2>1
<1>5. ASSUME NEW m \in Nat, m \in S PROVE m + 1 \in S
  <2> SUFFICES ASSUME m + 1 <= n PROVE Good(m + 1)
    OBVIOUS
  <2> DEFINE i == m + 1
             u == f[m]
             v == f[i]
  <2>1. i \in 1 .. n /\ i - 1 = m /\ m <= n
    BY <1>2
  <2>2. /\ X(i) \in 0 .. cfg.sets - 1
        /\ V(i) \in 0 .. cfg.ways - 1
        /\ v = WriteBack(u, X(i), V(i))
    BY <1>2, <1>3, <2>1
  <2>3. Good(m)
    BY <1>5, <2>1
  <2>4. /\ Harmless(cfg, s, u, A)
        /\ u \in States(cfg)
        /\ Coherent(u, A)
        /\ \A j \in 1 .. m : CleanAt(u.c, X(j), V(j))
    BY <2>3 DEF Harmless
  <2>5. X(i) \in Sets(u.c) /\ V(i) \in Ways(u.c) /\ Sets(u.c) = 0 .. cfg.sets - 1 /\ Ways(u.c) = 0 .. cfg.ways - 1
    <3>1. u.c \in Levels(cfg)
      BY <2>4, StateFacts, Zenon
    <3>2. Sets(u.c) = 0 .. cfg.sets - 1 /\ Ways(u.c) = 0 .. cfg.ways - 1
      BY <3>1, LevelFacts, Zenon
    <3> QED BY <2>2, <3>2, Zenon
  <2> HIDE DEF u, v
  <2> DEFINE x == X(i)
             y == V(i)
  <2>6. x \in Sets(u.c) /\ y \in Ways(u.c) /\ v = WriteBack(u, x, y)
    BY <2>2, <2>5
  <2> HIDE DEF x, y
  <2>7. /\ v \in States(cfg)
        /\ Grain(v.n) = Grain(u.n)
        /\ Coherent(v, A)
        /\ SameView(u, v, A)
        /\ Passed(u, v, A)
    BY <2>4, <2>6, WriteBackCoherent
  <2>8. CleanedOne(u, v, x, y)
    BY <2>4, <2>6, WriteBackCleans, Zenon
  <2>9. Harmless(cfg, s, v, A)
    <3>1. Harmless(cfg, u, v, A)
      BY <2>7 DEF Harmless
    <3> QED BY <2>4, <3>1, HarmlessTransitive
  <2>10. ASSUME NEW j \in 1 .. i PROVE CleanAt(v.c, X(j), V(j))
    <3>1. CASE j = i
      BY <2>8, <3>1, Zenon DEF CleanedOne, x, y
    <3>2. CASE j # i
      <4>1. j \in 1 .. m /\ j \in 1 .. n
        BY <1>2, <2>1, <3>2
      <4>2. X(j) \in Sets(u.c) /\ V(j) \in Ways(u.c)
        BY <1>2, <2>5, <4>1
      <4> QED BY <2>4, <2>8, <4>1, <4>2, Zenon DEF CleanedOne
    <3> QED BY <3>1, <3>2
  <2> QED BY <2>9, <2>10 DEF v
<1>6. n \in S
  <2> HIDE DEF S
  <2> QED BY <1>2, <1>4, <1>5, Induction
<1>7. Good(n) /\ t = f[n]
  BY <1>2, <1>6 DEF n
<1>8. Sets(t.c) = 0 .. cfg.sets - 1 /\ Ways(t.c) = 0 .. cfg.ways - 1
  BY <1>7, StateFacts, LevelFacts DEF Harmless
<1>9. AllClean(t.c)
  <2> SUFFICES ASSUME NEW x \in 0 .. cfg.sets - 1, NEW v \in 0 .. cfg.ways - 1
               PROVE  CleanAt(t.c, x, v)
    BY <1>8, Zenon DEF AllClean, CleanAt
  <2>1. PICK i \in 1 .. n : X(i) = x /\ V(i) = v
    BY <1>2
  <2> QED BY <1>7, <2>1, Zenon
<1> QED BY <1>7, <1>9

\* What reconfigure makes of a reset level.
Refitted(t, u, new) == u = [t EXCEPT !.c = Setup(new)]

\* It is that: an empty level in the new settings.
LEMMA ReconfigureIs ==
  ASSUME Device, NEW cfg, Geometry(cfg), NEW t \in States(cfg), NEW new, Geometry(new),
         NEW u, u = Reconfigure([t EXCEPT !.c = Reset(t.c)], new)
  PROVE  Refitted(t, u, new)
<1>1. 0 \in Values /\ t.c \in Levels(cfg)
  BY SpaceFacts, StateFacts
<1> DEFINE r == [t EXCEPT !.c = Reset(t.c)]
           d == Setup(new)
<1>2. r \in States(cfg) /\ r.n = t.n
  <2>1. Reset(t.c) \in Levels(cfg)
    BY <1>1, ResetIs
  <2> QED BY <1>1, <2>1 DEF States
<1>3. Ok(r) /\ new.repl # "Custom" /\ r.c.path = "none"
  <2>1. new.repl # "Custom"
    BY GeometryFacts
  <2> HIDE DEF r
  <2> QED BY <1>2, <2>1, StateOk DEF States, Levels
<1>4. u = [r EXCEPT !.c = [Setup(new) EXCEPT !.path = "none", !.loaded = FALSE]]
  <2> HIDE DEF r
  <2>1. u = Reconfigure(r, new)
    BY DEF r
  <2>2. (new.repl = "Custom" /\ r.c.path = "good") = FALSE
    BY <1>3
  <2> QED BY <1>3, <2>1, <2>2 DEF Reconfigure
<1>5. [Setup(new) EXCEPT !.path = "none", !.loaded = FALSE] = d
  <2>1. d \in Levels(new)
    BY <1>1, SetupIs
  <2> HIDE DEF d
  <2>2. [d EXCEPT !.path = "none", !.loaded = FALSE] = d
    BY <2>1 DEF Levels
  <2> QED BY <2>2 DEF d
<1>6. u = [t EXCEPT !.c = d]
  <2> HIDE DEF d
  <2>1. u = [r EXCEPT !.c = d]
    BY <1>4, <1>5
  <2> QED BY <2>1, <1>1 DEF States
<1> QED BY <1>6 DEF Refitted, d

\* A flushed level becomes an empty one of the new settings.
Renewed(cfg, s, t, A) == t \in States(cfg) /\ t.c = Setup(cfg) /\ Emptied(s, t, A)

\* Reconfiguring shows what was there before.
LEMMA ReconfigureShows ==
  ASSUME Device, NEW cfg, Geometry(cfg), NEW s \in States(cfg), NEW A \in SUBSET Space,
         NEW t, Harmless(cfg, s, t, A), AllClean(t.c), NEW new, Geometry(new),
         Grain(s.n) % new.size = 0, NEW u, u = Reconfigure([t EXCEPT !.c = Reset(t.c)], new)
  PROVE  Renewed(new, s, u, A)
<1>1. /\ t \in States(cfg) /\ Coherent(t, A) /\ Grain(t.n) = Grain(s.n) /\ SameView(s, t, A)
      /\ 0 \in Values
  BY SpaceFacts DEF Harmless
<1> DEFINE d == Setup(new)
<1>2. d \in Levels(new) /\ Empty(d)
  BY <1>1, SetupIs
<1>3. Refitted(t, u, new)
  BY <1>1, ReconfigureIs, Zenon
<1>4. u = [t EXCEPT !.c = d]
  BY <1>3, Zenon DEF Refitted
<1> HIDE DEF d
<1>5. u \in States(new) /\ Emptied(t, u, A)
  BY <1>1, <1>2, <1>4, RenewedShows
<1>6. u.c = d
  BY <1>1, <1>4 DEF States
<1>7. Emptied(s, u, A)
  BY <1>1, <1>5, Zenon DEF Emptied, SameView
<1> QED BY <1>5, <1>6, <1>7 DEF Renewed, d

-----------------------------------------------------------------------------
(* Levels that are never written to. *)

\* Evicting from a clean level does not reach the device.
LEMMA EvictClean ==
  ASSUME Device, NEW cfg, Geometry(cfg), NEW s \in States(cfg), AllClean(s.c),
         NEW set \in Sets(s.c), NEW t, t = Evict(s, set)
  PROVE  t.n = s.n /\ AllClean(t.c)
<1> DEFINE w == EvictWay(s, set)
<1>1. w \in Ways(s.c)
  BY EvictWayIs
<1> HIDE DEF w
<1>2. WriteBack(s, set, w) = s
  BY <1>1, Zenon DEF AllClean, WriteBack
<1>3. Ok(s)
  BY StateOk
<1>4. t = s \/ t = [s EXCEPT !.c.line[set][w].valid = FALSE]
  BY <1>1, <1>2, <1>3, Zenon DEF Evict, w
<1>5. CASE t = s
  BY <1>5
<1>6. CASE t = [s EXCEPT !.c.line[set][w].valid = FALSE]
  <2>1. s.c \in Levels(cfg) /\ s.c.line \in [Sets(s.c) -> [Ways(s.c) -> Lines(cfg)]]
    BY StateFacts, LevelFacts
  <2>2. t.n = s.n /\ t.c.cfg = s.c.cfg
    BY <1>6 DEF States, Levels
  <2> DEFINE l == [s.c.line[set][w] EXCEPT !.valid = FALSE]
  <2>3. t.c.line = [s.c.line EXCEPT ![set][w] = l]
    BY <1>6 DEF States, Levels
  <2>4. l.valid = FALSE
    BY <1>1, <2>1 DEF Lines
  <2> HIDE DEF l
  <2>5. \A x \in Sets(s.c), v \in Ways(s.c) :
           t.c.line[x][v] = IF x = set /\ v = w THEN l ELSE s.c.line[x][v]
    BY <1>1, <2>1, <2>3
  <2>6. Sets(t.c) = Sets(s.c) /\ Ways(t.c) = Ways(s.c)
    BY <2>2 DEF Sets, Ways
  <2>7. AllClean(t.c)
    <3> SUFFICES ASSUME NEW x \in Sets(s.c), NEW v \in Ways(s.c)
                 PROVE  t.c.line[x][v].valid => ~t.c.line[x][v].dirty
      BY <2>6, Zenon DEF AllClean
    <3>3. CASE x = set /\ v = w
      <4>1. ~l.valid
        BY <2>4
      <4> QED BY <2>5, <3>3, <4>1, Zenon
    <3>4. CASE ~(x = set /\ v = w)
      BY <2>5, <3>4, Zenon DEF AllClean
    <3> QED BY <3>3, <3>4
  <2> QED BY <2>2, <2>7
<1> QED BY <1>4, <1>5, <1>6

\* From s to t the level has at most read from the device, and stays clean.
OnlyReads(s, t) ==
  /\ AllClean(t.c)
  /\ t.n \in Dev
  /\ Grain(t.n) = Grain(s.n)
  /\ \A B \in SUBSET Space : Sound(s.n, B) => Keeps(s.n, t.n, B)

\* A miss of a clean level.
LEMMA FillClean ==
  ASSUME Device, NEW cfg, Geometry(cfg), NEW s \in States(cfg), AllClean(s.c),
         Coherent(s, {}), NEW a \in Space, ~Resident(s.c, a), NEW t, t = Fill(s, a)
  PROVE  OnlyReads(s, t)
<1> DEFINE set == SetOf(s.c, a)
           w == EvictWay(s, set)
           u == Evict(s, set)
<1>1. s.c \in Levels(cfg) /\ a \in Nat
  BY StateFacts DEF Space
<1>2. set \in Sets(s.c)
  BY <1>1, AddressTypes
<1>3. w \in Ways(s.c)
  BY <1>2, EvictWayIs
<1>4. u.n = s.n /\ AllClean(u.c)
  BY <1>2, EvictClean
<1>5. u \in States(cfg)
  <2>1. {} \in SUBSET Space
    OBVIOUS
  <2> QED BY <1>2, <2>1, EvictCoherent DEF Harmless
<1>6. t = BringIn(u, a, w)
  <2>1. Ok(u)
    BY <1>5, StateOk
  <2> QED BY <2>1, Zenon DEF Fill
<1> HIDE DEF u, w, set
<1> DEFINE f == Fetched(u, a)
           l == FetchedLine(u, a)
           d == WithLine(u.c, SetOf(u.c, a), w, l)
<1>7. /\ Answers(u.n, f, Aligned(u.c, a), cfg.size)
      /\ f.n \in Devs(cfg.size)
      /\ Grain(f.n) = Grain(u.n)
      /\ l \in Lines(cfg)
      /\ Inside(cfg, SetOf(u.c, a), l)
  BY <1>5, FetchedFacts
<1>8. /\ u.c \in Levels(cfg)
      /\ SetOf(u.c, a) \in Sets(u.c)
      /\ Sets(u.c) = Sets(s.c)
      /\ Ways(u.c) = Ways(s.c)
  <2>1. u.c \in Levels(cfg)
    BY <1>5, StateFacts
  <2>2. SetOf(u.c, a) \in Sets(u.c)
    BY <1>1, <2>1, AddressTypes
  <2>3. u.c.cfg = cfg /\ s.c.cfg = cfg
    BY <1>1, <2>1, LevelFacts, SMTT(30)
  <2> QED BY <2>1, <2>2, <2>3, Zenon DEF Sets, Ways
<1>9. d \in Levels(cfg) /\ d.line = [u.c.line EXCEPT ![SetOf(u.c, a)][w] = l]
  <2> HIDE DEF l
  <2>1. /\ u.c \in Levels(cfg) /\ SetOf(u.c, a) \in Sets(u.c) /\ w \in Ways(u.c)
        /\ l \in Lines(cfg) /\ Inside(cfg, SetOf(u.c, a), l)
    BY <1>3, <1>7, <1>8, Zenon
  <2>2. Geometry(cfg)
    OBVIOUS
  <2>3. d = WithLine(u.c, SetOf(u.c, a), w, l)
    OBVIOUS
  <2> HIDE DEF d
  <2> QED BY <2>1, <2>2, <2>3, WithLineType, SMTT(60)
<1>10. t = [u EXCEPT !.n = f.n, !.c = d]
  <2>1. BringsIn(u, a, w, d)
    <3>1. Fetched(u, a).n \in Devs(cfg.size)
      BY <1>7
    <3> QED BY <1>5, <1>9, <3>1, BringInIs, Zenon
  <2> QED BY <1>6, <2>1, Zenon DEF BringsIn
<1>11. ~l.dirty
  BY DEF FetchedLine
<1> HIDE DEF f, l, d
<1>12. t.n = f.n /\ t.c = d
  BY <1>5, <1>10 DEF States
<1>13. AllClean(d)
  <2>1. u.c.line \in [Sets(u.c) -> [Ways(u.c) -> Lines(cfg)]] /\ Sets(d) = Sets(u.c) /\ Ways(d) = Ways(u.c)
    BY <1>8, <1>9, LevelFacts
  <2> DEFINE x0 == SetOf(u.c, a)
  <2>2. x0 \in Sets(u.c) /\ d.line = [u.c.line EXCEPT ![x0][w] = l]
    BY <1>8, <1>9
  <2> HIDE DEF x0
  <2>3. \A x \in Sets(u.c), v \in Ways(u.c) :
           d.line[x][v] = IF x = x0 /\ v = w THEN l ELSE u.c.line[x][v]
    BY <2>1, <2>2
  <2> SUFFICES ASSUME NEW x \in Sets(u.c), NEW v \in Ways(u.c)
               PROVE  d.line[x][v].valid => ~d.line[x][v].dirty
    BY <2>1, Zenon DEF AllClean
  <2>4. CASE x = x0 /\ v = w
    BY <1>11, <2>3, <2>4, Zenon
  <2>5. CASE ~(x = x0 /\ v = w)
    BY <1>4, <2>3, <2>5, Zenon DEF AllClean
  <2> QED BY <2>4, <2>5
<1>14. /\ f.n \in Dev
       /\ \A B \in SUBSET Space : Sound(u.n, B) => Keeps(u.n, f.n, B)
  BY <1>7 DEF Answers
<1> QED BY <1>4, <1>7, <1>12, <1>13, <1>14 DEF OnlyReads, u

\* A read of a clean level.
LEMMA ReadClean ==
  ASSUME Device, NEW cfg, Geometry(cfg), NEW s \in States(cfg), AllClean(s.c),
         Coherent(s, {}), NEW a \in Nat, NEW len \in Nat \ {0}, a + len <= Extent,
         Within(s.c, a, len), NEW t, t = ReadGeneric(s, a, len).s
  PROVE  OnlyReads(s, t)
<1> DEFINE u == Ready(s, a, len)
<1>1. s.c \in Levels(cfg) /\ s.n \in Dev /\ a \in Space
  BY StateFacts, StretchInSpace
<1>2. t = u
  <2>1. {} \in SUBSET Space
    OBVIOUS
  <2>2. Present(u, a, len) = u
    BY <2>1, ReadyPrepares
  <2> QED BY <2>2, Zenon DEF ReadGeneric, Ready
<1>3. ~Spans(s.c, a, len)
  BY WithinOneLine
<1>4. IsHit(s.c, a, len) <=> Resident(s.c, a)
  BY <1>1, WithinHit
<1>5. CASE Resident(s.c, a)
  <2>1. u = TouchAt(s, a)
    BY <1>3, <1>4, <1>5, Zenon DEF Ready, TouchLines
  <2> HIDE DEF u
  <2>2. u.c.line = s.c.line /\ u.c.cfg = s.c.cfg /\ u.n = s.n
    BY <1>5, <2>1, TouchIs DEF Touched
  <2>3. AllClean(u.c)
    BY <2>2 DEF AllClean, Sets, Ways
  <2>4. \A B \in SUBSET Space : Sound(s.n, B) => Keeps(s.n, u.n, B)
    BY <2>2 DEF Keeps
  <2> QED BY <1>1, <1>2, <2>2, <2>3, <2>4 DEF OnlyReads
<1>6. CASE ~Resident(s.c, a)
  <2>1. u = Fill(s, a)
    BY <1>3, <1>4, <1>6, Zenon DEF Ready, BringInLines
  <2> HIDE DEF u
  <2> QED BY <1>1, <1>2, <1>6, <2>1, FillClean
<1> QED BY <1>5, <1>6

\* Flushing a clean level does nothing.
LEMMA FlushIdle ==
  ASSUME NEW cfg, Geometry(cfg), NEW s \in States(cfg), AllClean(s.c),
         NEW f, Flushes(cfg, s, f)
  PROVE  f[cfg.sets * cfg.ways] = s
<1> DEFINE n == cfg.sets * cfg.ways
           X(i) == (i - 1) \div cfg.ways
           V(i) == (i - 1) % cfg.ways
           S == {i \in Nat : i <= n => f[i] = s}
<1>1. cfg.sets \in Nat \ {0} /\ cfg.ways \in Nat \ {0}
  BY GeometryFacts
<1>2. /\ n \in Nat
      /\ \A i \in 1 .. n : X(i) \in 0 .. cfg.sets - 1 /\ V(i) \in 0 .. cfg.ways - 1
  BY <1>1, WaysInOrder
<1>3. f[0] = s /\ \A i \in 1 .. n : f[i] = WriteBack(f[i - 1], X(i), V(i))
  BY DEF Flushes
<1>4. Sets(s.c) = 0 .. cfg.sets - 1 /\ Ways(s.c) = 0 .. cfg.ways - 1
  BY StateFacts, LevelFacts
<1> HIDE DEF n, X, V
<1>5. \A x \in Sets(s.c), w \in Ways(s.c) : WriteBack(s, x, w) = s
  BY Zenon DEF AllClean, WriteBack
<1>6. 0 \in S
  BY <1>3
<1>7. ASSUME NEW m \in Nat, m \in S PROVE m + 1 \in S
  <2> SUFFICES ASSUME m + 1 <= n PROVE f[m + 1] = s
    OBVIOUS
  <2>1. m + 1 \in 1 .. n /\ (m + 1) - 1 = m /\ m <= n
    BY <1>2
  <2>2. f[m] = s
    BY <1>7, <2>1
  <2>3. f[m + 1] = WriteBack(s, X(m + 1), V(m + 1))
    BY <1>3, <2>1, <2>2
  <2>4. X(m + 1) \in Sets(s.c) /\ V(m + 1) \in Ways(s.c)
    BY <1>2, <1>4, <2>1
  <2> QED BY <1>5, <2>3, <2>4
<1>8. n \in S
  <2> HIDE DEF S
  <2> QED BY <1>2, <1>6, <1>7, Induction
<1> QED BY <1>2, <1>8 DEF n

-----------------------------------------------------------------------------
(* A level whose device is used from elsewhere as well. *)

\* What is coherent somewhere is coherent at fewer addresses.
LEMMA CoherentShrinks ==
  ASSUME NEW s, NEW A, Coherent(s, A), NEW B \in SUBSET A, Sound(s.n, B)
  PROVE  Coherent(s, B)
<1>1. Clean(s.c, s.n, B)
  <2>1. Clean(s.c, s.n, A) /\ \A a \in B : a \in A
    BY DEF Coherent
  <2> QED BY <2>1, Zenon DEF Clean
<1> QED BY <1>1, Zenon DEF Coherent

\* The device has changed below the level, which keeps its own cells.
Beneath(cfg, s, t, A) ==
  /\ t \in States(cfg)
  /\ t.c = s.c
  /\ Coherent(t, A)
  /\ SameView(s, t, A)

\* A device that keeps what it holds can be changed by others, and even for
\* one with other lines.
LEMMA DeviceUnder ==
  ASSUME NEW cfg, Geometry(cfg), NEW s \in States(cfg), NEW A \in SUBSET Space,
         Coherent(s, A), NEW n \in Devs(cfg.size), Keeps(s.n, n, A),
         NEW t, t = [s EXCEPT !.n = n]
  PROVE  Beneath(cfg, s, t, A)
<1>1. t.c = s.c /\ t.n = n /\ t \in States(cfg)
  BY DEF States
<1>2. Sound(n, A) /\ \A a \in A : Holds(n, a) = Holds(s.n, a)
  BY DEF Keeps
<1>3. Clean(s.c, n, A)
  BY <1>2 DEF Coherent, Clean
<1>4. Coherent(t, A)
  BY <1>1, <1>2, <1>3 DEF Coherent
<1>5. SameView(s, t, A)
  BY <1>1, <1>2 DEF SameView, ViewAt
<1> QED BY <1>1, <1>4, <1>5 DEF Beneath

\* The device holds what can be seen.
Settled(s, A) == \A a \in A : ViewAt(s, a) = Holds(s.n, a)

\* Then what comes down from the level changes nothing below.
LEMMA HarmlessSettled ==
  ASSUME NEW cfg, NEW s, NEW t, NEW A, Harmless(cfg, s, t, A), Settled(s, A)
  PROVE  Settled(t, A) /\ \A a \in A : Holds(t.n, a) = Holds(s.n, a)
BY DEF Harmless, SameView, Passed, Settled

\* As long as what is written lies elsewhere.
LEMMA TakesSettled ==
  ASSUME NEW cfg, NEW s, NEW t, NEW A, NEW a, NEW len, NEW data,
         Takes(cfg, s, t, A, a, len, data), Settled(s, A),
         \A b \in A : b - a \notin 0 .. len - 1
  PROVE  Settled(t, A) /\ \A b \in A : Holds(t.n, b) = Holds(s.n, b)
BY DEF Takes, Settled

-----------------------------------------------------------------------------
(* The level as a device. *)

\* The states of a level that a level above may find it in.
SoundStates(cfg) == {s \in States(cfg) : Coherent(s, {})}

\* What one coherent level shows is what another one relies on.
LevelKeeps(s, t, A) == Coherent(t, A) /\ \A b \in A : ViewAt(t, b) = ViewAt(s, b)

LevelPuts(s, t, A, a, len, data) ==
  /\ Coherent(t, A)
  /\ \A b \in A : ViewAt(t, b) = IF b - a \in 0 .. len - 1 THEN data[b - a] ELSE ViewAt(s, b)

LevelAnswers(cfg, s, r, a, len) ==
  /\ r.n \in SoundStates(cfg)
  /\ r.data \in Cells(len)
  /\ \A A \in SUBSET Space :
       Coherent(s, A) => /\ LevelKeeps(s, r.n, A)
                         /\ \A i \in 0 .. len - 1 : a + i \in A => r.data[i] = ViewAt(s, a + i)

LevelObeys(cfg, s, t, a, len, data) ==
  /\ t \in SoundStates(cfg)
  /\ \A A \in SUBSET Space : Coherent(s, A) => LevelPuts(s, t, A, a, len, data)

\* A cache level over a device that answers and obeys (Device) answers readLine,
\* within one of its lines, with what can be seen through it, and shows the same
\* afterwards, whatever it evicts and whatever it writes back.
THEOREM LevelAnswersLine ==
  ASSUME Device, NEW cfg, Geometry(cfg), NEW s \in SoundStates(cfg), NEW a \in Nat,
         NEW len \in Nat \ {0}, a + len <= Extent, Within(s.c, a, len)
  PROVE  LevelAnswers(cfg, s, ReadLine(s, a, len), a, len)
<1> DEFINE r == ReadLine(s, a, len)
<1>1. s \in States(cfg) /\ Coherent(s, {}) /\ {} \in SUBSET Space
  BY DEF SoundStates
<1>2. ASSUME NEW A \in SUBSET Space, Coherent(s, A)
      PROVE  Returns(cfg, s, r.n, r.data, A, a, len)
  BY <1>1, <1>2, ReadLineReturns
<1> HIDE DEF r
<1>3. r.n \in States(cfg) /\ Coherent(r.n, {}) /\ r.data \in Cells(len)
  BY <1>1, <1>2 DEF Returns, Harmless
<1>4. ASSUME NEW A \in SUBSET Space, Coherent(s, A)
      PROVE  /\ LevelKeeps(s, r.n, A)
             /\ \A i \in 0 .. len - 1 : a + i \in A => r.data[i] = ViewAt(s, a + i)
  <2>1. Returns(cfg, s, r.n, r.data, A, a, len)
    BY <1>2, <1>4
  <2> QED BY <2>1 DEF Returns, Harmless, SameView, LevelKeeps
<1> QED BY <1>3, <1>4 DEF LevelAnswers, SoundStates, r

\* It obeys writeLine: the cells of the line become the data, no other cell
\* changes, under either write policy and either allocation policy.
THEOREM LevelObeysLine ==
  ASSUME Device, NEW cfg, Geometry(cfg), NEW s \in SoundStates(cfg), NEW a \in Nat,
         NEW len \in Nat \ {0}, a + len <= Extent, Within(s.c, a, len), NEW data \in Cells(len)
  PROVE  LevelObeys(cfg, s, WriteLine(s, a, data, len), a, len, data)
<1> DEFINE t == WriteLine(s, a, data, len)
<1>1. s \in States(cfg) /\ Coherent(s, {}) /\ {} \in SUBSET Space
  BY DEF SoundStates
<1>2. ASSUME NEW A \in SUBSET Space, Coherent(s, A)
      PROVE  Takes(cfg, s, t, A, a, len, data)
  BY <1>1, <1>2, WriteLineTakes
<1> HIDE DEF t
<1>3. t \in States(cfg) /\ Coherent(t, {})
  BY <1>1, <1>2 DEF Takes
<1>4. ASSUME NEW A \in SUBSET Space, Coherent(s, A)
      PROVE  LevelPuts(s, t, A, a, len, data)
  <2>1. Takes(cfg, s, t, A, a, len, data)
    BY <1>2, <1>4
  <2> QED BY <2>1, Zenon DEF Takes, LevelPuts
<1> QED BY <1>3, <1>4 DEF LevelObeys, SoundStates, t

\* And it obeys write, of a stretch the device accepts.
THEOREM LevelObeysWrite ==
  ASSUME Device, NEW cfg, Geometry(cfg), NEW s \in SoundStates(cfg), NEW a \in Nat,
         NEW len \in Nat \ {0}, a + len <= Usable, Within(s.c, a, len), NEW data \in Cells(len)
  PROVE  LevelObeys(cfg, s, WriteGeneric(s, a, data, len), a, len, data)
<1> DEFINE t == WriteGeneric(s, a, data, len)
<1>1. s \in States(cfg) /\ Coherent(s, {}) /\ {} \in SUBSET Space
  BY DEF SoundStates
<1>2. ASSUME NEW A \in SUBSET Space, Coherent(s, A)
      PROVE  Takes(cfg, s, t, A, a, len, data)
  BY <1>1, <1>2, WriteTakes
<1> HIDE DEF t
<1>3. t \in States(cfg) /\ Coherent(t, {})
  BY <1>1, <1>2 DEF Takes
<1>4. ASSUME NEW A \in SUBSET Space, Coherent(s, A)
      PROVE  LevelPuts(s, t, A, a, len, data)
  <2>1. Takes(cfg, s, t, A, a, len, data)
    BY <1>2, <1>4
  <2> QED BY <2>1, Zenon DEF Takes, LevelPuts
<1> QED BY <1>3, <1>4 DEF LevelObeys, SoundStates, t
=============================================================================
