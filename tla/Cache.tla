------------------------------- MODULE Cache --------------------------------
(***************************************************************************)
(* One Cache in front of MainMemory (src/src/processor/cache/cache.cpp):   *)
(* the accesses of the processor, the settings the user changes between    *)
(* them (CacheTab), and the reset of MemoryController, in any order.  The  *)
(* three caches of the simulator are composed in MemoryHierarchy.          *)
(*                                                                         *)
(* The counters of hits, misses and write-backs are left out.              *)
(***************************************************************************)
EXTENDS Integers

CONSTANTS
  MemSize,     \* cells of main memory
  Values,      \* the values of a cell
  Configs,     \* the CacheConfig records a user can choose
  Accesses,    \* the pairs <<address, length>> a program uses
  Scripts,     \* what a custom script may do during one access
  Paths        \* the scripts a user can load: "good", or "bad" when it fails to load

Addresses == 0 .. MemSize - 1

CacheConfigs == [sets : Nat \ {0}, ways : Nat \ {0}, size : Nat \ {0},
                 write : {"WriteThrough", "WriteBack"},
                 alloc : {"WriteAllocate", "NoWriteAllocate"},
                 repl  : {"LRU", "FIFO", "Custom"}]

ASSUME MemSizeAssumption == MemSize \in Nat \ {0}
ASSUME ValuesAssumption  == 0 \in Values
\* Memory is a whole number of lines in every configuration.
ASSUME ConfigsAssumption ==
  /\ Configs \subseteq CacheConfigs
  /\ \A cfg \in Configs : MemSize % cfg.size = 0
ASSUME AccessesAssumption == Accesses \subseteq Nat \X (Nat \ {0})
ASSUME ScriptsAssumption  ==
  Scripts \subseteq [answer : Int, fails : {"never", "onAccess", "onInsert"}]
ASSUME PathsAssumption    == Paths \subseteq {"good", "bad"}

VARIABLES
  cache,       \* the level, a record of CacheLevel
  mem,         \* main memory
  request,     \* history: the last operation and its arguments
  reply        \* what it returned

vars == <<cache, mem, request, reply>>

-----------------------------------------------------------------------------
(* MainMemory behind the MemoryDevice interface. *)

MemReadLine(m, a, len) == [n |-> m, data |-> [i \in 0 .. len - 1 |-> m[a + i]]]

\* writeLine, and the write functions of the four access widths.
MemWrite(m, a, data) ==
  [b \in DOMAIN m |-> IF b - a \in DOMAIN data THEN data[b - a] ELSE m[b]]

MemOk(m) == TRUE

INSTANCE CacheLevel WITH NextReadLine <- MemReadLine, NextWriteLine <- MemWrite,
                         NextWrite <- MemWrite, NextOk <- MemOk

-----------------------------------------------------------------------------
(* Emptying. *)

Greatest(S) == CHOOSE x \in S : \A y \in S : y <= x

\* The dirty lines that hold an address.
DirtyWays(c, a) ==
  {w \in Matching(c, SetOf(c, a), Tag(c, a)) : c.line[SetOf(c, a)][w].dirty}

\* flush writes the dirty lines of a set back in the order of their ways, so
\* that the last of them to hold an address decides.
WrittenBack(m, c) ==
  [a \in DOMAIN m |->
     IF DirtyWays(c, a) = {} THEN m[a]
     ELSE c.line[SetOf(c, a)][Greatest(DirtyWays(c, a))].data[Offset(c, a)]]

Flush(s) == [s EXCEPT !.n = WrittenBack(@, s.c), !.c = Reset(@)]

-----------------------------------------------------------------------------
(* The operations. *)

Start(script) == [c |-> cache, n |-> mem, err |-> "none", script |-> script]

\* An assertion that failed ended the program.
Running == reply.status # "absent"

Status(s) == IF s.err = "none" THEN "ok" ELSE s.err

\* The operation leaves the state s, and the caller gets data.
Finish(s, data) ==
  /\ cache' = s.c
  /\ mem' = s.n
  /\ reply' = [status |-> Status(s), data |-> data]

\* address >= memory size - (width - 1)
OutOfRange(a, len) == a >= MemSize - (len - 1)

Read(a, len, script) ==
  LET r == ReadGeneric(Start(script), a, len)
  IN  /\ Running
      /\ ~OutOfRange(a, len)
      /\ request' = <<"read", <<a, len>>>>
      /\ Finish(r.s, r.data)

Write(a, len, data, script) ==
  /\ Running
  /\ ~OutOfRange(a, len)
  /\ request' = <<"write", <<a, len>>, data>>
  /\ Finish(WriteGeneric(Start(script), a, data, len), <<>>)

DataOf(acc) == [0 .. acc[2] - 1 -> Values]

Refuse(a, len) ==
  /\ Running
  /\ OutOfRange(a, len)
  /\ request' \in {<<"read", <<a, len>>>>}
                    \cup {<<"write", <<a, len>>, data>> : data \in DataOf(<<a, len>>)}
  /\ reply' = [status |-> "range", data |-> <<>>]
  /\ UNCHANGED <<cache, mem>>

ReconfigureCache(cfg) ==
  LET s == Start([answer |-> 0, fails |-> "never"])
  IN  /\ Running
      /\ request' = <<"manage">>
      /\ Finish(Reconfigure(Flush(s), cfg), <<>>)

LoadScript(path) ==
  /\ Running
  /\ cache' = LoadCustomPolicyScript(cache, path)
  /\ request' = <<"manage">>
  /\ reply' = [status |-> "ok", data |-> <<>>]
  /\ UNCHANGED mem

\* MemoryController::reset
ResetAll ==
  /\ Running
  /\ cache' = Reset(cache)
  /\ mem' = [a \in Addresses |-> 0]
  /\ request' = <<"reset">>
  /\ reply' = [status |-> "ok", data |-> <<>>]

Init ==
  /\ cache \in {Setup(cfg) : cfg \in Configs}
  /\ mem = [a \in Addresses |-> 0]
  /\ request = <<"reset">>
  /\ reply = [status |-> "ok", data |-> <<>>]

Next ==
  \/ \E acc \in Accesses, script \in Scripts : Read(acc[1], acc[2], script)
  \/ \E acc \in Accesses, script \in Scripts :
       \E data \in DataOf(acc) : Write(acc[1], acc[2], data, script)
  \/ \E acc \in Accesses : Refuse(acc[1], acc[2])
  \/ \E cfg \in Configs : ReconfigureCache(cfg)
  \/ \E path \in Paths : LoadScript(path)
  \/ ResetAll

Spec == Init /\ [][Next]_vars

-----------------------------------------------------------------------------
(* Properties. *)

\* The levels that a configuration admits.
Lines(cfg) ==
  [valid : BOOLEAN, dirty : BOOLEAN, tag : Nat, data : [0 .. cfg.size - 1 -> Values]]

PerWay(cfg, S) == [0 .. cfg.sets - 1 -> [0 .. cfg.ways - 1 -> S]]

Levels(cfg) ==
  [cfg     : {cfg},
   line    : PerWay(cfg, Lines(cfg)),
   recency : PerWay(cfg, 0 .. cfg.ways - 1),
   arrival : PerWay(cfg, 0 .. cfg.ways - 1),
   path    : {"none", "good", "bad"},
   loaded  : BOOLEAN]

\* The geometry is one the user chose, even when only the write settings of a
\* configuration came through.
GeometryOK(cfg) ==
  /\ cfg \in CacheConfigs
  /\ \E chosen \in Configs :
       /\ cfg.sets = chosen.sets
       /\ cfg.ways = chosen.ways
       /\ cfg.size = chosen.size

\* The lines, ranks and data of the cache fit its configuration, and a reply is
\* one of the four outcomes of an operation.
TypeOK ==
  /\ GeometryOK(cache.cfg)
  /\ cache \in Levels(cache.cfg)
  /\ mem \in [Addresses -> Values]
  /\ reply.status \in {"ok", "range", "script", "absent"}

\* At most one valid line of a set matches a tag: findWay speaks of "the cache
\* line in the specified set that matches the given tag", and returns the
\* first one.
UniqueTags ==
  \A set \in Sets(cache), v, w \in Ways(cache) :
    LET l == cache.line[set]
    IN  l[v].valid /\ l[w].valid /\ l[v].tag = l[w].tag => v = w

\* A line that is not dirty holds what memory holds, so that evicting it
\* without a write-back (evictCacheLine) loses nothing.
CleanLinesMatchMemory ==
  \A a \in Addresses :
    LET set == SetOf(cache, a)
    IN  \A w \in Matching(cache, set, Tag(cache, a)) :
          ~cache.line[set][w].dirty =>
             cache.line[set][w].data[Offset(cache, a)] = mem[a]

\* The write policy is what decides at an eviction whether a line is written
\* back, so a line may only be dirty while the policy is write-back, whatever
\* the user switched in between.
DirtyOnlyUnderWriteBack ==
  \A set \in Sets(cache), w \in Ways(cache) :
    cache.line[set][w].dirty => cache.cfg.write = "WriteBack"

\* getByteFromCache's assertion: an access never looks for a byte in a line
\* that is not there.
NeverAbsent == reply.status # "absent"

\* What a program can read: the cached cell where there is one.
View == [a \in Addresses |-> IF Resident(cache, a) THEN Cell(cache, a) ELSE mem[a]]

\* An access reaches no cell but its own: "Nearby bytes outside write span
\* should remain untouched", says the test of accesses that span two lines.
NearbyCellsUntouched ==
  [][\/ ResetAll
     \/ \E acc \in Accesses : \A a \in Addresses :
          a \notin acc[1] .. acc[1] + acc[2] - 1 => View'[a] = View[a]]_vars

\* The cache is invisible: with View for its memory, it implements FlatMemory,
\* each operation the one that was asked for.
Flat == INSTANCE FlatMemory WITH mem <- View, Images <- {}
ImplementsFlatMemory == Flat!Spec
=============================================================================
