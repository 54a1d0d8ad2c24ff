----------------------------- MODULE CacheLevel -----------------------------
(***************************************************************************)
(* One level of the simulated memory hierarchy: the operations of class    *)
(* Cache (src/src/processor/cache/cache.cpp) as operators on its state.    *)
(* What lies below, m_nextLevelMemoryRef, is another Cache or MainMemory;  *)
(* the operators of its MemoryDevice interface are the constants, so that  *)
(* the module is instantiated once per level.                              *)
(*                                                                         *)
(* Addresses count cells.  A cell stands for the smallest unit an          *)
(* access covers (a byte of the code).  The bit masks and shifts of the    *)
(* code are divisions: its set counts and line sizes are powers of two.    *)
(*                                                                         *)
(* A level is a record c:                                                  *)
(*   cfg      CacheConfig: sets, ways, size, write, alloc, repl            *)
(*   line     line[set][way] = [valid, dirty, tag, data]                   *)
(*   recency  recency[set][way], the rank of the way's lastAccess (= age)  *)
(*   arrival  arrival[set][way], the rank of its insertTime                *)
(*   path     m_customPolicyScriptPath: "none", "good" (it loads) or "bad" *)
(*   loaded   does the custom policy object hold a script?                 *)
(* The timestamps of the code are only compared with each other inside a   *)
(* set, so a rank from 0 (oldest) to ways-1 (newest) stands for them.      *)
(*                                                                         *)
(* An operation runs on a record s = [c, n, err, script]: the level, the   *)
(* state of what is below, the exception or failed assertion that ended    *)
(* the operation early ("none" when there is none), and what a custom      *)
(* replacement script does during the operation:                           *)
(*   script.answer  what its chooseVictim returns (an out-of-range value   *)
(*                  stands for every way that call or onEvict can fail)    *)
(*   script.fails   the callback that raises an error, "onAccess",         *)
(*                  "onInsert" or "never"                                  *)
(***************************************************************************)
EXTENDS Integers

CONSTANTS
  NextReadLine(_, _, _),    \* (n, address, length) -> [n, data]
  NextWriteLine(_, _, _),   \* (n, address, data)   -> n
  NextWrite(_, _, _),       \* (n, address, data)   -> n
  NextOk(_)                 \* did the level below complete?

-----------------------------------------------------------------------------
(* Address decomposition. *)

Sets(c) == 0 .. c.cfg.sets - 1
Ways(c) == 0 .. c.cfg.ways - 1
Offsets(c) == 0 .. c.cfg.size - 1

Block(c, a)  == a \div c.cfg.size
SetOf(c, a)  == Block(c, a) % c.cfg.sets
Tag(c, a)    == Block(c, a) \div c.cfg.sets
Offset(c, a) == a % c.cfg.size

\* The address writeBack rebuilds from a line's tag and its set.
LineStart(c, set, tag) == (tag * c.cfg.sets + set) * c.cfg.size

\* address & ~m_offsetMask
Aligned(c, a) == a - Offset(c, a)

\* The addresses an access starts a line with: one, or two when it spans.
\* Bound: no access covers more than two lines.
Spans(c, a, len) == Block(c, a) # Block(c, a + len - 1)
SecondLine(c, a) == Aligned(c, a) + c.cfg.size

-----------------------------------------------------------------------------
(* A fresh or emptied level. *)

Least(S) == CHOOSE x \in S : \A y \in S : x <= y

EmptyLine(cfg) ==
  [valid |-> FALSE, dirty |-> FALSE, tag |-> 0,
   data |-> [o \in 0 .. cfg.size - 1 |-> 0]]

Ranks(cfg) == [set \in 0 .. cfg.sets - 1 |-> [w \in 0 .. cfg.ways - 1 |-> w]]

Setup(cfg) ==
  [cfg     |-> cfg,
   line    |-> [set \in 0 .. cfg.sets - 1 |->
                  [w \in 0 .. cfg.ways - 1 |-> EmptyLine(cfg)]],
   recency |-> Ranks(cfg),
   arrival |-> Ranks(cfg),
   path    |-> "none",
   loaded  |-> FALSE]

\* reset leaves the tags behind, but the tag of an invalid line is never read.
Reset(c) == [c EXCEPT !.line = Setup(c.cfg).line,
                      !.recency = Ranks(c.cfg),
                      !.arrival = Ranks(c.cfg)]

-----------------------------------------------------------------------------
(* Lookup. *)

Matching(c, set, tag) ==
  {w \in Ways(c) : c.line[set][w].valid /\ c.line[set][w].tag = tag}

FindWay(c, set, tag) == Least(Matching(c, set, tag))

Resident(c, a) == Matching(c, SetOf(c, a), Tag(c, a)) # {}
WayOf(c, a)    == FindWay(c, SetOf(c, a), Tag(c, a))

\* What getByteFromCache returns for a resident address.
Cell(c, a) == c.line[SetOf(c, a)][WayOf(c, a)].data[Offset(c, a)]

\* mutant: the end of an access is taken for its last cell.
IsHitOneTooFar(c, a, len) == \A i \in 0 .. len : Resident(c, a + i)

IsHit(c, a, len) == \A i \in 0 .. len - 1 : Resident(c, a + i)

\* mutant: the newest rank is one too high.
NewestBeyond(order, w, ways) ==
  [v \in 0 .. ways - 1 |-> IF v = w THEN ways ELSE order[v]]

\* Way w becomes the newest of its set, the ways that were newer move down.
Newest(order, w, ways) ==
  [v \in 0 .. ways - 1 |->
     IF v = w THEN ways - 1
     ELSE IF order[v] > order[w] THEN order[v] - 1 ELSE order[v]]

-----------------------------------------------------------------------------
(* Replacement. *)

Ok(s) == s.err = "none" /\ NextOk(s.n)

Custom(c) == c.cfg.repl = "Custom" /\ c.loaded

\* An error in a callback of the script leaves the operation by an exception.
CallHook(s, hook) ==
  IF Custom(s.c) /\ s.script.fails = hook THEN [s EXCEPT !.err = "script"] ELSE s

\* mutant: a hit does not renew the line.
TouchWayForgotten(s, set, w) == CallHook(s, "onAccess")

TouchWay(s, set, w) ==
  CallHook([s EXCEPT !.c.recency[set] = Newest(@, w, s.c.cfg.ways)], "onAccess")

TouchAt(s, a) == TouchWay(s, SetOf(s.c, a), WayOf(s.c, a))

TouchLines(s, a, len) ==
  LET s1 == TouchAt(s, a)
  IN  IF Spans(s.c, a, len) /\ Ok(s1) THEN TouchAt(s1, SecondLine(s.c, a)) ELSE s1

Free(c, set) == {w \in Ways(c) : ~c.line[set][w].valid}

Oldest(order, ways) ==
  CHOOSE w \in 0 .. ways - 1 : \A v \in 0 .. ways - 1 : order[w] <= order[v]

\* The script's answer is an index from 1, and 0 is taken for the first way
\* too.  Without a script every call is refused (here: by the index -1).
ScriptVictim(s) ==
  IF ~Custom(s.c) THEN -1
  ELSE IF s.script.answer = 0 THEN 0 ELSE s.script.answer - 1

\* The way the policy answers with for a full set.
Victim(s, set) ==
  CASE s.c.cfg.repl = "LRU"  -> Oldest(s.c.recency[set], s.c.cfg.ways)
    [] s.c.cfg.repl = "FIFO" -> Oldest(s.c.arrival[set], s.c.cfg.ways)
    [] OTHER                 -> ScriptVictim(s)

\* mutant: the invalid ways are not preferred.
EvictWayAlwaysVictim(s, set) == Victim(s, set)

EvictWay(s, set) ==
  IF Free(s.c, set) # {} THEN Least(Free(s.c, set)) ELSE Victim(s, set)

WriteBack(s, set, w) ==
  LET l == s.c.line[set][w]
      below == NextWriteLine(s.n, LineStart(s.c, set, l.tag), l.data)
  IN  IF l.valid /\ l.dirty
      THEN [s EXCEPT !.n = below,
                     !.c.line[set][w].dirty = IF NextOk(below) THEN FALSE ELSE @]
      ELSE s

\* mutant: the victim is not written back.
EvictDiscarding(s, set) ==
  LET w == EvictWay(s, set)
  IN  IF w \notin Ways(s.c) THEN [s EXCEPT !.err = "script"]
      ELSE [s EXCEPT !.c.line[set][w].valid = FALSE]

Evict(s, set) ==
  LET w  == EvictWay(s, set)
      s1 == IF s.c.cfg.write = "WriteBack" THEN WriteBack(s, set, w) ELSE s
  IN  IF w \notin Ways(s.c) THEN [s EXCEPT !.err = "script"]
      ELSE IF Free(s.c, set) # {} \/ ~Ok(s1) THEN s1
      ELSE [s1 EXCEPT !.c.line[set][w].valid = FALSE]

\* The line is marked valid before its data is fetched.
BringIn(s, a, w) ==
  LET set  == SetOf(s.c, a)
      got  == NextReadLine(s.n, Aligned(s.c, a), s.c.cfg.size)
      data == IF NextOk(got.n) THEN got.data ELSE s.c.line[set][w].data
      s1   == [s EXCEPT
                 !.n = got.n,
                 !.c.line[set][w] = [valid |-> TRUE, dirty |-> FALSE,
                                     tag |-> Tag(s.c, a), data |-> data],
                 !.c.recency[set] = Newest(@, w, s.c.cfg.ways),
                 !.c.arrival[set] = Newest(@, w, s.c.cfg.ways)]
  IN  IF Ok(s1) THEN CallHook(s1, "onInsert") ELSE s1

\* The pair of calls every miss makes for one line.
Fill(s, a) ==
  LET s1 == Evict(s, SetOf(s.c, a))
  IN  IF Ok(s1) THEN BringIn(s1, a, EvictWay(s, SetOf(s.c, a))) ELSE s1

\* Every line of the span is filled, whether or not it is resident already.
BringInLines(s, a, len) ==
  LET s1 == Fill(s, a)
  IN  IF Spans(s.c, a, len) /\ Ok(s1) THEN Fill(s1, SecondLine(s.c, a)) ELSE s1

-----------------------------------------------------------------------------
(* The accesses of the processor, readGeneric and writeGeneric. *)

\* getByteFromCache and putByteInCache find no line: the assertion fails.
Present(s, a, len) ==
  IF Ok(s) /\ ~(\A i \in 0 .. len - 1 : Resident(s.c, a + i))
  THEN [s EXCEPT !.err = "absent"] ELSE s

ReadGeneric(s, a, len) ==
  LET s1 == Present(IF IsHit(s.c, a, len) THEN TouchLines(s, a, len)
                                          ELSE BringInLines(s, a, len), a, len)
  IN  [s |-> s1,
       data |-> IF Ok(s1) THEN [i \in 0 .. len - 1 |-> Cell(s1.c, a + i)]
                          ELSE <<>>]

\* The cells of an access starting at a that land in a way of a set.
Landing(c, a, len, set, w) ==
  {i \in 0 .. len - 1 : SetOf(c, a + i) = set /\ WayOf(c, a + i) = w}

\* mutant: the line is dirty under either write policy.
PutBytesAlwaysDirty(c, a, data, len) ==
  [c EXCEPT !.line[SetOf(c, a)][WayOf(c, a)].dirty = TRUE]

PutBytes(c, a, data, len) ==
  [c EXCEPT !.line = [set \in Sets(c) |-> [w \in Ways(c) |->
     LET here == Landing(c, a, len, set, w)
         l    == c.line[set][w]
     IN  IF here = {} THEN l
         ELSE [l EXCEPT
                 !.dirty = (c.cfg.write = "WriteBack"),
                 !.data  = [o \in Offsets(c) |->
                    IF \E i \in here : Offset(c, a + i) = o
                    THEN data[CHOOSE i \in here : Offset(c, a + i) = o]
                    ELSE l.data[o]]]]]]

\* mutant: a write-through store stays in the cache.
StoreAbove(s, a, data, len) ==
  LET s1 == Present(s, a, len)
  IN  IF ~Ok(s1) THEN s1 ELSE [s1 EXCEPT !.c = PutBytes(@, a, data, len)]

\* The bytes go into the lines, and below as well under write-through.
Store(s, a, data, len) ==
  LET s1  == Present(s, a, len)
      put == [s1 EXCEPT !.c = PutBytes(@, a, data, len)]
  IN  IF ~Ok(s1) THEN s1
      ELSE IF s.c.cfg.write = "WriteThrough"
           THEN [put EXCEPT !.n = NextWrite(@, a, data)]
           ELSE put

\* mutant: a store that misses and does not allocate is not passed on.
WriteGenericDropped(s, a, data, len) ==
  IF IsHit(s.c, a, len) THEN Store(TouchLines(s, a, len), a, data, len)
  ELSE IF s.c.cfg.alloc = "NoWriteAllocate" THEN s
  ELSE Store(BringInLines(s, a, len), a, data, len)

WriteGeneric(s, a, data, len) ==
  IF IsHit(s.c, a, len) THEN Store(TouchLines(s, a, len), a, data, len)
  ELSE IF s.c.cfg.alloc = "NoWriteAllocate" THEN [s EXCEPT !.n = NextWrite(@, a, data)]
  ELSE Store(BringInLines(s, a, len), a, data, len)

-----------------------------------------------------------------------------
(* The interface for the level above. *)

\* The line of a is found or filled.
Reach(s, a) == IF Resident(s.c, a) THEN TouchAt(s, a) ELSE Fill(s, a)

LineOf(s, a, len) ==
  [n |-> s,
   data |-> IF Ok(s) THEN [i \in 0 .. len - 1 |-> Cell(s.c, a + i)] ELSE <<>>]

ReadLine(s, a, len) == LineOf(Reach(s, a), a, len)

PutLine(s, a, data, len) ==
  LET put == [s EXCEPT !.c = PutBytes(@, a, data, len)]
  IN  IF ~Ok(s) THEN s
      ELSE IF s.c.cfg.write = "WriteThrough"
           THEN [put EXCEPT !.n = NextWriteLine(@, a, data)]
           ELSE put

WriteLine(s, a, data, len) ==
  IF ~Resident(s.c, a) /\ s.c.cfg.alloc = "NoWriteAllocate"
  THEN [s EXCEPT !.n = NextWriteLine(@, a, data)]
  ELSE PutLine(Reach(s, a), a, data, len)

-----------------------------------------------------------------------------
(* Reconfiguring. *)

\* The rest of reconfigure, once flush has emptied the level.  When the script
\* of the custom policy does not load, the exception of createPolicy leaves
\* the level with the two write settings of the new configuration and
\* everything else of the old one.
Reconfigure(s, cfg) ==
  IF ~Ok(s) THEN s
  ELSE IF cfg.repl = "Custom" /\ s.c.path = "bad"
  THEN [s EXCEPT !.err = "script",
                 !.c.cfg = [@ EXCEPT !.write = cfg.write, !.alloc = cfg.alloc]]
  ELSE [s EXCEPT !.c = [Setup(cfg) EXCEPT
                          !.path = s.c.path,
                          !.loaded = cfg.repl = "Custom" /\ s.c.path = "good"]]

\* loadCustomPolicyScript: the path is kept even when the script does not
\* load; the policy object is then the one of before.
LoadCustomPolicyScript(c, path) ==
  IF path = "bad" THEN [c EXCEPT !.path = path]
  ELSE [c EXCEPT !.path = path, !.cfg.repl = "Custom", !.loaded = TRUE]
=============================================================================
