----------------------------- MODULE CacheOrder -----------------------------
(***************************************************************************)
(* The order in which the lines of a set are replaced, as the user of the  *)
(* simulator is taught it: LRU keeps the blocks of a set in the order they *)
(* were last used, FIFO in the order they were brought in, and the block   *)
(* at the end of the list is the one to go.  The code keeps no list; it    *)
(* compares timestamps, prefers invalid ways, and resets both whenever a   *)
(* set is emptied.                                                         *)
(***************************************************************************)
EXTENDS Cache, Sequences, SequencesExt

BlockOf(c, set, w) == c.line[set][w].tag * c.cfg.sets + set

\* The ranks that a policy goes by.
Order(c, set) == IF c.cfg.repl = "FIFO" THEN c.arrival[set] ELSE c.recency[set]

ValidWays(c, set) == {w \in Ways(c) : c.line[set][w].valid}

\* The members of S in a list, those of higher rank first.
Ranked(S, rank) ==
  CHOOSE list \in [1 .. Cardinality(S) -> S] :
    \A i, j \in 1 .. Cardinality(S) : i < j => rank[list[i]] > rank[list[j]]

\* The valid ways of a set, the newest first.
NewestFirst(c, set) == Ranked(ValidWays(c, set), Order(c, set))

\* The blocks a set holds, the newest first.
Held(c, set) ==
  LET ways == NewestFirst(c, set)
  IN  [i \in DOMAIN ways |-> BlockOf(c, set, ways[i])]

\* Where a list has block b.
PlaceOf(list, b) == CHOOSE i \in 1 .. Len(list) : list[i] = b

\* The list of blocks a set of n ways holds after the use of block b.
UsedLRU(list, b, n) ==
  IF Contains(list, b) THEN <<b>> \o RemoveAt(list, PlaceOf(list, b))
  ELSE IF Len(list) < n THEN <<b>> \o list ELSE <<b>> \o Front(list)

UsedFIFO(list, b, n) ==
  IF Contains(list, b) THEN list ELSE UsedLRU(list, b, n)

Used(c, set, b) ==
  IF c.cfg.repl = "FIFO" THEN UsedFIFO(Held(c, set), b, c.cfg.ways)
                         ELSE UsedLRU(Held(c, set), b, c.cfg.ways)

\* A write that misses under no-write-allocate leaves the set alone.
Bypass(c, a) == ~Resident(c, a) /\ c.cfg.alloc = "NoWriteAllocate"

OthersKept(set) ==
  \A other \in Sets(cache) \ {set} : Held(cache, other)' = Held(cache, other)

ReadStep(a, len) == \E script \in Scripts : Read(a, len, script)

WriteStep(a, len) ==
  \E script \in Scripts, data \in [0 .. len - 1 -> Values] :
     Write(a, len, data, script)

\* Under LRU and FIFO, every access that completes moves its own block, in its
\* own set, the way the policy says, and drops at most the block at the end of
\* that list; no other set changes.
ReplacementOrder ==
  [][cache.cfg.repl # "Custom" => \A acc \in Accesses :
       LET a   == acc[1]
           set == SetOf(cache, a)
           new == Used(cache, set, Block(cache, a))
       IN  /\ ReadStep(a, acc[2]) /\ reply'.status = "ok" =>
                Held(cache, set)' = new /\ OthersKept(set)
           /\ WriteStep(a, acc[2]) /\ reply'.status = "ok" =>
                /\ Held(cache, set)' =
                     IF Bypass(cache, a) THEN Held(cache, set) ELSE new
                /\ OthersKept(set)]_vars

\* Replacement never wastes a way: no block leaves a set that has an invalid
\* way, whatever a custom script answers, unless the whole cache is emptied.
NoEarlyReplacement ==
  [][\/ \A set \in Sets(cache)' : Held(cache, set)' = <<>>
     \/ \A set \in Sets(cache) : Free(cache, set) # {} =>
          Range(Held(cache, set)) \subseteq Range(Held(cache, set)')]_vars
=============================================================================
