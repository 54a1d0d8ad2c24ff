---------------------------- MODULE MCHierarchy -----------------------------
(* The instances of MemoryHierarchy that TLC checks. *)
EXTENDS MemoryHierarchy

Config(sets, ways, size, write, alloc) ==
  [sets |-> sets, ways |-> ways, size |-> size, write |-> write, alloc |-> alloc, repl |-> "LRU"]

\* Every cache starts with one line of two cells, half of a memory whose last
\* cell cannot be addressed.
Default == Config(1, 1, 2, "WriteBack", "WriteAllocate")

\* L1 shrinks its lines, writes through, or outgrows L2.
SomeL1 == {Config(2, 1, 1, "WriteThrough", "NoWriteAllocate")}
SomeInstruction == {Default}
SomeL2 == {Config(1, 1, 2, "WriteThrough", "NoWriteAllocate")}

SomeAccesses == {<<0, 1>>, <<2, 1>>, <<3, 1>>}

\* Zeros come back by an undo or a reset.
SomeStores == {<<acc, [i \in {0} |-> 1]>> : acc \in SomeAccesses}
SomeImages == {[a \in 0 .. 2 |-> IF a = 1 THEN 1 ELSE 0]}

\* No action depends on what was last requested, or on the data of the last
\* reply: states that differ in these only need to be explored once.  The steps
\* that lead to them are all checked.
WithoutRequest == <<caches, mem, widgets, undo, redo, stored, reply.status>>
=============================================================================
