------------------------------ MODULE MCCache -------------------------------
(* The instances of Cache that TLC checks. *)
EXTENDS CacheOrder

Config(sets, ways, size, write, alloc, repl) ==
  [sets |-> sets, ways |-> ways, size |-> size,
   write |-> write, alloc |-> alloc, repl |-> repl]

\* Three lines of memory compete for the two ways of one set, or for two sets
\* of one way, under every pair of write settings.
CoherenceConfigs ==
  {Config(1, 2, 2, "WriteBack", "WriteAllocate", "LRU"),
   Config(1, 2, 2, "WriteThrough", "NoWriteAllocate", "LRU"),
   Config(2, 1, 2, "WriteBack", "NoWriteAllocate", "FIFO"),
   Config(2, 1, 2, "WriteThrough", "WriteAllocate", "FIFO")}

CoherenceAccesses == {<<0, 2>>, <<1, 1>>, <<2, 1>>, <<4, 1>>, <<5, 2>>}

NoScript == {[answer |-> 0, fails |-> "never"]}

\* Four blocks of one cell compete for the three ways of one set, or for two
\* sets of one way.
OrderConfigs ==
  {Config(1, 3, 1, "WriteBack", "WriteAllocate", "LRU"),
   Config(1, 3, 1, "WriteThrough", "NoWriteAllocate", "FIFO"),
   Config(2, 1, 1, "WriteThrough", "NoWriteAllocate", "LRU")}

OrderAccesses == {<<a, 1>> : a \in 0 .. 3}

\* A custom policy whose script may answer anything and fail anywhere.
CustomConfigs ==
  {Config(1, 2, 1, "WriteBack", "WriteAllocate", "Custom"),
   Config(1, 2, 1, "WriteThrough", "NoWriteAllocate", "Custom")}

CustomAccesses == {<<a, 1>> : a \in 0 .. 2}

AnyScript ==
  {[answer |-> n, fails |-> "never"] : n \in {0, 2}}
    \cup {[answer |-> 3, fails |-> "onAccess"], [answer |-> 2, fails |-> "onInsert"]}

\* Accesses that span two lines.
SpanConfigs == {Config(1, 2, 2, "WriteBack", "WriteAllocate", "LRU"),
                Config(2, 2, 2, "WriteBack", "WriteAllocate", "LRU")}

SpanAccesses == {<<0, 1>>, <<1, 2>>, <<2, 1>>, <<4, 1>>}

\* No action depends on what was last requested, or on the data of the last
\* reply: states that differ in these only need to be explored once.  The steps
\* that lead to them are all checked.
WithoutRequest == <<cache, mem, reply.status>>
=============================================================================
