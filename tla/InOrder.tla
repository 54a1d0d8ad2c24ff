------------------------------ MODULE InOrder -------------------------------
(***************************************************************************)
(* What the pipelined processors promise: the instructions take effect one *)
(* at a time, in the order of the program, as on the single-cycle          *)
(* processor -- except that the target of a branch or a jump may take      *)
(* effect a second time before the program goes on.  The exception is what *)
(* the code does (see the finding on target_twice); no other is allowed.   *)
(***************************************************************************)
EXTENDS SingleCycle

VARIABLE fresh   \* the program has just been redirected, and may repeat the target

inOrder == <<single, fresh>>

InitInOrder == Init /\ fresh = FALSE

Execute ==
  /\ Step
  /\ fresh' \in IF Redirects(program[pc], Result(program[pc])) THEN BOOLEAN ELSE {FALSE}

\* The target takes effect once more than the program says.
Repeat ==
  /\ fresh /\ pc < Size
  /\ ~Redirects(program[pc], Result(program[pc]))
  /\ Effect(program[pc])
  /\ fresh' = FALSE
  /\ UNCHANGED <<program, pc>>

NextInOrder == Execute \/ Repeat

SpecInOrder == InitInOrder /\ [][NextInOrder]_inOrder
=============================================================================
