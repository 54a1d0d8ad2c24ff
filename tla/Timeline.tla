------------------------------ MODULE Timeline ------------------------------
(***************************************************************************)
(* What undo and redo promise the user of the simulator: a line of states  *)
(* along which one can walk back and forth, and which is cut where a new   *)
(* step is taken.                                                          *)
(***************************************************************************)
EXTENDS Sequences, SequencesExt

VARIABLES
  past,       \* the states before, the oldest first
  now,        \* what is shown
  future,     \* the states that were undone, the next one first
  forgetful   \* what was undone cannot be had again

line == <<past, now, future, forgetful>>

Init == past = <<>> /\ future = <<>>

Advance ==
  /\ past' = Append(past, now) /\ future' = <<>>
  /\ UNCHANGED forgetful

Undo ==
  /\ past # <<>>
  /\ now' = Last(past) /\ past' = Front(past)
  /\ future' = IF forgetful THEN <<>> ELSE <<now>> \o future
  /\ UNCHANGED forgetful

Redo ==
  /\ future # <<>>
  /\ past' = Append(past, now) /\ now' = Head(future) /\ future' = Tail(future)
  /\ UNCHANGED forgetful

\* Another program starts.
Restart == past' = <<>> /\ future' = <<>>

Next == Advance \/ Undo \/ Redo \/ Restart

Spec == Init /\ [][Next]_line
=============================================================================
