----------------------------- MODULE FlatMemory -----------------------------
(***************************************************************************)
(* What the memory system promises to the program that runs on it: an      *)
(* array of cells, where the cells that are asked for are read as they     *)
(* were last written, and those that are to be written, and no others,     *)
(* are, however many caches stand in front of it, however they are         *)
(* configured, and whichever replacement script the user has loaded.  An   *)
(* access the code refuses with an exception changes nothing.              *)
(*                                                                         *)
(* What is asked for is in request, which an implementation sets to the    *)
(* arguments of the operation, so that it cannot do one thing and pass for *)
(* another.                                                                *)
(***************************************************************************)
EXTENDS Integers

CONSTANTS
  MemSize,     \* the number of cells
  Values,      \* the values of a cell
  Accesses,    \* the pairs <<address, length>> a program uses
  Images       \* the memories that loading a program may leave

VARIABLES
  mem,         \* the cells
  request,     \* the last operation and its arguments
  reply        \* what it returned: status and data

vars == <<mem, request, reply>>

Addresses == 0 .. MemSize - 1

InRange(acc) == acc[1] + acc[2] <= MemSize

\* The cells of an access.
Span(m, acc) == [i \in 0 .. acc[2] - 1 |-> m[acc[1] + i]]

Overwritten(m, acc, data) ==
  [a \in DOMAIN m |->
     IF acc[1] <= a /\ a < acc[1] + acc[2] THEN data[a - acc[1]] ELSE m[a]]

DataOf(acc) == [0 .. acc[2] - 1 -> Values]

\* The requests for the cells of an access.
Requests(acc) == {<<"read", acc>>} \cup {<<"write", acc, data>> : data \in DataOf(acc)}

Init == /\ mem = [a \in Addresses |-> 0]
        /\ request = <<"reset">>
        /\ reply = [status |-> "ok", data |-> <<>>]

Read(acc) == /\ InRange(acc)
             /\ request' = <<"read", acc>>
             /\ reply' = [status |-> "ok", data |-> Span(mem, acc)]
             /\ UNCHANGED mem

Write(acc, data) == /\ InRange(acc)
                    /\ request' = <<"write", acc, data>>
                    /\ mem' = Overwritten(mem, acc, data)
                    /\ reply' = [status |-> "ok", data |-> <<>>]

\* An access out of range, or one the user's script broke off.
Refuse(acc, status) == /\ status = "range" => ~InRange(acc)
                       /\ request' \in Requests(acc)
                       /\ reply' = [status |-> status, data |-> <<>>]
                       /\ UNCHANGED mem

\* Settings change without a trace in the memory.
Manage(status) == /\ request' = <<"manage">>
                  /\ reply' = [status |-> status, data |-> <<>>]
                  /\ UNCHANGED mem

Reset == /\ mem' = [a \in Addresses |-> 0]
         /\ request' = <<"reset">>
         /\ reply' = [status |-> "ok", data |-> <<>>]

Load(image) == /\ mem' = image
               /\ request' = <<"load", image>>
               /\ reply' = [status |-> "ok", data |-> <<>>]

Next ==
  \/ \E image \in Images : Load(image)
  \/ \E status \in {"ok", "script"} : Manage(status)
  \/ \E acc \in Accesses :
        \/ Read(acc)
        \/ \E data \in DataOf(acc) : Write(acc, data)
        \/ \E status \in {"range", "script"} : Refuse(acc, status)
  \/ Reset

Spec == Init /\ [][Next]_vars
=============================================================================
