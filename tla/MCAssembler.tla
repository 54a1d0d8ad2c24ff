---------------------------- MODULE MCAssembler ----------------------------
(***************************************************************************)
(* Programs of a data part and a text part, in both orders.  Two labels,   *)
(* widths 1, 4 and 8, a branch that reaches one instruction ahead, an li   *)
(* of three, which it does not reach over, and pseudo instructions of two  *)
(* lines, of one, and one that uses another.                               *)
(***************************************************************************)
EXTENDS Assembler

X(op, label, width, count) == [op |-> op, label |-> label, width |-> width, count |-> count]
Of(op) == X(op, "", 1, 0)
Plain(units) == X("plain", "", 1, units)
For(op, label) == X(op, label, 1, 0)
Give(width, count) == X("directive", "", width, count)

DataLines == {For("label", "a"), For("label", "b"), Give(1, 1), Give(4, 2), Give(8, 0), Give(8, 1)}
TextLines == {Plain(1), Plain(3), For("label", "x"), For("label", "a"), For("branch", "x"),
              For("jump", "x"), For("address", "a")}
OddLines == {Of("malformed"), For("branch", "a"), For("jump", "a"), For("pseudoBranch", "x"),
             Give(1, 1), X("zero", "", 1, 1), Of("bss")}

UpTo(lines, n) == UNION {[1..k -> lines] : k \in 0..n}
Data(n) == {<<Of("data")>> \o s : s \in UpTo(DataLines, n)}
Text(n) == {<<Of("text")>> \o s : s \in UpTo(TextLines, n)}
Odd == {<<Of("text")>> \o s : s \in UpTo(OddLines \cup {For("label", "x"), For("address", "b")}, 2)}

Joined(S, T) == {s \o t : s \in S, t \in T}

Pseudo == [two  |-> <<Plain(1), For("branch", "x")>>,
           one  |-> <<For("jump", "x")>>,
           nest |-> <<For("custom", "one")>>]
CustomLines == {Plain(1), For("label", "x")} \cup {For("custom", n) : n \in {"two", "one", "nest"}}

AllPrograms ==
  UpTo(TextLines \cup OddLines, 2)
  \cup Text(4)
  \cup UpTo(CustomLines, 4)
  \cup Joined({<<Of("data"), For("label", "a"), Give(1, 1)>>}, Text(4))
  \cup Joined(Data(4), {<<Of("text"), For("address", "a")>>, <<Of("text"), For("address", "b")>>})
  \cup Joined(Data(2), Text(2) \cup Odd)
  \cup Joined(Text(2) \cup Odd, Data(2))
  \cup Joined({<<Of("data")>> \o s : s \in [1..2 -> DataLines \cup {Plain(1)}]}, Text(1))

NearData == 2044
=============================================================================
