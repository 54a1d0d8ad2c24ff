----------------------------- MODULE MCHistory ------------------------------
(* The instance of StepHistory that TLC checks. *)
EXTENDS StepHistory

Words == 0 .. 4
TheAlu == [x \in AluSignals \X Words \X Words |->
             CASE x[1] \in {"ADD", "ADDW"} -> (x[2] + x[3]) % 5
               [] x[1] = "SUB"             -> (x[2] + 5 - x[3]) % 5
               [] x[1] = "FADD_S"          -> (x[2] + 2 * x[3] + 3) % 5
               [] OTHER                    -> x[2]]
TheImm    == [r \in Register |-> (2 * r) % 5]
TheJumpTo == [w \in Words |-> w % (Size + 1)]
TheLink   == [p \in Place |-> p + 1]

TheStart == {[gpr |-> [r \in Register |-> (2 * r) % 5],
              fpr |-> [r \in Register |-> (3 * r + 1) % 5],
              mem |-> [w \in Words |-> (3 * w + 1) % 5]]}

I(op, rd, rs1, rs2, to) ==
  [op |-> op, rd |-> rd, rs1 |-> rs1, rs2 |-> rs2, rs3 |-> 0, to |-> to]

\* Results of every kind: for one register after another, for the register that a
\* floating-point result names in the other file, for memory, and for none.
Code == {I("sub", 1, 2, 1, 0), I("addi", 1, 2, 1, 0), I("addw", 2, 2, 1, 0),
         I("lw", 2, 1, 0, 0), I("sw", 1, 2, 1, 0), I("beq", 0, 0, 0, 1), I("jalr", 1, 2, 0, 0),
         I("fadd", 1, 1, 2, 0), I("fmv_x_w", 1, 2, 0, 0), I("fsw", 1, 1, 1, 0)}

AllPrograms == [0 .. Size - 1 -> Code]
=============================================================================
