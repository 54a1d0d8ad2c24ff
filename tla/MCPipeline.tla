----------------------------- MODULE MCPipeline -----------------------------
(* The instances of Pipeline that TLC checks. *)
EXTENDS PipelineOrder

\* Seven words are enough to tell right operands from wrong ones; the operands
\* of add, sub and fadd do not commute in all of them.
Words == 0 .. 6
TheAlu == [x \in AluSignals \X Words \X Words |->
             CASE x[1] \in {"ADD", "ADDW"} -> (x[2] + x[3]) % 7
               [] x[1] = "SUB"             -> (x[2] + 7 - x[3]) % 7
               [] x[1] = "FADD_S"          -> (x[2] + 2 * x[3] + 3) % 7
               [] OTHER                    -> x[2]]
TheImm    == [r \in Register |-> (2 * r) % 7]
TheJumpTo == [w \in Words |-> w % (Size + 1)]
TheLink   == [p \in Place |-> IF p < Size THEN p + 1 ELSE p]

\* All registers and cells differ from those near them.
TheStart == {[gpr |-> [r \in Register |-> (2 * r) % 7],
              fpr |-> [r \in Register |-> (3 * r + 1) % 7],
              mem |-> [w \in Words |-> (3 * w + 1) % 7]]}

I(op, rd, rs1, rs2, to) ==
  [op |-> op, rd |-> rd, rs1 |-> rs1, rs2 |-> rs2, rs3 |-> (rd + rs2) % 3, to |-> to]

\* Every operation, every pair of registers that depend, and immediates whose
\* bits name a register.
IntegerCode ==
  {Nop,
   I("add", 1, 1, 2, 0), I("sub", 1, 2, 1, 0), I("addi", 2, 1, 1, 0),
   I("lui", 1, 0, 2, 0),
   I("lw", 1, 2, 0, 0), I("lw", 2, 1, 1, 0), I("sw", 0, 2, 1, 0), I("sw", 1, 1, 2, 0),
   I("beq", 0, 0, 0, 2), I("beq", 1, 1, 2, 3), I("bne", 2, 2, 1, 0),
   I("jal", 0, 1, 2, 3), I("jalr", 1, 2, 0, 0)}
OtherCode ==
  {I("jal", 1, 0, 2, 1), I("jalr", 2, 1, 1, 0), I("addw", 1, 1, 2, 0),
   I("fadd", 1, 1, 2, 0), I("flw", 1, 1, 0, 0), I("fsw", 0, 2, 1, 0), I("fsw", 1, 1, 2, 0),
   I("fmv_x_w", 1, 1, 0, 0), I("fmv_w_x", 2, 1, 0, 0)}

AllPrograms == [0 .. Size - 1 -> IntegerCode \cup OtherCode]
IntegerPrograms == [0 .. Size - 1 -> IntegerCode]
=============================================================================
