-------------------------- MODULE MCInstructionSet --------------------------
(* The lines that TLC assembles, shows and executes. *)
EXTENDS InstructionSet

\* The limits of every immediate, the numbers next to them, and offsets that hold, in their
\* upper bits, what marks a floating-point result for a general register.
Numbers == {-4100, -4096, -2049, -2048, -1536, -1504, -1, 0, 2, 5, 31, 32, 63, 64, 1365, 2047, 2048, 4092,
            4096}
Far     == {-1048580, -1048576, -2, 0, 2, 4, 6, 349524, 1048572, 1048575, 1048576}

\* The destination may be register 0; the other operands are told apart by their registers.
Values(op, kind, k) ==
  CASE kind \in {"GPR", "FPR"}   -> IF k = 1 THEN {0, 1} ELSE {k}
    [] kind = "LP_GPR_RP"        -> {k}
    [] kind = "CSR"              -> {2, 3072}
    [] kind = "RM"               -> 0 .. 5
    [] kind = "I"                -> IF op \in {"lui", "auipc", "jal"} THEN Far ELSE Numbers

LinesOf(op, kinds) ==
  LET operands == [k \in DOMAIN kinds |-> {Operand(kinds[k], v) : v \in Values(op, kinds[k], k)}]
      All[n \in 0 .. Len(kinds)] ==
        IF n = 0 THEN {<<>>} ELSE {Append(s, o) : s \in All[n - 1], o \in operands[n]}
  IN {[op |-> op, operands |-> s] : s \in All[Len(kinds)]}

\* The syntaxes the parser has for a name, those it should have, and others.
Forms(op) ==
  (IF op \in DOMAIN instruction_syntax_map
   THEN {kinds \in ToSet(instruction_syntax_map[op]) : "LABEL_REF" \notin ToSet(kinds)} ELSE {})
    \cup (IF op \in {"addiw", "slliw", "srliw", "sraiw"} THEN {O_GPR_C_GPR_C_I} ELSE {})
    \cup (IF op \in {"addw", "subw", "sllw", "srlw", "sraw"} THEN {O_GPR_C_GPR_C_GPR} ELSE {})
    \cup (IF op \in SwappedNames THEN {FloatKinds(op) \o <<"RM">>} ELSE {})

TheLines == UNION {UNION {LinesOf(op, kinds) : kinds \in Forms(op)} : op \in valid_instructions}

\* To nearest even, towards zero, and to nearest with ties away from zero.
AllModes == {0, 1, 4}
=============================================================================
