----------------------------- MODULE Arithmetic -----------------------------
(***************************************************************************)
(* The arithmetic unit asked one question after the other, and what the    *)
(* architecture says the answer is.                                        *)
(*                                                                         *)
(* Operands and Magnitudes bound the operands of two-operand operations;   *)
(* operations of one operand are asked of every number there is.           *)
(***************************************************************************)
EXTENDS LoadImmediate

CONSTANTS Operands, Magnitudes

VARIABLES
  question,   \* the operation and its operands
  answer      \* what the unit answers, the set of none or one

vars == <<question, answer>>

NoQuestion == <<"none">>

Init == question = NoQuestion /\ answer = {}

Ask(questions) ==
  /\ question = NoQuestion
  /\ question' \in questions
  /\ UNCHANGED answer

Give(q, answers) ==
  /\ question = q /\ answer = {}
  /\ \E a \in answers : answer' = {a}
  /\ UNCHANGED question

Integers      == Additions \cup Multiplications \cup Divisions \cup Shifts
Pairs         == {"fmin", "fmax", "feq", "flt", "fle", "fsgnj", "fsgnjn", "fsgnjx", "fdiv"}
IntegerKinds  == {"w", "wu", "l", "lu"}
RoundingModes == 0 .. 3

Floats(mags) == {Float(sign, m) : sign \in {0, 1}, m \in mags}
AllFloats(p) == Floats(Finite(p) \cup {Infinity} \cup NaNs)

\* Alu::execute
Calculate(op, a, b) == Give(<<op, a, b>>, execute(op, a, b))

\* Alu::fpexecute and Alu::dfpexecute, of two numbers
Combined(op, x, y) ==
  CASE op \in {"fmin", "fmax"}               -> {Answer(n) : n \in Extreme(op, x, y)}
    [] op \in {"fsgnj", "fsgnjn", "fsgnjx"}  -> {Answer(SignInjected(op, x, y))}
    [] op \in {"feq", "flt", "fle"}          -> {<<"int", Compared(op, x, y)>>}
    [] op = "fdiv"                           -> {Divided(x, y)}
Combine(op, x, y) == Give(<<op, x, y>>, Combined(op, x, y))

\* ... and of one
Classify(p, x) == Give(<<"fclass", p, x>>, {Class(p, x)})
TakeRoot(p, x) == Give(<<"fsqrt", p, x>>, {Root(x)})
ConvertToInteger(to, p, x, mode)     == Give(<<"to", to, p, x, mode>>, ToInteger(to, p, x, mode))
ConvertFromInteger(from, p, a, mode) == Give(<<"from", from, p, a, mode>>, {FromInteger(from, p, a, mode)})

\* li
LoadConstant(v) == Give(<<"li", v>>, {Loads(v)})

Questions(p) ==
  [integer |-> {<<op, a, b>> : op \in Integers, a \in Operands, b \in Operands},
   pair    |-> {<<op, x, y>> : op \in Pairs, x \in Floats(Magnitudes), y \in Floats(Magnitudes)},
   class   |-> {<<"fclass", p, x>> : x \in AllFloats(p)},
   root    |-> {<<"fsqrt", p, x>> : x \in AllFloats(p)},
   to      |-> {<<"to", to, p, x, mode>> : to \in IntegerKinds, x \in AllFloats(p), mode \in RoundingModes},
   from    |-> {<<"from", from, p, a, mode>> :
                  from \in IntegerKinds, a \in 0 .. 2 ^ Width - 1, mode \in RoundingModes},
   li      |-> {<<"li", v>> : v \in 0 .. 2 ^ Width - 1}]

Topics == {"integer", "pair", "class", "root", "to", "from", "li"}

Next ==
  \/ \E p \in Precisions, t \in Topics : Ask(Questions(p)[t])
  \/ question[1] \in Integers /\ Calculate(question[1], question[2], question[3])
  \/ question[1] \in Pairs /\ Combine(question[1], question[2], question[3])
  \/ question[1] = "fclass" /\ Classify(question[2], question[3])
  \/ question[1] = "fsqrt" /\ TakeRoot(question[2], question[3])
  \/ question[1] = "to" /\ ConvertToInteger(question[2], question[3], question[4], question[5])
  \/ question[1] = "from" /\ ConvertFromInteger(question[2], question[3], question[4], question[5])
  \/ question[1] = "li" /\ LoadConstant(question[2])

Spec == Init /\ [][Next]_vars

-----------------------------------------------------------------------------
(* The architecture. *)

\* An operation on integers of w bits; a word operation is one on the lower halves.
Base(op) ==
  CASE op = "addw" -> "add" [] op = "subw" -> "sub" [] op = "mulw" -> "mul" [] op = "divw" -> "div"
    [] op = "divuw" -> "divu" [] op = "remw" -> "rem" [] op = "remuw" -> "remu" [] op = "sllw" -> "sll"
    [] op = "srlw" -> "srl" [] op = "sraw" -> "sra" [] OTHER -> op
IsWord(op) == Base(op) # op

Exact(op, a, b, w) ==
  LET sa == Signed(a, w)
      sb == Signed(b, w)
      by == 2 ^ (b % w)
  IN CASE op = "add"    -> sa + sb
       [] op = "sub"    -> sa - sb
       [] op = "slt"    -> Truth(sa < sb)
       [] op = "sltu"   -> Truth(a < b)
       [] op = "mul"    -> sa * sb
       [] op = "mulh"   -> (sa * sb) \div 2 ^ w
       [] op = "mulhsu" -> (sa * b) \div 2 ^ w
       [] op = "mulhu"  -> (a * b) \div 2 ^ w
       [] op = "div"    -> IF b = 0 THEN -1 ELSE Quotient(sa, sb)
       [] op = "divu"   -> IF b = 0 THEN -1 ELSE a \div b
       [] op = "rem"    -> IF b = 0 THEN sa ELSE Remainder(sa, sb)
       [] op = "remu"   -> IF b = 0 THEN a ELSE a % b
       [] op = "sll"    -> a * by
       [] op = "srl"    -> a \div by
       [] op = "sra"    -> sa \div by

Specified(op, a, b) == IF IsWord(op) THEN Extended(Exact(Base(op), Low(a), Low(b), Half))
                       ELSE Unsigned(Exact(op, a, b, Width))

\* The numbers in their order, with -0 before +0.
Rank(x) == 2 * Number(x) - x.sign

SpecifiedPair(op, x, y) ==
  CASE op \in {"fmin", "fmax"} ->
         Answer(IF IsNaN(x) THEN IF IsNaN(y) THEN NaN ELSE y
                ELSE IF ~IsNaN(y) /\ (IF op = "fmin" THEN Rank(y) < Rank(x) ELSE Rank(y) > Rank(x)) THEN y
                ELSE x)
    [] op = "fsgnj"  -> Answer([x EXCEPT !.sign = y.sign])
    [] op = "fsgnjn" -> Answer([x EXCEPT !.sign = IF y.sign = 0 THEN 1 ELSE 0])
    [] op = "fsgnjx" -> Answer([x EXCEPT !.sign = IF x.sign = y.sign THEN 0 ELSE 1])
    [] op \in {"feq", "flt", "fle"} ->
         LET d == Number(x) - Number(y)
         IN <<"int", Truth(/\ ~IsNaN(x) /\ ~IsNaN(y)
                           /\ d \in (IF op = "feq" THEN {0} ELSE IF op = "flt" THEN {n \in {d} : n < 0}
                                     ELSE {n \in {d} : n =< 0}))>>
    [] op = "fdiv"   ->
         IF y.mag # 0 THEN ByHost("fdiv", x, y)
         ELSE IF x.mag = 0 \/ IsNaN(x) THEN Answer(NaN)
         ELSE Answer(Float(IF x.sign = y.sign THEN 0 ELSE 1, Infinity))

\* A number has as its class how many of the least numbers of the classes are not above it.
SpecifiedClass(p, x) ==
  LET max == Max(Finite(p))
  IN IF IsNaN(x) THEN IF x.mag = SignalingNaN THEN 8 ELSE 9
     ELSE Cardinality({k \in {Float(1, max), Float(1, Digits(p) - 1), Float(1, 0), Float(0, 0), Float(0, 1),
                              Float(0, Digits(p)), Float(0, Infinity)} : Rank(k) =< Rank(x)})

Clamped(n, to) == IF n > Largest(to) THEN Largest(to) ELSE IF n < Smallest(to) THEN Smallest(to) ELSE n
SpecifiedInteger(to, x, mode) ==
  Register(to, IF IsNaN(x) THEN Largest(to) ELSE Clamped(nearbyint(x, mode), to))

SpecifiedFloat(from, p, a, mode) ==
  RoundedTo(p, 2 * Signed(a % 2 ^ IntWidth(from), IF IsSigned(from) THEN IntWidth(from) ELSE Width + 1), mode)

-----------------------------------------------------------------------------
(* Where the code is known to differ. *)

\* Division by zero answers zero; the most negative number by -1 answers the most positive one;
\* the unsigned word operations leave out the extension of the sign.
Miscalculated(op, a, b) ==
  \/ op \in {"div", "divu", "divuw"} /\ b = 0
  \/ op = "divw" /\ Low(b) = 0
  \/ op = "div" /\ SignedW(a) = IntMin(Width) /\ SignedW(b) = -1
  \/ op \in {"rem", "remu"} /\ b = 0 /\ a # 0
  \/ op \in {"remw", "remuw"} /\ b = 0 /\ Low(a) # 0
  \/ op \in {"divuw", "remuw"} /\ Low(b) # 0 /\ Signed(Exact(Base(op), Low(a), Low(b), Half), Half) < 0

\* C++ leaves the remainder of the most negative number by -1 undefined; the word operations
\* look for zero in the whole register, and then divide by a half of it.
UndefinedInteger(op, a, b) ==
  \/ op = "rem" /\ SignedW(a) = IntMin(Width) /\ SignedW(b) = -1
  \/ op = "remw" /\ SignedH(a) = IntMin(Half) /\ SignedH(b) = -1
  \/ op \in {"divuw", "remw", "remuw"} /\ b # 0 /\ Low(b) = 0

\* The number that the largest integer is rounded to passes for one that fits.
UndefinedConversion(to, p, x) ==
  /\ IsFinite(x) /\ x.sign = 0
  /\ x.mag > 2 * Largest(to) /\ x.mag =< RoundedTo(p, 2 * Largest(to), 0).mag

-----------------------------------------------------------------------------
(* Properties. *)

The(s) == CHOOSE a \in s : TRUE
Answered(kinds) == answer # {} /\ question[1] \in kinds

\* TypeOK: an answer is one, and follows a question.
TypeOK == /\ Cardinality(answer) =< 1
          /\ answer # {} => question # NoQuestion
          /\ Answered(Integers) => The(answer) \in -1 .. 2 ^ Width - 1

\* IntegersAsSpecified: the operations on integers agree with the architecture on every pair of
\* operands, but for Miscalculated, where they all differ, and where C++ leaves them undefined.
IntegersAsSpecified ==
  Answered(Integers) =>
    LET op == question[1]  a == question[2]  b == question[3]
    IN UndefinedInteger(op, a, b)
         \/ (The(answer) = Specified(op, a, b) <=> ~Miscalculated(op, a, b))

\* FloatsAsSpecified: what the code does itself, around the host's arithmetic, agrees with the
\* architecture for all signs, zeros, infinities and NaNs, but for the division of a number other
\* than zero by zero, which answers NaN, and for the minimum and maximum of two NaNs, which are
\* one of the two where the architecture says the canonical one.
FloatsAsSpecified ==
  /\ Answered(Pairs) =>
       LET op == question[1]  x == question[2]  y == question[3]
           right == The(answer) = SpecifiedPair(op, x, y)
       IN IF op \in {"fmin", "fmax"} /\ IsNaN(x) /\ IsNaN(y)
          THEN right <=> \E n \in {x, y} : n = NaN /\ The(answer) = Answer(n)
          ELSE right <=> ~(op = "fdiv" /\ y.mag = 0 /\ x.mag # 0 /\ ~IsNaN(x))
  /\ Answered({"fclass"}) => The(answer) = SpecifiedClass(question[2], question[3])

\* ConversionsSaturate: a conversion answers the number nearest to its operand in the direction of
\* its rounding mode, or the limit nearest to it.  It differs for the conversion of NaN from single
\* precision to a word, and of unsigned long integers to double precision, and is undefined just
\* above the largest integer where that is no float.
ConversionsSaturate ==
  /\ Answered({"to"}) =>
       LET to == question[2]  p == question[3]  x == question[4]
       IN UndefinedConversion(to, p, x)
            \/ (The(answer) = SpecifiedInteger(to, x, question[5])
                  <=> ~(to = "w" /\ p = ".s" /\ IsNaN(x)))
  /\ Answered({"from"}) =>
       LET from == question[2]  p == question[3]  a == question[4]
       IN The(answer) = SpecifiedFloat(from, p, a, question[5])
            <=> ~(from = "lu" /\ p = ".d" /\ a # 0)

\* LoadsItsConstant: the instructions that li becomes leave its number in the register, but for
\* numbers that are peeled down to one just below the limit of 32 bits, which lui and addi would
\* have to reach from above it, and that are not shifted far enough for the error to disappear.
RECURSIVE Peeled(_)
Peeled(v) ==
  IF FitsIn32Bits(v) THEN [number |-> SignedW(v), shift |-> 0]
  ELSE LET rest  == Unsigned(v - LowChunk(v))
           zeros == CountTrailingZeros(rest)
           upper == Peeled(rest \div 2 ^ zeros)
       IN [upper EXCEPT !.shift = @ + zeros]
LoadsItsConstant ==
  Answered({"li"}) =>
    LET peeled == Peeled(question[2])
    IN The(answer) = question[2]
         <=> ~(peeled.number > IntMax(Half) - 2 ^ (Chunk - 1) /\ peeled.shift < Half)
=============================================================================
