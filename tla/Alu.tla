-------------------------------- MODULE Alu ---------------------------------
(***************************************************************************)
(* The arithmetic unit: integers of Width bits and of half of it (64 and   *)
(* 32 in the program), and floating-point numbers of two precisions.       *)
(*                                                                         *)
(* Each operator returns the set of the answers the C++ code can give:     *)
(* one, but where its behaviour is undefined or left to the host.  Sums,   *)
(* products, quotients and roots of floating-point numbers are the host's: *)
(* what this module has of them is when the host is asked.  Sums and       *)
(* products of signed integers wrap around: where C++ leaves them          *)
(* undefined, that is what every host does.                                *)
(***************************************************************************)
EXTENDS TwosComplement, FiniteSets, FiniteSetsExt

CONSTANT Width
ASSUME WidthAssumption == \E e \in 2 .. 3 : Width = 2 ^ e

Half == Width \div 2

-----------------------------------------------------------------------------
(* Integers.  A register holds 0 .. 2 ^ Width - 1. *)

Unsigned(n) == n % 2 ^ Width
Low(n)      == n % 2 ^ Half
SignedW(n)  == Signed(n, Width)
SignedH(n)  == Signed(Low(n), Half)

\* mutant: the sign is not carried into the upper half of the register.
SignLost(n) == SignedH(n)
Extended(n) == Unsigned(SignedH(n))

IntMin(w) == -(2 ^ (w - 1))
IntMax(w) == 2 ^ (w - 1) - 1

\* C++ divides towards zero.
Magnitude(n)    == IF n < 0 THEN -n ELSE n
Quotient(m, n)  == LET q == Magnitude(m) \div Magnitude(n) IN IF (m < 0) = (n < 0) THEN q ELSE -q
Remainder(m, n) == m - n * Quotient(m, n)

\* A quotient that does not exist stops the program on most hosts.
Trap     == -1
Undefined == {Trap, 0}

Multiply(op, a, b) ==
  CASE op = "mul"    -> Unsigned(SignedW(a) * SignedW(b))
    [] op = "mulh"   -> Unsigned((SignedW(a) * SignedW(b)) \div 2 ^ Width)
    [] op = "mulhsu" -> Unsigned((SignedW(a) * b) \div 2 ^ Width)
    [] op = "mulhu"  -> (a * b) \div 2 ^ Width
    [] op = "mulw"   -> Extended(SignedH(a) * SignedH(b))

\* mutant: every division looks for zero at half of the register.
HalfIsZero(op, b) == Low(b) = 0

\* Only divw looks for zero at the half it divides by.
DivisorIsZero(op, b) == IF op = "divw" THEN Low(b) = 0 ELSE b = 0

Divide(op, a, b) ==
  CASE op = "div"   -> IF SignedW(a) = IntMin(Width) /\ SignedW(b) = -1 THEN {IntMax(Width)}
                       ELSE {Unsigned(Quotient(SignedW(a), SignedW(b)))}
    [] op = "divw"  -> {Extended(Quotient(SignedH(a), SignedH(b)))}
    [] op = "divu"  -> {a \div b}
    [] op = "divuw" -> IF Low(b) = 0 THEN Undefined ELSE {Low(a) \div Low(b)}
    [] op = "rem"   -> IF SignedW(a) = IntMin(Width) /\ SignedW(b) = -1 THEN Undefined
                       ELSE {Unsigned(Remainder(SignedW(a), SignedW(b)))}
    [] op = "remw"  -> IF Low(b) = 0 \/ (SignedH(a) = IntMin(Half) /\ SignedH(b) = -1) THEN Undefined
                       ELSE {Unsigned(Remainder(SignedH(a), SignedH(b)))}
    [] op = "remu"  -> {a % b}
    [] op = "remuw" -> IF Low(b) = 0 THEN Undefined ELSE {Low(a) % Low(b)}

Amount(op, b) == IF op \in {"sllw", "srlw", "sraw"} THEN b % Half ELSE b % Width

Shift(op, a, b) ==
  LET by == 2 ^ Amount(op, b)
  IN CASE op = "sll"  -> Unsigned(a * by)
       [] op = "srl"  -> a \div by
       [] op = "sra"  -> Unsigned(SignedW(a) \div by)
       [] op = "sllw" -> Extended(Low(a) * by)
       [] op = "srlw" -> Extended(Low(a) \div by)
       [] op = "sraw" -> Extended(SignedH(a) \div by)

Multiplications == {"mul", "mulh", "mulhsu", "mulhu", "mulw"}
Divisions       == {"div", "divw", "divu", "divuw", "rem", "remw", "remu", "remuw"}
Shifts          == {"sll", "srl", "sra", "sllw", "srlw", "sraw"}
Additions       == {"add", "sub", "addw", "subw", "slt", "sltu"}

Truth(b) == IF b THEN 1 ELSE 0

execute(op, a, b) ==
  CASE op = "add"            -> {Unsigned(a + b)}
    [] op = "sub"            -> {Unsigned(a - b)}
    [] op = "addw"           -> {Extended(a + b)}
    [] op = "subw"           -> {Extended(a - b)}
    [] op = "slt"            -> {Truth(SignedW(a) < SignedW(b))}
    [] op = "sltu"           -> {Truth(a < b)}
    [] op \in Multiplications -> {Multiply(op, a, b)}
    [] op \in Divisions      -> IF DivisorIsZero(op, b) THEN {0} ELSE Divide(op, a, b)
    [] op \in Shifts         -> {Shift(op, a, b)}

-----------------------------------------------------------------------------
(* Floating-point numbers: a sign and a magnitude, in halves.  A precision *)
(* has a few numbers below its normal ones, evenly spaced, then as many    *)
(* between one power of two and the next: so that, as in the program, the  *)
(* largest Half-bit integer is a double and not a single, and the largest  *)
(* Width-bit one is neither.                                               *)

Infinity     == 2 ^ 20
SignalingNaN == 2 ^ 20 + 1
QuietNaN     == 2 ^ 20 + 2   \* without a payload
PayloadNaN   == 2 ^ 20 + 3   \* quiet, with that of the signaling one
NaNs         == {SignalingNaN, QuietNaN, PayloadNaN}

Precisions == {".s", ".d"}

Digits(p)    == IF p = ".s" THEN 2 ELSE 2 ^ (Half - 1)   \* normal numbers of one exponent
Normals(p)   == {m * 2 ^ e : m \in Digits(p) .. 2 * Digits(p) - 1, e \in 0 .. Width + 1}
Finite(p)    == 0 .. Digits(p) - 1 \cup Normals(p)

Float(sign, mag) == [sign |-> sign, mag |-> mag]
NaN              == Float(0, QuietNaN)

IsNaN(x)    == x.mag \in NaNs
IsFinite(x) == x.mag < Infinity
Number(x)   == IF x.sign = 1 THEN -x.mag ELSE x.mag   \* of one that is not NaN
Less(x, y)  == ~IsNaN(x) /\ ~IsNaN(y) /\ Number(x) < Number(y)
Equal(x, y) == ~IsNaN(x) /\ ~IsNaN(y) /\ Number(x) = Number(y)
Zero        == Float(0, 0)

\* A magnitude (in halves) or an integer, rounded: to nearest, ties to even; towards zero; down; up.
Choice(below, above, mode, sign, up, tie) ==
  CASE mode = 0 -> IF up \/ tie THEN above ELSE below
    [] mode = 1 -> below
    [] mode = 2 -> IF sign = 1 THEN above ELSE below
    [] mode = 3 -> IF sign = 1 THEN below ELSE above

RoundedTo(p, n, mode) ==   \* the float of a number of halves
  LET sign  == IF n < 0 THEN 1 ELSE 0
      m     == Magnitude(n)
      below == Max({k \in Finite(p) : k =< m})
      above == Min({k \in Finite(p) : k >= m})
      \* the last digit of a number tells which of two neighbours is even
      Odd(k) == LET step == Max({2 ^ e : e \in {e \in 0 .. Width + 1 : e = 0 \/ Digits(p) * 2 ^ e =< k}})
                IN (k \div step) % 2 = 1
  IN Float(sign, IF below = m THEN m
                 ELSE Choice(below, above, mode, sign, m - below > above - m,
                             m - below = above - m /\ Odd(below)))

nearbyint(x, mode) ==
  LET below == x.mag \div 2
      m     == IF x.mag % 2 = 0 THEN below
               ELSE Choice(below, below + 1, mode, x.sign, FALSE, below % 2 = 1)
  IN IF x.sign = 1 THEN -m ELSE m

\* fcvt.w, fcvt.wu, fcvt.l and fcvt.lu.
IntWidth(to)   == IF to \in {"w", "wu"} THEN Half ELSE Width
IsSigned(to)   == to \in {"w", "l"}
Smallest(to)   == IF IsSigned(to) THEN IntMin(IntWidth(to)) ELSE 0
Largest(to)    == IF IsSigned(to) THEN IntMax(IntWidth(to)) ELSE 2 ^ IntWidth(to) - 1
Register(to, n) == IF IntWidth(to) = Half THEN Extended(n) ELSE Unsigned(n)

\* The limits are compared as floats: the largest integer is rounded, perhaps to one more.
BeyondLimits(to, p, x) ==
  ~IsFinite(x) \/ Number(x) > Number(RoundedTo(p, 2 * Largest(to), 0)) \/ Number(x) < 2 * Smallest(to)

\* The single-precision conversion to a word asks for what is greater than zero, the others for
\* what is less.
Saturated(to, p, x) ==
  IF to = "w" /\ p = ".s"
  THEN IF Less(Zero, x) THEN Largest(to) ELSE Smallest(to)
  ELSE IF Less(x, Zero) THEN Smallest(to) ELSE Largest(to)

\* mutant: a conversion truncates, whatever its rounding mode.
ToIntegerTruncated(to, p, x, mode) ==
  {Register(to, IF BeyondLimits(to, p, x) THEN Saturated(to, p, x) ELSE nearbyint(x, 1))}

\* A conversion in C++ of what does not fit is undefined: hosts answer with either limit.
ToInteger(to, p, x, mode) ==
  IF BeyondLimits(to, p, x) THEN {Register(to, Saturated(to, p, x))}
  ELSE LET n == nearbyint(x, mode)
       IN IF n \in Smallest(to) .. Largest(to) THEN {Register(to, n)}
          ELSE {Register(to, Smallest(to)), Register(to, Largest(to))}

\* fcvt.s and fcvt.d.
FromInteger(from, p, a, mode) ==
  LET n == CASE from = "w" -> SignedH(a) [] from = "wu" -> Low(a)
             [] from = "l" -> SignedW(a) [] from = "lu" -> a
  IN IF from = "lu" /\ p = ".d" THEN Zero   \* has no case
     ELSE RoundedTo(p, 2 * n, mode)

Opposite(sign) == 1 - sign

\* mutant: the signs of zeros are not looked at.
ExtremeOfNumbers(op, x, y) ==
  CASE IsNaN(x)                -> {y}
    [] ~IsNaN(x) /\ IsNaN(y)   -> {x}
    [] ~IsNaN(x) /\ ~IsNaN(y)  -> {IF Less(x, y) = (op = "fmin") THEN x ELSE y}

Quieted(x) == IF x.mag = SignalingNaN THEN Float(x.sign, PayloadNaN) ELSE x

\* A zero is the lesser of two if it is negative; one NaN is ignored.  Of two, std::fmin and
\* std::fmax hand back either, a signaling one perhaps quieted.
Extreme(op, x, y) ==
  CASE IsNaN(x) /\ ~IsNaN(y)           -> {y}
    [] ~IsNaN(x) /\ IsNaN(y)           -> {x}
    [] IsNaN(x) /\ IsNaN(y)            -> {x, y, Quieted(x), Quieted(y)}
    [] x.sign # y.sign /\ Equal(x, y)  -> {Float(IF op = "fmin" THEN 1 ELSE 0, 0)}
    [] ~IsNaN(x) /\ ~IsNaN(y) /\ ~(x.sign # y.sign /\ Equal(x, y)) ->
         {IF Less(x, y) = (op = "fmin") THEN x ELSE y}

SignInjected(op, x, y) ==
  Float(CASE op = "fsgnj"  -> y.sign
          [] op = "fsgnjn" -> Opposite(y.sign)
          [] op = "fsgnjx" -> (x.sign + y.sign) % 2, x.mag)

Compared(op, x, y) ==
  Truth(CASE op = "feq" -> Equal(x, y)
          [] op = "flt" -> Less(x, y)
          [] op = "fle" -> Less(x, y) \/ Equal(x, y))

\* The bit of the class, from -infinity to the quiet NaNs.
Class(p, x) ==
  CASE x.mag = Infinity                   -> IF x.sign = 1 THEN 0 ELSE 7
    [] x.mag \in Digits(p) .. Infinity - 1 -> IF x.sign = 1 THEN 1 ELSE 6
    [] x.mag \in 1 .. Digits(p) - 1        -> IF x.sign = 1 THEN 2 ELSE 5
    [] x.mag = 0                          -> IF x.sign = 1 THEN 3 ELSE 4
    [] x.mag = SignalingNaN               -> 8
    [] x.mag \in {QuietNaN, PayloadNaN}   -> 9

\* What is asked of the host, and what the code answers itself.
ByHost(op, x, y) == <<"host", op, x, y>>
Answer(x)        == <<"float", x>>

Divided(x, y) == IF Equal(y, Zero) THEN Answer(NaN) ELSE ByHost("fdiv", x, y)
Root(x)       == IF Less(x, Zero) THEN Answer(NaN) ELSE ByHost("fsqrt", x, Zero)
=============================================================================
