----------------------------- MODULE FoldFacts ------------------------------
(***************************************************************************)
(* What it is to fold a sequence from the left.  The operator that is      *)
(* folded is a parameter: a module that folds takes an instance, where     *)
(* FoldLeft of the community modules is Folded by its definition.          *)
(***************************************************************************)
EXTENDS Integers, Sequences, WellFoundedInduction, TLAPS

CONSTANT Op(_, _)   \* what becomes of a value with the next element

Latest(s) == CHOOSE x \in s : \A y \in s : x >= y

\* The value for the positions s of a sequence, from a function for fewer.
At(g, base, seq, s) ==
  IF s = {} THEN base ELSE Op(g[s \ {Latest(s)}], seq[Latest(s)])

Folds(g, base, seq) == g = [s \in SUBSET (1 .. Len(seq)) |-> At(g, base, seq, s)]

Folded(base, seq) == (CHOOSE g : Folds(g, base, seq))[1 .. Len(seq)]

-----------------------------------------------------------------------------

\* Induction over the natural numbers, for a set of them.
LEMMA NaturalSteps ==
  ASSUME NEW S, 0 \in S, \A n \in Nat : n \in S => n + 1 \in S
  PROVE  \A n \in Nat : n \in S
<1> SUFFICES ASSUME Nat \ S # {} PROVE FALSE
  OBVIOUS
<1>1. PICK x \in Nat \ S : \A y \in Nat \ S : <<y, x>> \notin OpToRel(<, Nat)
  BY WFMin, NatLessThanWellFounded, Zenon
<1>2. \A y \in Nat \ S : ~(y < x)
  BY <1>1, Zenon DEF OpToRel
<1>3. x \in Nat /\ x \notin S /\ x # 0
  OBVIOUS
<1>4. x - 1 \in Nat /\ (x - 1) + 1 = x /\ x - 1 < x
  BY <1>3
<1>5. x - 1 \notin S
  <2>1. x - 1 \in S => (x - 1) + 1 \in S
    BY <1>4
  <2> QED BY <1>3, <1>4, <2>1
<1> QED BY <1>2, <1>4, <1>5

\* A nonempty set of positions has a latest one.
LEMMA LatestPosition ==
  ASSUME NEW n \in Nat, NEW s \in SUBSET (1 .. n), s # {}
  PROVE  Latest(s) \in s /\ \A y \in s : y <= Latest(s)
<1> DEFINE S == {k \in Nat : \A t \in SUBSET (1 .. k) : t # {} => \E x \in t : \A y \in t : x >= y}
<1>1. 0 \in S
  <2>1. \A t \in SUBSET (1 .. 0) : t = {}
    OBVIOUS
  <2> QED BY <2>1
<1>2. ASSUME NEW k \in Nat, k \in S PROVE k + 1 \in S
  <2> SUFFICES ASSUME NEW t \in SUBSET (1 .. k + 1), t # {}
               PROVE  \E x \in t : \A y \in t : x >= y
    BY <1>2
  <2>1. CASE k + 1 \in t
    <3>1. \A y \in t : k + 1 >= y
      OBVIOUS
    <3> QED BY <2>1, <3>1
  <2>2. CASE k + 1 \notin t
    <3>1. t \in SUBSET (1 .. k)
      BY <2>2
    <3> QED BY <1>2, <3>1
  <2> QED BY <2>1, <2>2
<1>3. n \in S
  <2> HIDE DEF S
  <2> QED BY <1>1, <1>2, NaturalSteps
<1>4. \E x \in s : \A y \in s : x >= y
  BY <1>3
<1>5. Latest(s) \in s /\ \A y \in s : Latest(s) >= y
  BY <1>4, Zenon DEF Latest
<1>6. \A y \in s : y \in Int
  OBVIOUS
<1> QED BY <1>5, <1>6

\* What remains once the latest position is taken away.
LEMMA Remaining ==
  ASSUME NEW n \in Nat, NEW s \in SUBSET (1 .. n + 1), s # {}
  PROVE  s \ {Latest(s)} \in SUBSET (1 .. n)
<1>1. Latest(s) \in s /\ \A y \in s : y <= Latest(s)
  <2>1. n + 1 \in Nat
    OBVIOUS
  <2> QED BY <2>1, LatestPosition
<1>2. ASSUME NEW y \in s, y # Latest(s) PROVE y \in 1 .. n
  <2>1. y \in 1 .. n + 1 /\ Latest(s) \in 1 .. n + 1 /\ y <= Latest(s)
    BY <1>1
  <2> QED BY <1>2, <2>1
<1> QED BY <1>2

-----------------------------------------------------------------------------

\* A function that folds exists: it is made for more and more positions.
LEMMA FoldsExists ==
  ASSUME NEW A, NEW seq \in Seq(A), NEW base
  PROVE  \E g : Folds(g, base, seq)
<1> DEFINE P == SUBSET (1 .. Len(seq))
           Upto(g, n) == \A s \in P : s \subseteq 1 .. n => g[s] = At(g, base, seq, s)
           F == {n \in Nat : \E g : g = [s \in P |-> g[s]] /\ Upto(g, n)}
<1>1. 0 \in F
  <2> DEFINE g == [s \in P |-> base]
  <2>1. Upto(g, 0)
    BY DEF At
  <2>2. g = [s \in P |-> g[s]]
    OBVIOUS
  <2> HIDE DEF g
  <2> QED BY <2>1, <2>2
<1>2. ASSUME NEW n \in Nat, n \in F PROVE n + 1 \in F
  <2>1. PICK g : g = [s \in P |-> g[s]] /\ Upto(g, n)
    BY <1>2
  <2> DEFINE h == [s \in P |-> IF s \subseteq 1 .. n THEN g[s] ELSE At(g, base, seq, s)]
  <2>2. ASSUME NEW s \in P, s \subseteq 1 .. n + 1 PROVE h[s] = At(h, base, seq, s)
    <3>1. h[s] = At(g, base, seq, s)
      BY <2>1
    <3>2. s # {} => s \ {Latest(s)} \in P /\ s \ {Latest(s)} \subseteq 1 .. n
      BY <2>2, Remaining
    <3>3. s # {} => h[s \ {Latest(s)}] = g[s \ {Latest(s)}]
      BY <3>2
    <3> HIDE DEF h
    <3> QED BY <3>1, <3>3 DEF At
  <2>3. h = [s \in P |-> h[s]]
    OBVIOUS
  <2> HIDE DEF h
  <2>4. Upto(h, n + 1)
    BY <2>2
  <2>5. \E f : f = [s \in P |-> f[s]] /\ Upto(f, n + 1)
    BY <2>3, <2>4
  <2> HIDE DEF P, Upto
  <2> QED BY <2>5
<1>3. Len(seq) \in F
  <2> HIDE DEF F
  <2> QED BY <1>1, <1>2, NaturalSteps
<1>4. PICK g : g = [s \in P |-> g[s]] /\ Upto(g, Len(seq))
  BY <1>3
<1>5. \A s \in P : g[s] = At(g, base, seq, s)
  BY <1>4
<1> QED BY <1>4, <1>5, Zenon DEF Folds

\* Functions that fold two sequences agree as far as the sequences do.
LEMMA FoldsAgree ==
  ASSUME NEW A, NEW seq \in Seq(A), NEW long \in Seq(A), NEW base, NEW g, NEW h,
         Folds(g, base, seq), Folds(h, base, long),
         Len(seq) <= Len(long), \A k \in 1 .. Len(seq) : seq[k] = long[k]
  PROVE  g[1 .. Len(seq)] = h[1 .. Len(seq)]
<1> DEFINE P == SUBSET (1 .. Len(seq))
           F == {n \in Nat : \A s \in P : s \subseteq 1 .. n => g[s] = h[s]}
<1>1. P \subseteq SUBSET (1 .. Len(long))
  OBVIOUS
<1>2. ASSUME NEW s \in P
      PROVE  g[s] = At(g, base, seq, s) /\ h[s] = At(h, base, long, s)
  BY <1>1, Zenon DEF Folds
<1>3. 0 \in F
  <2>1. \A s \in P : s \subseteq 1 .. 0 => s = {}
    OBVIOUS
  <2>2. \A s \in P : s = {} => g[s] = h[s]
    BY <1>2 DEF At
  <2> QED BY <2>1, <2>2
<1>4. ASSUME NEW n \in Nat, n \in F PROVE n + 1 \in F
  <2> SUFFICES ASSUME NEW s \in P, s \subseteq 1 .. n + 1 PROVE g[s] = h[s]
    OBVIOUS
  <2>3. ASSUME s # {} PROVE g[s \ {Latest(s)}] = h[s \ {Latest(s)}] /\ seq[Latest(s)] = long[Latest(s)]
    <3>1. s \ {Latest(s)} \subseteq 1 .. n /\ s \ {Latest(s)} \in P
      BY <2>3, Remaining
    <3>2. Latest(s) \in s
      <4>1. Len(seq) \in Nat
        OBVIOUS
      <4> QED BY <2>3, <4>1, LatestPosition
    <3> QED BY <1>4, <3>1, <3>2
  <2> QED BY <1>2, <2>3 DEF At
<1>5. Len(seq) \in F
  <2> HIDE DEF F
  <2> QED BY <1>3, <1>4, NaturalSteps
<1> QED BY <1>5

-----------------------------------------------------------------------------

\* No element leaves the value as it was.
THEOREM FoldedEmpty ==
  ASSUME NEW base
  PROVE  Folded(base, <<>>) = base
<1>1. <<>> \in Seq({})
  OBVIOUS
<1>2. PICK g : Folds(g, base, <<>>) /\ Folded(base, <<>>) = g[1 .. Len(<<>>)]
  BY <1>1, FoldsExists DEF Folded
<1>3. 1 .. Len(<<>>) = {}
  OBVIOUS
<1>4. g[{}] = At(g, base, <<>>, {})
  BY <1>2, <1>3 DEF Folds
<1> QED BY <1>2, <1>3, <1>4 DEF At

\* One more element is folded last.
THEOREM FoldedAppend ==
  ASSUME NEW A, NEW seq \in Seq(A), NEW e \in A, NEW base
  PROVE  Folded(base, Append(seq, e)) = Op(Folded(base, seq), e)
<1> DEFINE long == Append(seq, e)
           n == Len(seq)
<1>1. /\ long \in Seq(A) /\ Len(long) = n + 1 /\ n \in Nat /\ long[n + 1] = e
      /\ \A k \in 1 .. n : seq[k] = long[k]
  OBVIOUS
<1> HIDE DEF long
<1>2. PICK g : Folds(g, base, seq) /\ Folded(base, seq) = g[1 .. n]
  BY FoldsExists DEF Folded
<1>3. PICK h : Folds(h, base, long) /\ Folded(base, long) = h[1 .. Len(long)]
  <2>1. \E h : Folds(h, base, long)
    BY <1>1, FoldsExists
  <2> QED BY <2>1 DEF Folded
<1>4. h[1 .. n + 1] = At(h, base, long, 1 .. n + 1)
  <2>1. 1 .. n + 1 \in SUBSET (1 .. Len(long))
    BY <1>1
  <2> QED BY <1>3, <2>1, Zenon DEF Folds
<1>5. Latest(1 .. n + 1) = n + 1 /\ 1 .. n + 1 # {} /\ (1 .. n + 1) \ {n + 1} = 1 .. n
  <2>1. 1 .. n + 1 # {} /\ n + 1 \in 1 .. n + 1 /\ n + 1 \in Nat
    BY <1>1
  <2>2. Latest(1 .. n + 1) \in 1 .. n + 1 /\ \A y \in 1 .. n + 1 : y <= Latest(1 .. n + 1)
    BY <2>1, LatestPosition
  <2>3. Latest(1 .. n + 1) = n + 1
    BY <1>1, <2>1, <2>2
  <2> QED BY <1>1, <2>1, <2>3
<1>6. h[1 .. n + 1] = Op(h[1 .. n], e)
  BY <1>1, <1>4, <1>5 DEF At
<1>7. g[1 .. n] = h[1 .. n]
  <2>1. n <= Len(long)
    BY <1>1
  <2> QED BY <1>1, <1>2, <1>3, <2>1, FoldsAgree
<1>8. Len(long) = n + 1
  BY <1>1
<1> QED BY <1>2, <1>3, <1>6, <1>7, <1>8 DEF long

\* At most one more element.
THEOREM FoldedOptional ==
  ASSUME NEW A, NEW seq \in Seq(A), NEW opt, opt = <<>> \/ \E e \in A : opt = <<e>>, NEW base
  PROVE  /\ seq \o opt \in Seq(A)
         /\ Folded(base, seq \o opt) =
              IF opt = <<>> THEN Folded(base, seq) ELSE Op(Folded(base, seq), opt[1])
<1>1. CASE opt = <<>>
  <2>1. seq \o opt = seq
    BY <1>1
  <2> QED BY <1>1, <2>1
<1>2. ASSUME NEW e \in A, opt = <<e>>
      PROVE  /\ seq \o opt \in Seq(A)
             /\ Folded(base, seq \o opt) =
                  IF opt = <<>> THEN Folded(base, seq) ELSE Op(Folded(base, seq), opt[1])
  <2>1. seq \o opt = Append(seq, e) /\ opt # <<>> /\ opt[1] = e
    BY <1>2
  <2>2. Folded(base, Append(seq, e)) = Op(Folded(base, seq), e)
    BY FoldedAppend
  <2> QED BY <2>1, <2>2
<1> QED BY <1>1, <1>2

\* The values the fold of a sequence goes through.
Stages(base, seq) == [i \in 0 .. Len(seq) |-> Folded(base, SubSeq(seq, 1, i))]

\* One more element of the sequence is folded at a time.
THEOREM FoldedPrefixes ==
  ASSUME NEW A, NEW seq \in Seq(A), NEW base, NEW f, f = Stages(base, seq)
  PROVE  /\ f[0] = base
         /\ \A i \in 1 .. Len(seq) : f[i] = Op(f[i - 1], seq[i])
         /\ f[Len(seq)] = Folded(base, seq)
<1>1. /\ Len(seq) \in Nat /\ 0 \in 0 .. Len(seq) /\ Len(seq) \in 0 .. Len(seq)
      /\ f = [i \in 0 .. Len(seq) |-> Folded(base, SubSeq(seq, 1, i))]
  BY DEF Stages
<1>2. SubSeq(seq, 1, 0) = <<>> /\ SubSeq(seq, 1, Len(seq)) = seq
  OBVIOUS
<1>3. f[0] = base
  BY <1>1, <1>2, FoldedEmpty
<1>4. f[Len(seq)] = Folded(base, seq)
  BY <1>1, <1>2
<1>5. ASSUME NEW i \in 1 .. Len(seq)
      PROVE  f[i] = Op(f[i - 1], seq[i])
  <2>1. i - 1 \in 0 .. Len(seq) /\ i \in 0 .. Len(seq)
    OBVIOUS
  <2>2. SubSeq(seq, 1, i - 1) \in Seq(A) /\ seq[i] \in A
    OBVIOUS
  <2>3. SubSeq(seq, 1, i) = Append(SubSeq(seq, 1, i - 1), seq[i])
    OBVIOUS
  <2>4. Folded(base, SubSeq(seq, 1, i)) = Op(Folded(base, SubSeq(seq, 1, i - 1)), seq[i])
    BY <2>2, <2>3, FoldedAppend
  <2> QED BY <1>1, <2>1, <2>4
<1> QED BY <1>3, <1>4, <1>5
=============================================================================
