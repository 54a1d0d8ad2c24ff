-------------------------- MODULE AssemblerProofs ---------------------------
(***************************************************************************)
(* Proofs about the assembler, for every text, all pseudo instructions and *)
(* any reach of branches and jumps.                                        *)
(***************************************************************************)
EXTENDS Assembler, FiniteSetTheorems, TLAPS

-----------------------------------------------------------------------------
(* The sections and the addresses of lines, one line after the other. *)

\* A text begins in its text section.
LEMMA SectionFirst == SectionOf(1) = "text"
BY DEF SectionOf

\* A section lasts until the next one is named.
LEMMA SectionNext ==
  ASSUME NEW n \in Nat \ {0}
  PROVE  SectionOf(n + 1) = IF source[n].op \in Sections THEN source[n].op ELSE SectionOf(n)
<1> DEFINE Before(m) == {j \in 1..m - 1 : source[j].op \in Sections}
<1>1. CASE source[n].op \in Sections
  <2>1. n \in Before(n + 1) /\ \A j \in Before(n + 1) : j <= n
    BY <1>1
  <2>2. LastOf(Before(n + 1)) = n
    BY <2>1 DEF LastOf
  <2> QED BY <1>1, <2>1, <2>2 DEF SectionOf
<1>2. CASE source[n].op \notin Sections
  <2>1. Before(n + 1) = Before(n)
    BY <1>2
  <2> QED BY <1>2, <2>1 DEF SectionOf
<1> QED BY <1>1, <1>2

\* The number of machine instructions before a line, and those of a line.
UnitsAt(i) == {i} \X (1..UnitsOf(source[i]))
IndexOf(i) == Cardinality(UnitsAbove(i))
SizeOf(i) == IF i \in Instructions THEN UnitsOf(source[i]) ELSE 0

\* An address counts bytes, an index instructions of four.
LEMMA StartIsIndex ==
  ASSUME NEW i
  PROVE  StartOf(i) = 4 * IndexOf(i)
BY DEF StartOf, IndexOf

\* The instructions are lines, finitely many.
LEMMA InstructionLines ==
  ASSUME source \in Seq(Lines)
  PROVE  /\ Instructions \subseteq 1..Len(source)
         /\ IsFiniteSet(Instructions)
<1>1. Instructions \subseteq 1..Len(source)
  BY DEF Instructions, LinesIn
<1>2. IsFiniteSet(1..Len(source))
  BY FS_Interval
<1> QED BY <1>1, <1>2, FS_Subset

\* Every instruction becomes at least one machine instruction.
LEMMA SizesOfInstructions ==
  ASSUME source \in Seq(Lines), NEW i \in Instructions
  PROVE  /\ SizeOf(i) = UnitsOf(source[i]) /\ SizeOf(i) \in Nat \ {0}
         /\ source[i].op = "address" => SizeOf(i) = 2
         /\ source[i].op \in {"branch", "jump"} => SizeOf(i) = 1
<1>1. source[i] \in Lines
  BY InstructionLines
<1>2. source[i].op = "plain" => source[i].count \in Nat \ {0}
  BY <1>1 DEF Lines
<1>3. UnitsOf(source[i]) \in Nat \ {0}
  BY <1>2 DEF UnitsOf
<1> QED BY <1>3 DEF SizeOf, UnitsOf

\* The machine instructions of one line are as many as it becomes.
LEMMA UnitsOfOneLine ==
  ASSUME source \in Seq(Lines), NEW i \in Instructions
  PROVE  /\ IsFiniteSet(UnitsAt(i))
         /\ Cardinality(UnitsAt(i)) = SizeOf(i)
<1> DEFINE size == UnitsOf(source[i])
<1>1. size = SizeOf(i) /\ size \in Nat \ {0}
  BY SizesOfInstructions
<1> HIDE DEF size
<1>2. IsFiniteSet(1..size) /\ Cardinality(1..size) = size
  <2>1. 1 \in Int /\ size \in Int /\ ~(1 > size) /\ size - 1 + 1 = size
    BY <1>1
  <2> QED BY <2>1, FS_Interval
<1>3. IsFiniteSet({i}) /\ Cardinality({i}) = 1
  BY FS_Singleton
<1>4. IsFiniteSet({i} \X (1..size)) /\ Cardinality({i} \X (1..size)) = 1 * size
  BY ZenonT(30), <1>2, <1>3, FS_Product
<1>5. 1 * size = size
  BY <1>1
<1> QED BY <1>1, <1>4, <1>5 DEF UnitsAt, size

\* A machine instruction is above a line if the line that it is of is.
LEMMA UnitsAboveALine ==
  ASSUME NEW i
  PROVE  \A u : u \in UnitsAbove(i) <=> \E j \in Instructions : j < i /\ u \in UnitsAt(j)
BY DEF UnitsAbove, UnitsAt

\* Nothing stands above the first line.
LEMMA IndexFirst ==
  ASSUME source \in Seq(Lines)
  PROVE  IndexOf(1) = 0
<1>1. \A j \in Instructions : ~(j < 1)
  BY InstructionLines
<1>2. UnitsAbove(1) = {}
  BY <1>1, UnitsAboveALine
<1> QED BY <1>2, FS_EmptySet DEF IndexOf

\* The units above the next line are those above the line, and its own.
LEMMA UnitsNext ==
  ASSUME source \in Seq(Lines), NEW n \in Nat
  PROVE  /\ n \notin Instructions => UnitsAbove(n + 1) = UnitsAbove(n)
         /\ n \in Instructions => /\ UnitsAbove(n + 1) = UnitsAbove(n) \cup UnitsAt(n)
                                  /\ UnitsAbove(n) \cap UnitsAt(n) = {}
<1>1. \A j \in Instructions : j \in Nat /\ (j < n + 1 <=> j < n \/ j = n)
  BY InstructionLines
<1>2. \A u : u \in UnitsAbove(n) <=> \E j \in Instructions : j < n /\ u \in UnitsAt(j)
  BY UnitsAboveALine
<1>3. \A u : u \in UnitsAbove(n + 1) <=> \E j \in Instructions : j < n + 1 /\ u \in UnitsAt(j)
  BY UnitsAboveALine
<1>4. CASE n \notin Instructions
  <2>1. \A u : u \in UnitsAbove(n + 1) <=> u \in UnitsAbove(n)
    BY <1>1, <1>2, <1>3, <1>4
  <2> QED BY <1>4, <2>1
<1>5. CASE n \in Instructions
  <2>1. \A u : u \in UnitsAbove(n + 1) <=> u \in UnitsAbove(n) \/ u \in UnitsAt(n)
    BY <1>1, <1>2, <1>3, <1>5
  <2>2. \A u : u \in UnitsAbove(n) => u \notin UnitsAt(n)
    <3>1. \A j, u : u \in UnitsAt(j) => u[1] = j
      BY DEF UnitsAt
    <3>2. ~(n < n)
      OBVIOUS
    <3> QED BY <1>2, <3>1, <3>2
  <2> QED BY <1>5, <2>1, <2>2
<1> QED BY <1>4, <1>5

\* The units above a line are finitely many.
LEMMA AboveFinite ==
  ASSUME source \in Seq(Lines), NEW i
  PROVE  IsFiniteSet(UnitsAbove(i)) /\ IndexOf(i) \in Nat
<1> DEFINE above == {k \in Instructions : k < i}
           blocks == {UnitsAt(j) : j \in above}
<1>1. IsFiniteSet(above)
  <2>1. above \subseteq Instructions
    OBVIOUS
  <2> QED BY <2>1, InstructionLines, FS_Subset
<1>2. \A j \in above : IsFiniteSet(UnitsAt(j))
  BY UnitsOfOneLine
<1>3. IsFiniteSet(blocks)
  <2> HIDE DEF above
  <2>1. PICK f : f = [j \in above |-> UnitsAt(j)]
    OBVIOUS
  <2>2. f \in Surjection(above, blocks)
    BY <2>1, Zenon DEF Surjection
  <2> HIDE DEF blocks
  <2> QED BY <1>1, <2>2, FS_Surjection
<1>4. \A T \in blocks : IsFiniteSet(T)
  BY <1>2
<1>5. IsFiniteSet(UNION blocks)
  <2> HIDE DEF blocks
  <2> QED BY <1>3, <1>4, FS_UNION
<1>6. UnitsAbove(i) = UNION blocks
  BY DEF UnitsAbove, UnitsAt
<1> QED BY <1>5, <1>6, FS_CardinalityType DEF IndexOf

\* The index grows by what the line becomes.
LEMMA IndexNext ==
  ASSUME source \in Seq(Lines), NEW n \in Nat
  PROVE  IndexOf(n + 1) = IndexOf(n) + SizeOf(n)
<1>1. IndexOf(n) \in Nat /\ IsFiniteSet(UnitsAbove(n))
  BY AboveFinite
<1>2. CASE n \notin Instructions
  <2>1. SizeOf(n) = 0 /\ IndexOf(n + 1) = IndexOf(n)
    BY <1>2, UnitsNext DEF SizeOf, IndexOf
  <2> QED BY <1>1, <2>1
<1>3. CASE n \in Instructions
  <2>1. /\ UnitsAbove(n + 1) = UnitsAbove(n) \cup UnitsAt(n)
        /\ UnitsAbove(n) \cap UnitsAt(n) = {}
    BY <1>3, UnitsNext
  <2>2. IsFiniteSet(UnitsAt(n)) /\ Cardinality(UnitsAt(n)) = SizeOf(n) /\ SizeOf(n) \in Nat
    BY <1>3, UnitsOfOneLine, SizesOfInstructions
  <2>3. Cardinality(UnitsAbove(n) \cup UnitsAt(n)) =
          Cardinality(UnitsAbove(n)) + Cardinality(UnitsAt(n)) - Cardinality({})
    BY <1>1, <2>1, <2>2, FS_Union
  <2>4. Cardinality({}) = 0
    BY FS_EmptySet
  <2>5. IndexOf(n + 1) = IndexOf(n) + SizeOf(n) - 0
    BY <2>1, <2>2, <2>3, <2>4 DEF IndexOf
  <2> QED BY <1>1, <2>2, <2>5
<1> QED BY <1>2, <1>3

\* It never falls.
LEMMA IndexMonotone ==
  ASSUME source \in Seq(Lines), NEW i \in Nat, NEW j \in Nat, i <= j
  PROVE  IndexOf(i) <= IndexOf(j)
<1>1. \A n \in Instructions : n < i => n < j
  BY InstructionLines
<1>2. UnitsAbove(i) \subseteq UnitsAbove(j)
  BY <1>1, UnitsAboveALine
<1> QED BY <1>2, AboveFinite, FS_Subset DEF IndexOf

\* What a line becomes lies before what any later line becomes.
LEMMA IndexApart ==
  ASSUME source \in Seq(Lines), NEW i \in Nat, NEW j \in Nat, i < j
  PROVE  IndexOf(i) + SizeOf(i) <= IndexOf(j)
BY IndexNext, IndexMonotone

-----------------------------------------------------------------------------
(* The inductive invariant, one part for each thing the passes keep. *)

Phases == {"written", "first", "second", "patch", "rejected", "thrown", "mapping",
           "assembled", "loading", "loaded", "stopped"}
Loading == {"loading", "loaded", "stopped"}
Mapping == {"mapping", "assembled"} \cup Loading
Symbols == [address : Nat, isData : BOOLEAN]
Units == [op : Ops \cup {"auipc", "low"}, label : STRING, imms : SUBSET Int, line : Nat]
Elements == [line : Nat, nth : Nat, width : Widths]

TextsTyped ==
  /\ editor \in Programs /\ source \in Seq(Lines) /\ origin \in Seq(Nat)
  /\ Len(origin) = Len(source)
ParserTyped ==
  /\ phase \in Phases /\ at \in Nat \ {0} /\ section \in Sections
  /\ symbols \in [DOMAIN symbols -> Symbols]
  /\ dataIndex \in Nat /\ dataBuffer \in Seq(Elements)
  /\ code \in Seq(Units) /\ backPatch \in Seq(Nat) /\ errors \in SUBSET Nat
ResultsTyped ==
  /\ lineMap \in Seq(Nat)
  /\ memory = [text |-> memory.text, data |-> memory.data]
  /\ dataCounter \in Nat
TypeInv == TextsTyped /\ ParserTyped /\ ResultsTyped

\* The loops end at the end of what they go through.
Bounded ==
  /\ phase \in {"first", "second"} => at <= Len(source) + 1
  /\ phase = "patch" => at <= Len(backPatch) + 1
  /\ phase = "mapping" => at <= Len(code) + 1
  /\ phase = "loading" => at <= Len(dataBuffer) + 1
  /\ \A p \in 1..Len(backPatch) : backPatch[p] < Len(code)

\* What a phase has not begun to fill.
Untouched ==
  /\ phase = "written" => /\ symbols = <<>> /\ dataIndex = 0 /\ dataBuffer = <<>>
                          /\ errors = {}
  /\ phase \in {"written", "first"} => code = <<>> /\ backPatch = <<>>
  /\ phase \notin Mapping => lineMap = <<>>
  /\ phase \notin Loading => memory.data = <<>> /\ dataCounter = 0
  /\ phase \in {"thrown"} \cup Mapping => errors = {}
  /\ phase = "rejected" => errors # {}

\* The section is that of the line the pass is at.
InSection ==
  /\ phase = "written" => section = "text"
  /\ phase \in {"first", "second"} => section = SectionOf(at)

\* The lines before these are through the first pass, and through the second; so are
\* the references before the last one through the back-patching.
DataDone == IF phase = "written" THEN 1 ELSE IF phase = "first" THEN at ELSE Len(source) + 1
TextDone == IF phase \in {"written", "first"} THEN 1
            ELSE IF phase = "second" THEN at ELSE Len(source) + 1
Patched == IF phase \in {"written", "first", "second"} THEN 1
           ELSE IF phase = "patch" THEN at ELSE Len(backPatch) + 1

LabelsIn(s) == {i \in LinesIn(s) : source[i].op = "label"}
IsLast(d, n) ==
  /\ d \in LabelsIn("data") /\ d < n
  /\ \A e \in LabelsIn("data") : e < n /\ source[e].label = source[d].label => e <= d

\* The table has the labels passed so far, and remembers which are of data.
TableKept ==
  /\ \A i \in LabelsIn("data") :
       i < DataDone => source[i].label \in DOMAIN symbols /\ symbols[source[i].label].isData
  /\ \A label \in DOMAIN symbols :
       IF symbols[label].isData
       THEN \E d \in LabelsIn("data") : IsLast(d, DataDone) /\ source[d].label = label
       ELSE \E d \in LabelsIn("text") : d < TextDone /\ source[d].label = label

\* The lines passed without an error, and what they became.
GoodData(i) ==
  \/ source[i].op = "directive"
  \/ source[i].op = "label" /\ i < Len(source) /\ source[i + 1].op \in Directives
DataSound == \A i \in LinesIn("data") : i < DataDone => GoodData(i)
TextSound ==
  \A i \in LinesIn("text") : i < TextDone => source[i].op \in InstructionOps \cup {"label"}
LabelsOnce ==
  \A i \in LabelsIn("text") :
    i < TextDone =>
      /\ source[i].label \in DOMAIN symbols
      /\ symbols[source[i].label] = [address |-> StartOf(i), isData |-> FALSE]
      /\ \A j \in LabelsIn("text") : j < TextDone /\ source[j].label = source[i].label => j = i

\* The offset that la and loads of labels split, and a reference that is resolved.
FromPc(label, index) == DataStart + symbols[label].address - index * 4
Upper(offset) == (offset + 2048) \div 4096
Resolved(i) ==
  LET label == source[i].label
      offset == Offset(label, IndexOf(i))
  IN /\ MayName(source[i].op, label) /\ Reaches(source[i].op, offset)
     /\ code[IndexOf(i) + 1].imms = {offset}
Pending(i) ==
  \E p \in Patched..Len(backPatch) : backPatch[p] = IndexOf(i)

OnItsLine(i) == \A k \in IndexOf(i) + 1 .. IndexOf(i) + SizeOf(i) : code[k].line = i

Emitted(i) ==
  LET unit == code[IndexOf(i) + 1]
      label == source[i].label
      offset == FromPc(label, IndexOf(i))
  IN /\ OnItsLine(i) /\ unit.label = label
     /\ source[i].op # "address" => unit.op = source[i].op
     /\ source[i].op \in {"branch", "jump"} => Resolved(i) \/ Pending(i)
     /\ source[i].op = "address" =>
          /\ label \in DOMAIN symbols /\ symbols[label].isData
          /\ unit.imms = {Upper(offset)}
          /\ code[IndexOf(i) + 2].imms = {offset - Upper(offset) * 4096}

Produced(k) ==
  \E i \in Instructions :
    i < TextDone /\ k \in IndexOf(i) + 1 .. IndexOf(i) + SizeOf(i)

CodeSound ==
  /\ Len(code) = IndexOf(TextDone)
  /\ \A i \in Instructions : i < TextDone => Emitted(i)
  /\ \A p \in 1..Len(backPatch) :
       \E i \in Instructions : /\ i < TextDone /\ backPatch[p] = IndexOf(i)
                               /\ source[i].op \in {"branch", "jump"}
  /\ \A k \in 1..Len(code) : Produced(k)

Clean == errors = {} => DataSound /\ TextSound /\ LabelsOnce /\ CodeSound

\* An error has its reason in the text, and after both passes in the table too.
RefersWell(i) ==
  LET label == source[i].label
      reaches(op) == Reaches(op, StartOf(LastOf(Definitions("text", label))) - StartOf(i))
  IN /\ source[i].op = "branch" => label \in TextLabels /\ reaches("branch")
     /\ source[i].op = "jump" => (label \in TextLabels /\ reaches("jump")) \/ label \in DataLabels
     /\ source[i].op = "address" => label \in DataLabels
SoundSource ==
  /\ \A i \in LinesIn("data") : GoodData(i)
  /\ \A i \in LinesIn("text") : source[i].op \in InstructionOps \cup {"label"}
  /\ \A label \in TextLabels :
       label \notin DataLabels /\ Cardinality(Definitions("text", label)) = 1
  /\ \A i \in Instructions : RefersWell(i)
Blamed ==
  errors # {} => IF phase \in {"first", "second"} THEN ~SoundSource ELSE ~WellFormed

\* The lines up to the last instruction that was mapped go to the next instruction.
Mapped == IF phase = "mapping" THEN at - 1 ELSE Len(code)
IsNext(i, line) ==
  /\ i \in Instructions /\ line <= i
  /\ \A j \in Instructions : line <= j => i <= j
LinesMapped ==
  phase \in Mapping =>
    /\ Len(lineMap) = IF Mapped = 0 THEN 0 ELSE code[Mapped].line
    /\ \A line \in 1..Len(lineMap) :
         \E i \in Instructions : IsNext(i, line) /\ lineMap[line] = IndexOf(i)

\* What the editor's lines became, as long as each became one.
Read == IF phase = "written" THEN at - 1 ELSE Len(editor)
OriginKept ==
  /\ Read <= Len(editor)
  /\ \A j \in 1..Len(source) : origin[j] \in 1..Read
  /\ \A line \in 1..Read + 1 :
       (\A k \in 1..line - 1 : Len(ExpansionOf(editor[k])) = 1) =>
         /\ line - 1 <= Len(source)
         /\ \A j \in 1..Len(source) : origin[j] < line <=> j < line

TextLoaded ==
  phase \in Loading =>
    memory.text = [address \in {4 * (k - 1) : k \in 1..Len(code)} |-> code[address \div 4 + 1]]

\* The places of the elements, as the loader will find them.
EndOf(pos, k) == IF k = 0 THEN 0 ELSE pos[k] + dataBuffer[k].width
Places(pos) ==
  \A k \in 1..Len(dataBuffer) : pos[k] = Align(EndOf(pos, k - 1), dataBuffer[k].width)
JustLabelled == phase = "first" /\ at - 1 \in LabelsIn("data")
IndexKept(pos) ==
  phase = "first" =>
    dataIndex = IF JustLabelled THEN Align(EndOf(pos, Len(dataBuffer)), source[at].width)
                ELSE EndOf(pos, Len(dataBuffer))
LabelsPlaced(pos) ==
  \A d \in LabelsIn("data") :
    IsLast(d, DataDone) =>
      IF JustLabelled /\ d = at - 1 THEN symbols[source[d].label].address = dataIndex
      ELSE \E j \in 1..Len(dataBuffer) :
             /\ dataBuffer[j].line = d + 1 /\ dataBuffer[j].nth = 1
             /\ symbols[source[d].label].address = pos[j]
ElementsLoaded == IF phase = "loading" THEN at - 1 ELSE Len(dataBuffer)
DataLoaded(pos) ==
  phase \in Loading =>
    /\ dataCounter = EndOf(pos, ElementsLoaded)
    /\ DOMAIN memory.data = {DataStart + pos[j] : j \in 1..ElementsLoaded}
    /\ \A j \in 1..ElementsLoaded :
         pos[j] < dataCounter /\ memory.data[DataStart + pos[j]] = dataBuffer[j]
Filled(n) == \A i \in LabelsIn("data") : i < n => source[i + 1].count > 0
LaidOut ==
  errors = {} /\ Filled(DataDone) =>
    \E pos \in [1..Len(dataBuffer) -> Nat] :
      Places(pos) /\ IndexKept(pos) /\ LabelsPlaced(pos) /\ DataLoaded(pos)

-----------------------------------------------------------------------------
(* What stays, and types. *)

\* What is read off the text alone stays once the text does.
LEMMA TextStays ==
  ASSUME source' = source
  PROVE  /\ Instructions' = Instructions
         /\ \A s : LinesIn(s)' = LinesIn(s) /\ LabelsIn(s)' = LabelsIn(s)
         /\ \A i : /\ SectionOf(i)' = SectionOf(i) /\ IndexOf(i)' = IndexOf(i)
                   /\ StartOf(i)' = StartOf(i) /\ SizeOf(i)' = SizeOf(i)
                   /\ GoodData(i)' = GoodData(i)
                   /\ RefersWell(i)' = RefersWell(i)
         /\ \A s, label : Definitions(s, label)' = Definitions(s, label)
         /\ TextLabels' = TextLabels /\ DataLabels' = DataLabels
         /\ SoundSource' = SoundSource
<1>1. \A i : SectionOf(i)' = SectionOf(i)
  BY DEF SectionOf
<1>2. \A s : LinesIn(s)' = LinesIn(s)
  BY <1>1 DEF LinesIn
<1>3. \A s : LabelsIn(s)' = LabelsIn(s)
  BY <1>2 DEF LabelsIn
<1>4. Instructions' = Instructions
  BY <1>2 DEF Instructions
<1>5. \A i : StartOf(i)' = StartOf(i)
  BY <1>4 DEF StartOf, UnitsAbove
<1>6. \A i : IndexOf(i)' = IndexOf(i)
  BY <1>4 DEF IndexOf, UnitsAbove
<1>7. \A i : SizeOf(i)' = SizeOf(i)
  BY <1>4 DEF SizeOf
<1>8. \A s, label : Definitions(s, label)' = Definitions(s, label)
  BY <1>2 DEF Definitions
<1>9. TextLabels' = TextLabels /\ DataLabels' = DataLabels
  BY <1>2 DEF TextLabels, DataLabels
<1>10. \A i : GoodData(i)' = GoodData(i)
  BY DEF GoodData
<1>11. \A i : RefersWell(i)' = RefersWell(i)
  BY <1>5, <1>8, <1>9 DEF RefersWell, Reaches
<1>12. SoundSource' = SoundSource
  BY <1>2, <1>4, <1>8, <1>9, <1>10, <1>11 DEF SoundSource
<1> QED BY <1>1, <1>2, <1>3, <1>4, <1>5, <1>6, <1>7, <1>8, <1>9, <1>10, <1>11, <1>12

\* An aligned index is a multiple of the width, and no smaller.
LEMMA AlignGrows ==
  ASSUME NEW index \in Nat, NEW width \in Widths
  PROVE  /\ Align(index, width) \in Nat /\ index <= Align(index, width)
         /\ Align(index, width) % width = 0
BY DEF Align, Widths

\* What a line of the text consists of.
LEMMA LineTyped ==
  ASSUME TypeInv, NEW i \in 1..Len(source)
  PROVE  /\ source[i].op \in Ops /\ source[i].label \in STRING
         /\ source[i].width \in Widths /\ source[i].count \in Nat
         /\ UnitsOf(source[i]) \in Nat
<1>1. source[i] \in Lines
  BY DEF TypeInv, TextsTyped
<1> QED BY <1>1 DEF Lines, UnitsOf

\* A label that is defined keeps the table one of symbols.
LEMMA DefineTyped ==
  ASSUME symbols \in [DOMAIN symbols -> Symbols], NEW label, NEW address \in Nat,
         NEW isData \in BOOLEAN, Define(label, address, isData)
  PROVE  symbols' \in [DOMAIN symbols' -> Symbols]
<1>1. [address |-> address, isData |-> isData] \in Symbols
  BY DEF Symbols
<1> QED BY <1>1 DEF Define

\* Two sequences, one after the other.
LEMMA Joined ==
  ASSUME NEW S, NEW s \in Seq(S), NEW t \in Seq(S)
  PROVE  /\ s \o t \in Seq(S) /\ Len(s \o t) = Len(s) + Len(t)
         /\ Len(s) \in Nat /\ Len(t) \in Nat
         /\ \A k \in 1..Len(s) : (s \o t)[k] = s[k]
         /\ \A k \in 1..Len(t) : (s \o t)[Len(s) + k] = t[k]
OBVIOUS

\* One and two elements more, of whatever kind.
LEMMA OneMore ==
  ASSUME NEW S, NEW s \in Seq(S), NEW e
  PROVE  /\ Len(s \o <<e>>) = Len(s) + 1 /\ Len(s) \in Nat
         /\ \A k \in 1..Len(s) : (s \o <<e>>)[k] = s[k]
         /\ (s \o <<e>>)[Len(s) + 1] = e
<1>1. s \in Seq(S \cup {e}) /\ <<e>> \in Seq(S \cup {e}) /\ Len(<<e>>) = 1 /\ <<e>>[1] = e
  OBVIOUS
<1> QED BY <1>1, Joined

\* And one with two elements more.
LEMMA TwoMore ==
  ASSUME NEW S, NEW s \in Seq(S), NEW e, NEW f
  PROVE  /\ Len(s \o <<e, f>>) = Len(s) + 2 /\ Len(s) \in Nat
         /\ \A k \in 1..Len(s) : (s \o <<e, f>>)[k] = s[k]
         /\ (s \o <<e, f>>)[Len(s) + 1] = e /\ (s \o <<e, f>>)[Len(s) + 2] = f
<1>1. s \in Seq(S \cup {e, f}) /\ <<e, f>> \in Seq(S \cup {e, f})
  OBVIOUS
<1>2. Len(<<e, f>>) = 2 /\ <<e, f>>[1] = e /\ <<e, f>>[2] = f
  OBVIOUS
<1> QED BY <1>1, <1>2, Joined

\* A function on the first numbers is a sequence.
LEMMA BuiltSequence ==
  ASSUME NEW S, NEW n \in Int, NEW f \in [1..n -> S]
  PROVE  f \in Seq(S) /\ Len(f) = IF n < 0 THEN 0 ELSE n
<1>1. CASE n >= 0
  BY <1>1
<1>2. CASE n < 0
  <2>1. 1..n = 1..0
    BY <1>2
  <2>2. f \in [1..0 -> S]
    BY <2>1
  <2> QED BY <1>2, <2>2
<1> QED BY <1>1, <1>2

\* What the code generator makes of an instruction is a unit of code.
LEMMA UnitTyped ==
  ASSUME NEW op \in Ops \cup {"auipc", "low"}, NEW label \in STRING,
         NEW imms \in SUBSET Int, NEW line \in Nat
  PROVE  Unit(op, label, imms, line) \in Units
BY DEF Unit, Units

\* Setting the immediate of one unit of the code.
LEMMA ImmediateSet ==
  ASSUME NEW c \in Seq(Units), NEW k \in 1..Len(c), NEW imms \in SUBSET Int,
         NEW d, d = [c EXCEPT ![k].imms = imms]
  PROVE  /\ d \in Seq(Units) /\ Len(d) = Len(c)
         /\ \A j \in 1..Len(c) : /\ d[j].op = c[j].op /\ d[j].label = c[j].label
                                 /\ d[j].line = c[j].line
                                 /\ d[j].imms = IF j = k THEN imms ELSE c[j].imms
<1> DEFINE unit == [c[k] EXCEPT !.imms = imms]
<1>1. c[k] \in Units
  OBVIOUS
<1>2. /\ unit \in Units /\ unit.imms = imms
      /\ unit.op = c[k].op /\ unit.label = c[k].label /\ unit.line = c[k].line
  BY <1>1 DEF Units
<1>3. d = [c EXCEPT ![k] = unit]
  OBVIOUS
<1> HIDE DEF unit
<1>4. d \in Seq(Units) /\ Len(d) = Len(c)
  BY <1>2, <1>3
<1>5. \A j \in 1..Len(c) : d[j] = IF j = k THEN unit ELSE c[j]
  BY <1>3
<1> QED BY <1>2, <1>4, <1>5

\* The editor has lines, and nothing else.
LEMMA EditorTyped ==
  ASSUME TypeInv
  PROVE  editor \in Seq(Lines)
BY ProgramsAssumption DEF TypeInv, TextsTyped

\* And so has what one of them expands to.
LEMMA ExpansionTyped ==
  ASSUME TypeInv, NEW i \in 1..Len(editor)
  PROVE  ExpansionOf(editor[i]) \in Seq(Lines)
<1>1. editor \in Seq(Lines)
  BY ProgramsAssumption DEF TypeInv, TextsTyped
<1>2. editor[i] \in Lines
  BY <1>1
<1> QED BY <1>2, CustomAssumption DEF ExpansionOf

\* All has its type when the assembler starts.
LEMMA TypesInitially == Init => TypeInv
<1> SUFFICES ASSUME Init PROVE TypeInv
  OBVIOUS
<1>1. TextsTyped
  BY DEF Init, TextsTyped
<1>2. ParserTyped
  BY DEF Init, ParserTyped, Phases, Sections
<1>3. ResultsTyped
  BY DEF Init, ResultsTyped
<1> QED BY <1>1, <1>2, <1>3 DEF TypeInv

\* And after every step.
LEMMA TypesKept == TypeInv /\ Bounded /\ [Next]_vars => TypeInv'
<1> SUFFICES ASSUME TypeInv, Bounded, [Next]_vars PROVE TypeInv'
  OBVIOUS
<1> USE DEF TypeInv, ParserTyped, parserVars, texts, results
<1>1. TextsTyped'
  <2>1. CASE ExpandLine
    <3> DEFINE new == ExpansionOf(editor[at])
    <3>1. new \in Seq(Lines)
      <4>1. at \in 1..Len(editor)
        BY <2>1, EditorTyped DEF ExpandLine
      <4> QED BY <4>1, ExpansionTyped
    <3> DEFINE from == [n \in 1..Len(new) |-> at]
    <3>2. source' = source \o new /\ origin' = origin \o from /\ editor' = editor
      BY <2>1 DEF ExpandLine
    <3> HIDE DEF new
    <3>3. from \in Seq(Nat)
      <4>1. at \in Nat /\ Len(new) \in Nat
        BY <3>1
      <4> QED BY <4>1
    <3>4. Len(from) = Len(new)
      BY <3>1
    <3> HIDE DEF from
    <3>5. source \in Seq(Lines) /\ origin \in Seq(Nat) /\ Len(origin) = Len(source) /\ editor \in Programs
      BY DEF TextsTyped
    <3>6. source' \in Seq(Lines) /\ Len(source') = Len(source) + Len(new)
      BY <3>1, <3>2, <3>5, Joined
    <3>7. origin' \in Seq(Nat) /\ Len(origin') = Len(source) + Len(new)
      <4>1. origin \o from \in Seq(Nat) /\ Len(origin \o from) = Len(origin) + Len(from)
        BY <3>3, <3>5, Joined
      <4> QED BY <3>2, <3>4, <3>5, <4>1
    <3> QED BY <3>2, <3>5, <3>6, <3>7 DEF TextsTyped
  <2>2. CASE UNCHANGED texts
    BY <2>2 DEF TextsTyped
  <2> QED BY <2>1, <2>2 DEF Next, vars, EndExpansion, EnterSection, SkipLine, DataLabel,
        DataDirective, InvalidDirective, EndFirstPass, TextLabel, LabelledInstruction,
        AddressInstruction, UnlabelledInstruction, InvalidInstruction, EndSecondPass,
        BackPatch, Generate, MapLines, EndMapping, LoadText, LoadElement, EndLoad, SetBreakpoints
<1>2. ResultsTyped'
  <2>1. CASE UNCHANGED results
    BY <2>1 DEF ResultsTyped
  <2>2. CASE MapLines
    <3>1. code[at] \in Units
      BY <2>2 DEF MapLines
    <3>2. code[at].line \in Nat
      BY <3>1 DEF Units
    <3> DEFINE new == [i \in 1..(code[at].line - Len(lineMap)) |-> at - 1]
    <3>3. new \in Seq(Nat)
      <4>1. code[at].line - Len(lineMap) \in Int /\ at - 1 \in Nat
        BY <3>2 DEF ResultsTyped
      <4>2. new \in [1..(code[at].line - Len(lineMap)) -> Nat]
        BY <4>1
      <4>3. \A f : f \in [1..(code[at].line - Len(lineMap)) -> Nat] => f \in Seq(Nat)
        BY <4>1, BuiltSequence
      <4> HIDE DEF new
      <4> QED BY <4>2, <4>3
    <3>4. lineMap' = lineMap \o new
      BY <2>2 DEF MapLines, NewLines
    <3> HIDE DEF new
    <3>5. lineMap' \in Seq(Nat)
      BY <3>3, <3>4 DEF ResultsTyped
    <3> QED BY <2>2, <3>5 DEF MapLines, ResultsTyped
  <2>3. CASE LoadText
    BY <2>3 DEF LoadText, ResultsTyped
  <2>4. CASE LoadElement
    <3>1. dataBuffer[at] \in Elements
      BY <2>4 DEF LoadElement
    <3>2. dataBuffer[at].width \in Widths
      BY <3>1 DEF Elements
    <3>4. Align(dataCounter, dataBuffer[at].width) \in Nat
      BY <3>2, AlignGrows DEF ResultsTyped
    <3>5. dataBuffer[at].width \in Nat
      BY <3>2 DEF Widths
    <3>3. Align(dataCounter, dataBuffer[at].width) + dataBuffer[at].width \in Nat
      BY <3>4, <3>5
    <3> QED BY <2>4, <3>3 DEF LoadElement, ResultsTyped
  <2>5. ASSUME NEW line \in DOMAIN editor, SetBreakpoints({line}) PROVE ResultsTyped'
    BY <2>5 DEF SetBreakpoints, ResultsTyped
  <2> QED BY <2>1, <2>2, <2>3, <2>4, <2>5 DEF Next, vars, ExpandLine, EndExpansion,
        EnterSection, SkipLine, DataLabel, DataDirective, InvalidDirective, EndFirstPass,
        TextLabel, LabelledInstruction, AddressInstruction, UnlabelledInstruction,
        InvalidInstruction, EndSecondPass, BackPatch, Generate, EndMapping, EndLoad
<1>3. ParserTyped'
  <2>1. ASSUME UNCHANGED <<symbols, dataIndex, dataBuffer, code, backPatch>>,
               phase' \in Phases, at' \in Nat \ {0}, section' \in Sections, errors' \in SUBSET Nat
        PROVE  ParserTyped'
    BY <2>1
  <2>2. CASE ExpandLine
    BY <2>1, <2>2 DEF ExpandLine
  <2>3. CASE EndExpansion
    BY <2>1, <2>3 DEF EndExpansion, Phases
  <2>4. ASSUME NEW pass \in {"first", "second"}, EnterSection(pass) PROVE ParserTyped'
    BY <2>1, <2>4 DEF EnterSection
  <2>5. CASE SkipLine
    BY <2>1, <2>5 DEF SkipLine
  <2>6. CASE DataLabel
    <3>1. /\ at + 1 \in 1..Len(source) => source[at + 1].width \in Widths
          /\ source[at].label \in STRING
      <4>1. at \in 1..Len(source)
        BY <2>6 DEF DataLabel, AtLine, TextsTyped
      <4> QED BY <4>1, LineTyped
    <3>2. LabelAddress \in Nat
      <4>1. FollowedByDirective => at + 1 \in 1..Len(source)
        BY DEF FollowedByDirective, TextsTyped
      <4> QED BY <3>1, <4>1, AlignGrows DEF LabelAddress
    <3>3. symbols' \in [DOMAIN symbols' -> Symbols]
      BY <2>6, <3>1, <3>2, DefineTyped DEF DataLabel, Line
    <3> QED BY <2>6, <3>2, <3>3 DEF DataLabel
  <2>7. CASE DataDirective
    <3>1. Line.width \in Widths /\ Line.count \in Nat
      BY <2>7, LineTyped DEF DataDirective, AtLine, Line
    <3>2. dataIndex' \in Nat
      <4>1. Align(dataIndex, Line.width) \in Nat
        BY <3>1, AlignGrows
      <4>2. Line.count * Line.width \in Nat
        BY <3>1 DEF Widths
      <4> QED BY <2>7, <4>1, <4>2 DEF DataDirective
    <3> DEFINE new == [n \in 1..Line.count |-> [line |-> at, nth |-> n, width |-> Line.width]]
    <3>3. new \in Seq(Elements)
      <4>1. \A n \in 1..Line.count : [line |-> at, nth |-> n, width |-> Line.width] \in Elements
        BY <3>1 DEF Elements
      <4>2. new \in [1..Line.count -> Elements]
        BY <4>1
      <4> HIDE DEF new
      <4> QED BY <3>1, <4>2, BuiltSequence
    <3>4. dataBuffer' \in Seq(Elements)
      BY <2>7, <3>3 DEF DataDirective
    <3> QED BY <2>7, <3>2, <3>4 DEF DataDirective
  <2>8. CASE InvalidDirective
    BY <2>1, <2>8 DEF InvalidDirective
  <2>9. CASE EndFirstPass
    BY <2>1, <2>9 DEF EndFirstPass, Phases, Sections
  <2>10. CASE TextLabel
    <3>1. symbols' \in [DOMAIN symbols' -> Symbols] /\ errors' \in SUBSET Nat
      <4>1. CASE Line.label \in DOMAIN symbols
        BY <2>10, <4>1 DEF TextLabel
      <4>2. CASE Line.label \notin DOMAIN symbols
        <5>1. Define(Line.label, Len(code) * 4, FALSE) /\ errors' = errors
          BY <2>10, <4>2 DEF TextLabel, instructionIndex
        <5>2. Len(code) * 4 \in Nat
          OBVIOUS
        <5> QED BY <5>1, <5>2, DefineTyped
      <4> QED BY <4>1, <4>2
    <3> QED BY <2>10, <3>1 DEF TextLabel
  <2>11. CASE LabelledInstruction
    <3>1. Line.label \in STRING /\ Line.op \in Ops
      BY <2>11, LineTyped DEF LabelledInstruction, InText, AtLine, Line
    <3>3. ASSUME Line.label \in DOMAIN symbols PROVE Offset(Line.label, instructionIndex) \in Int
      BY <3>3 DEF Offset, Symbols, instructionIndex
    <3>5. Refuse => code' \in Seq(Units) /\ errors' \in SUBSET Nat
      BY DEF Refuse
    <3>6. ASSUME IsTextLabel(Line.label)
          PROVE  code' \in Seq(Units) /\ backPatch' \in Seq(Nat) /\ errors' \in SUBSET Nat
      <4> DEFINE offset == Offset(Line.label, instructionIndex)
      <4>1. \/ code' = code \o <<Unit(Line.op, Line.label, {offset}, at)>> /\ errors' = errors
            \/ Refuse
        BY <2>11, <3>6 DEF LabelledInstruction, Emit
      <4>2. {offset} \in SUBSET Int
        BY <3>3, <3>6 DEF IsTextLabel
      <4>3. backPatch' = backPatch
        BY <2>11, <3>6 DEF LabelledInstruction
      <4> HIDE DEF offset
      <4>4. Unit(Line.op, Line.label, {offset}, at) \in Units
        BY <3>1, <4>2, UnitTyped
      <4>5. code \o <<Unit(Line.op, Line.label, {offset}, at)>> \in Seq(Units)
        BY <4>4
      <4> QED BY <3>5, <4>1, <4>3, <4>5
    <3>7. ASSUME ~IsTextLabel(Line.label)
          PROVE  code' \in Seq(Units) /\ backPatch' \in Seq(Nat) /\ errors' \in SUBSET Nat
      <4>1. code' = code \o <<Unit(Line.op, Line.label, {}, at)>> /\ errors' = errors
        BY <2>11, <3>7 DEF LabelledInstruction, Emit
      <4>2. backPatch' = Append(backPatch, Len(code))
        BY <2>11, <3>7 DEF LabelledInstruction, instructionIndex
      <4>3. Unit(Line.op, Line.label, {}, at) \in Units
        BY <3>1, UnitTyped
      <4>4. code \o <<Unit(Line.op, Line.label, {}, at)>> \in Seq(Units)
        BY <4>3
      <4>5. Append(backPatch, Len(code)) \in Seq(Nat)
        OBVIOUS
      <4> QED BY <4>1, <4>2, <4>4, <4>5
    <3>4. code' \in Seq(Units) /\ backPatch' \in Seq(Nat) /\ errors' \in SUBSET Nat
      BY <3>6, <3>7
    <3> QED BY <2>11, <3>4 DEF LabelledInstruction
  <2>12. CASE AddressInstruction
    <3>1. Line.label \in STRING
      <4>1. at \in 1..Len(source)
        BY <2>12 DEF AddressInstruction, InText, AtLine, TextsTyped
      <4> QED BY <4>1, LineTyped DEF Line
    <3>3. ASSUME Line.label \in DOMAIN symbols PROVE AddressPair(Line.label) \in Seq(Units)
      <4> DEFINE offset == DataStart + symbols[Line.label].address - instructionIndex * 4
                 hi20 == (offset + 2048) \div 4096
                 lo12 == offset - hi20 * 4096
      <4>1. offset \in Int
        BY <3>3, NumbersAssumption DEF Symbols, instructionIndex
      <4> HIDE DEF offset
      <4>2. hi20 \in Int
        BY <4>1
      <4> HIDE DEF hi20
      <4>3. lo12 \in Int
        BY <4>1, <4>2
      <4> HIDE DEF lo12
      <4>4. AddressPair(Line.label) =
              <<Unit("auipc", Line.label, {hi20}, at), Unit("low", Line.label, {lo12}, at)>>
        BY DEF AddressPair, offset, hi20, lo12
      <4>5. {hi20} \in SUBSET Int /\ {lo12} \in SUBSET Int
        BY <4>2, <4>3
      <4>6. Unit("auipc", Line.label, {hi20}, at) \in Units /\ Unit("low", Line.label, {lo12}, at) \in Units
        BY <3>1, <4>5, UnitTyped
      <4> QED BY <4>4, <4>6
    <3>4. code' \in Seq(Units) /\ errors' \in SUBSET Nat
      <4>1. CASE Line.label \in DOMAIN symbols /\ symbols[Line.label].isData
        <5>1. code' = code \o AddressPair(Line.label) /\ errors' = errors
          BY <2>12, <4>1 DEF AddressInstruction, Emit
        <5> QED BY <3>3, <4>1, <5>1
      <4>2. CASE ~(Line.label \in DOMAIN symbols /\ symbols[Line.label].isData)
        BY <2>12, <4>2 DEF AddressInstruction, Refuse
      <4> QED BY <4>1, <4>2
    <3> QED BY <2>12, <3>4 DEF AddressInstruction
  <2>13. CASE UnlabelledInstruction
    <3>1. Line.label \in STRING /\ Line.op \in Ops
      BY <2>13, LineTyped DEF UnlabelledInstruction, InText, AtLine, Line
    <3> DEFINE unit == Unit(Line.op, Line.label, IF Line.op = "plain" THEN {0} ELSE {}, at)
               units == [n \in 1..UnitsOf(Line) |-> unit]
    <3>2. unit \in Units
      BY <3>1, UnitTyped
    <3>3. code' = code \o units /\ errors' = errors
      BY <2>13 DEF UnlabelledInstruction, Emit
    <3> HIDE DEF unit
    <3>4. units \in Seq(Units)
      <4>1. UnitsOf(Line) \in Nat
        BY <2>13, LineTyped DEF UnlabelledInstruction, InText, AtLine, Line
      <4>2. units \in [1..UnitsOf(Line) -> Units]
        BY <3>2
      <4> HIDE DEF units
      <4> QED BY <4>1, <4>2, BuiltSequence
    <3> HIDE DEF units
    <3>5. code' \in Seq(Units)
      BY <3>3, <3>4
    <3> QED BY <2>13, <3>3, <3>5 DEF UnlabelledInstruction
  <2>14. CASE InvalidInstruction
    BY <2>1, <2>14 DEF InvalidInstruction, Refuse
  <2>15. CASE EndSecondPass
    BY <2>1, <2>15 DEF EndSecondPass, Phases
  <2>16. CASE BackPatch
    <3> DEFINE index == backPatch[at]
               unit == code[index + 1]
               offset == Offset(unit.label, index)
    <3>6. at \in 1..Len(backPatch) /\ backPatch[at] \in Nat
      BY <2>16 DEF BackPatch
    <3>1. ASSUME unit.label \in DOMAIN symbols PROVE offset \in Int
      <4>1. symbols[unit.label].address \in Nat /\ index \in Nat
        BY <3>1, <3>6 DEF Symbols
      <4> HIDE DEF unit, index
      <4> QED BY <4>1 DEF Offset
    <3>2. index + 1 \in 1..Len(code)
      <4>1. at \in 1..Len(backPatch)
        BY <2>16 DEF BackPatch
      <4>2. backPatch[at] \in Nat /\ backPatch[at] < Len(code)
        BY <4>1 DEF Bounded
      <4> QED BY <4>2
    <3>3. ASSUME unit.label \in DOMAIN symbols
          PROVE  [code EXCEPT ![index + 1].imms = {offset}] \in Seq(Units)
      <4>1. {offset} \in SUBSET Int
        BY <3>1, <3>3
      <4> HIDE DEF offset, index
      <4> QED BY <3>2, <4>1, ImmediateSet
    <3>4. code' \in Seq(Units)
      BY <2>16, <3>3 DEF BackPatch, MayName
    <3>5. errors' \in SUBSET Nat
      <4>1. unit \in Units
        BY <3>2
      <4>2. unit.line \in Nat
        BY <4>1 DEF Units
      <4> QED BY <2>16, <4>2 DEF BackPatch
    <3>7. /\ phase' = phase /\ at' = at + 1
          /\ UNCHANGED <<section, symbols, dataIndex, dataBuffer, backPatch>>
      BY <2>16 DEF BackPatch
    <3> HIDE DEF index, unit, offset
    <3> QED BY <3>4, <3>5, <3>7
  <2>17. CASE Generate
    BY <2>1, <2>17 DEF Generate, Phases
  <2>18. CASE MapLines \/ EndMapping \/ LoadText \/ LoadElement \/ EndLoad
    BY <2>1, <2>18 DEF MapLines, EndMapping, LoadText, LoadElement, EndLoad, Phases
  <2>19. ASSUME NEW line \in DOMAIN editor, SetBreakpoints({line}) PROVE ParserTyped'
    BY <2>1, <2>19 DEF SetBreakpoints, Phases
  <2>20. CASE UNCHANGED vars
    BY <2>1, <2>20 DEF vars
  <2> QED BY <2>2, <2>3, <2>4, <2>5, <2>6, <2>7, <2>8, <2>9, <2>10, <2>11, <2>12, <2>13,
             <2>14, <2>15, <2>16, <2>17, <2>18, <2>19, <2>20 DEF Next
<1> QED BY <1>1, <1>2, <1>3

-----------------------------------------------------------------------------
(* The loops, the phases and the section of a line. *)

\* A step of one of the two passes, over one line.
OverLine ==
  /\ phase \in {"first", "second"} /\ at <= Len(source)
  /\ at' = at + 1 /\ UNCHANGED <<texts, phase, results>>
  /\ section' = IF source[at].op \in Sections THEN source[at].op ELSE section
  /\ phase = "first" => UNCHANGED <<code, backPatch>>
  /\ phase = "second" => UNCHANGED <<dataIndex, dataBuffer>>
Later ==
  \/ BackPatch \/ Generate \/ MapLines \/ EndMapping \/ LoadText \/ LoadElement \/ EndLoad
  \/ \E line \in DOMAIN editor : SetBreakpoints({line})

\* The steps, sorted by what they leave alone.
LEMMA Steps ==
  ASSUME [Next]_vars
  PROVE  \/ ExpandLine \/ EndExpansion \/ OverLine \/ EndFirstPass \/ EndSecondPass
         \/ Later \/ UNCHANGED vars
<1> USE DEF OverLine, texts, results, parserVars, AtLine, Line, InText, InstructionOps, Sections,
            Directives
<1>1. ASSUME NEW pass \in {"first", "second"}, EnterSection(pass) PROVE OverLine
  BY <1>1 DEF EnterSection
<1>2. CASE SkipLine
  BY <1>2 DEF SkipLine
<1>3. CASE DataLabel \/ DataDirective \/ InvalidDirective
  BY <1>3 DEF DataLabel, DataDirective, InvalidDirective
<1>4. CASE TextLabel \/ InvalidInstruction
  BY <1>4 DEF TextLabel, InvalidInstruction
<1>5. CASE LabelledInstruction
  BY <1>5 DEF LabelledInstruction
<1>6. CASE AddressInstruction \/ UnlabelledInstruction
  BY <1>6 DEF AddressInstruction, UnlabelledInstruction
<1> QED BY <1>1, <1>2, <1>3, <1>4, <1>5, <1>6 DEF Next, Later

\* No phase fills what belongs to a later one.
LEMMA UntouchedKept == TypeInv /\ Untouched /\ [Next]_vars => Untouched'
<1> SUFFICES ASSUME TypeInv, Untouched, [Next]_vars PROVE Untouched'
  OBVIOUS
<1> USE DEF Untouched, Mapping, Loading, texts, results, parserVars
<1>1. CASE ExpandLine \/ EndExpansion
  BY <1>1 DEF ExpandLine, EndExpansion
<1>2. CASE OverLine
  BY <1>2 DEF OverLine
<1>3. CASE EndFirstPass \/ EndSecondPass
  BY <1>3 DEF EndFirstPass, EndSecondPass
<1>4. CASE BackPatch
  BY <1>4 DEF BackPatch
<1>5. CASE Generate
  BY <1>5 DEF Generate
<1>6. CASE MapLines \/ EndMapping \/ LoadText
  BY <1>6 DEF MapLines, EndMapping, LoadText, TypeInv, ResultsTyped
<1>7. CASE LoadElement \/ EndLoad
  BY <1>7 DEF LoadElement, EndLoad
<1>8. ASSUME NEW line \in DOMAIN editor, SetBreakpoints({line}) PROVE Untouched'
  BY <1>8 DEF SetBreakpoints
<1>9. CASE UNCHANGED vars
  BY <1>9 DEF vars
<1> QED BY <1>1, <1>2, <1>3, <1>4, <1>5, <1>6, <1>7, <1>8, <1>9, Steps DEF Later

\* A pass is always in the section of its line.
LEMMA InSectionKept == TypeInv /\ InSection /\ [Next]_vars => InSection'
<1> SUFFICES ASSUME TypeInv, InSection, [Next]_vars PROVE InSection'
  OBVIOUS
<1> USE DEF InSection, texts, results, parserVars
<1>1. CASE ExpandLine
  BY <1>1 DEF ExpandLine
<1>2. CASE EndExpansion \/ EndFirstPass
  <2>1. source' = source /\ at' = 1 /\ section' = "text"
    BY <1>2 DEF EndExpansion, EndFirstPass
  <2>2. SectionOf(1)' = "text"
    BY <2>1, SectionFirst, TextStays
  <2> QED BY <1>2, <2>1, <2>2 DEF EndExpansion, EndFirstPass
<1>3. CASE OverLine
  <2>1. /\ source' = source /\ at' = at + 1 /\ phase' = phase /\ phase # "written"
        /\ section' = IF source[at].op \in Sections THEN source[at].op ELSE section
    BY <1>3 DEF OverLine
  <2>2. SectionOf(at + 1) = section'
    BY <1>3, <2>1, SectionNext DEF OverLine, TypeInv, ParserTyped
  <2>3. SectionOf(at)' = SectionOf(at + 1)
    BY <2>1 DEF SectionOf
  <2> QED BY <2>1, <2>2, <2>3
<1>4. CASE EndSecondPass \/ Later
  BY <1>4 DEF EndSecondPass, Later, BackPatch, Generate, MapLines, EndMapping, LoadText,
              LoadElement, EndLoad, SetBreakpoints
<1>5. CASE UNCHANGED vars
  BY <1>5 DEF vars, SectionOf
<1> QED BY <1>1, <1>2, <1>3, <1>4, <1>5, Steps

-----------------------------------------------------------------------------
(* What a line does in each of the two passes. *)

\* What a line is to the pass that is at it.
LEMMA LineKinds ==
  ASSUME TypeInv, InSection, phase \in {"first", "second"}, at <= Len(source)
  PROVE  /\ at \in 1..Len(source)
         /\ \A s : at \in LinesIn(s) <=> source[at].op \notin Sections /\ section = s
         /\ at \in LabelsIn("text") <=> section = "text" /\ source[at].op = "label"
         /\ at \in LabelsIn("data") <=> section = "data" /\ source[at].op = "label"
         /\ at \in Instructions <=> section = "text" /\ source[at].op \in InstructionOps
<1>1. at \in 1..Len(source) /\ 1..Len(source) = DOMAIN source
  BY DEF TypeInv, TextsTyped, ParserTyped
<1>2. \A s : at \in LinesIn(s) <=> source[at].op \notin Sections /\ section = s
  BY <1>1 DEF LinesIn, InSection
<1> QED BY <1>1, <1>2 DEF LabelsIn, Instructions, Sections, InstructionOps

FirstSkips == at \notin LinesIn("data") /\ UNCHANGED <<symbols, dataIndex, dataBuffer, errors>>
SecondSkips == at \notin LinesIn("text") /\ UNCHANGED <<symbols, code, backPatch, errors>>

\* What the first pass does with a line, and with which.
LEMMA FirstSteps ==
  ASSUME TypeInv, InSection, [Next]_vars, OverLine, phase = "first"
  PROVE  \/ FirstSkips
         \/ DataLabel /\ at \in LabelsIn("data")
         \/ DataDirective /\ at \in LinesIn("data") /\ source[at].op \in Directives
         \/ /\ InvalidDirective /\ at \in LinesIn("data")
            /\ source[at].op \notin Directives \cup {"label"}
<1> USE DEF FirstSkips, parserVars, Line
<1>1. /\ at \in 1..Len(source) /\ at' # at
      /\ \A s : at \in LinesIn(s) <=> source[at].op \notin Sections /\ section = s
  BY LineKinds DEF OverLine, TypeInv, ParserTyped, TextsTyped
<1>2. ASSUME NEW pass \in {"first", "second"}, EnterSection(pass) PROVE FirstSkips
  BY <1>1, <1>2, LineKinds DEF EnterSection
<1>3. CASE SkipLine
  BY <1>1, <1>3, LineKinds DEF SkipLine, AtLine
<1>4. CASE DataLabel
  <2>1. section = "data" /\ source[at].op = "label"
    BY <1>4 DEF DataLabel
  <2> QED BY <1>1, <1>4, <2>1 DEF LabelsIn, Sections
<1>5. CASE DataDirective
  BY <1>1, <1>5, LineKinds DEF DataDirective, Sections, Directives
<1>6. CASE InvalidDirective
  <2>1. section = "data" /\ source[at].op \notin Sections \cup Directives \cup {"label"}
    BY <1>6 DEF InvalidDirective
  <2> QED BY <1>1, <1>6, <2>1
<1>7. ~(TextLabel \/ LabelledInstruction \/ AddressInstruction \/ UnlabelledInstruction
        \/ InvalidInstruction)
  BY DEF TextLabel, LabelledInstruction, AddressInstruction, UnlabelledInstruction,
         InvalidInstruction, InText, AtLine
<1>8. ~(ExpandLine \/ EndExpansion \/ EndSecondPass \/ Later)
  BY DEF ExpandLine, EndExpansion, EndSecondPass, Later, BackPatch, Generate, MapLines,
         EndMapping, LoadText, LoadElement, EndLoad, SetBreakpoints
<1>9. ~EndFirstPass /\ ~UNCHANGED vars
  BY <1>1 DEF EndFirstPass, OverLine, vars, TypeInv, TextsTyped
<1> QED BY <1>2, <1>3, <1>4, <1>5, <1>6, <1>7, <1>8, <1>9 DEF Next, Later

\* What the second pass does with a line, and with which.
LEMMA SecondSteps ==
  ASSUME TypeInv, InSection, [Next]_vars, OverLine, phase = "second"
  PROVE  \/ SecondSkips
         \/ TextLabel /\ at \in LabelsIn("text")
         \/ LabelledInstruction /\ at \in Instructions /\ source[at].op \in {"branch", "jump"}
         \/ AddressInstruction /\ at \in Instructions /\ source[at].op = "address"
         \/ /\ UnlabelledInstruction /\ at \in Instructions
            /\ source[at].op \in {"plain", "pseudoBranch"}
         \/ /\ InvalidInstruction /\ at \in LinesIn("text")
            /\ source[at].op \notin InstructionOps \cup {"label"}
<1> USE DEF SecondSkips, parserVars, Line
<1>1. /\ at \in 1..Len(source) /\ at' # at
      /\ \A s : at \in LinesIn(s) <=> source[at].op \notin Sections /\ section = s
  BY LineKinds DEF OverLine, TypeInv, ParserTyped, TextsTyped
<1>2. ASSUME NEW pass \in {"first", "second"}, EnterSection(pass) PROVE SecondSkips
  BY <1>1, <1>2, LineKinds DEF EnterSection
<1>3. CASE SkipLine
  BY <1>1, <1>3, LineKinds DEF SkipLine, AtLine
<1>4. CASE TextLabel
  <2>1. section = "text" /\ source[at].op = "label"
    BY <1>4 DEF TextLabel, InText
  <2> QED BY <1>1, <1>4, <2>1 DEF LabelsIn, Sections
<1>5. CASE LabelledInstruction
  BY <1>1, <1>5, LineKinds DEF LabelledInstruction, InText, InstructionOps
<1>6. CASE AddressInstruction
  BY <1>1, <1>6, LineKinds DEF AddressInstruction, InText, InstructionOps
<1>7. CASE UnlabelledInstruction
  BY <1>1, <1>7, LineKinds DEF UnlabelledInstruction, InText, InstructionOps
<1>8. CASE InvalidInstruction
  <2>1. section = "text" /\ source[at].op \in Directives \cup {"malformed", "custom"}
    BY <1>8 DEF InvalidInstruction, InText
  <2> QED BY <1>1, <1>8, <2>1 DEF InstructionOps, Sections, Directives
<1>9. ~(DataLabel \/ DataDirective \/ InvalidDirective)
  BY DEF DataLabel, DataDirective, InvalidDirective, AtLine
<1>10. ~(ExpandLine \/ EndExpansion \/ EndFirstPass \/ Later)
  BY DEF ExpandLine, EndExpansion, EndFirstPass, Later, BackPatch, Generate, MapLines,
         EndMapping, LoadText, LoadElement, EndLoad, SetBreakpoints
<1>11. ~EndSecondPass /\ ~UNCHANGED vars
  BY <1>1 DEF EndSecondPass, OverLine, vars, TypeInv, TextsTyped
<1> QED BY <1>2, <1>3, <1>4, <1>5, <1>6, <1>7, <1>8, <1>9, <1>10, <1>11 DEF Next, Later

\* What the second pass emits for a line, when it emits anything: the code with more units
\* behind it.
Grown(units) ==
  /\ Len(code') = Len(code) + Len(units)
  /\ \A k \in 1..Len(code) : code'[k] = code[k]
  /\ \A k \in 1..Len(units) : code'[Len(code) + k] = units[k]

\* A branch or a jump is resolved, refused, or left for the back-patching.
LEMMA LabelledEmits ==
  ASSUME TypeInv, LabelledInstruction
  PROVE  LET label == source[at].label
             op == source[at].op
             offset == Offset(label, Len(code))
         IN \/ /\ IsTextLabel(label) /\ Reaches(op, offset)
               /\ Grown(<<Unit(op, label, {offset}, at)>>)
               /\ UNCHANGED <<backPatch, errors>>
            \/ /\ IsTextLabel(label) /\ ~Reaches(op, offset)
               /\ errors' = errors \cup {at} /\ UNCHANGED <<code, backPatch>>
            \/ /\ ~IsTextLabel(label)
               /\ Grown(<<Unit(op, label, {}, at)>>)
               /\ backPatch' = Append(backPatch, Len(code)) /\ errors' = errors
<1> DEFINE label == source[at].label
           op == source[at].op
           offset == Offset(label, Len(code))
<1>0. code \in Seq(Units)
  BY DEF TypeInv, ParserTyped
<1>1. ASSUME NEW unit, code' = code \o <<unit>> PROVE Grown(<<unit>>)
  <2>1. Len(<<unit>>) = 1 /\ <<unit>>[1] = unit
    OBVIOUS
  <2> QED BY <1>0, <1>1, <2>1, OneMore DEF Grown
<1>2. CASE IsTextLabel(label) /\ Reaches(op, offset)
  <2>1. code' = code \o <<Unit(op, label, {offset}, at)>> /\ UNCHANGED <<backPatch, errors>>
    BY <1>2 DEF LabelledInstruction, Line, Emit, instructionIndex
  <2> QED BY <1>1, <1>2, <2>1
<1>3. CASE IsTextLabel(label) /\ ~Reaches(op, offset)
  BY <1>3 DEF LabelledInstruction, Line, Refuse, instructionIndex
<1>4. CASE ~IsTextLabel(label)
  <2>1. /\ code' = code \o <<Unit(op, label, {}, at)>> /\ errors' = errors
        /\ backPatch' = Append(backPatch, Len(code))
    BY <1>4 DEF LabelledInstruction, Line, Emit, instructionIndex
  <2> QED BY <1>1, <1>4, <2>1
<1> QED BY <1>2, <1>3, <1>4

\* The address of a data label is two instructions, or refused.
LEMMA AddressEmits ==
  ASSUME TypeInv, AddressInstruction
  PROVE  LET label == source[at].label
             offset == FromPc(label, Len(code))
         IN \/ /\ label \in DOMAIN symbols /\ symbols[label].isData
               /\ Grown(<<Unit("auipc", label, {Upper(offset)}, at),
                          Unit("low", label, {offset - Upper(offset) * 4096}, at)>>)
               /\ UNCHANGED <<backPatch, errors>>
            \/ /\ ~(label \in DOMAIN symbols /\ symbols[label].isData)
               /\ errors' = errors \cup {at} /\ UNCHANGED <<code, backPatch>>
<1> DEFINE label == source[at].label
           offset == FromPc(label, Len(code))
           unit == Unit("auipc", label, {Upper(offset)}, at)
           low == Unit("low", label, {offset - Upper(offset) * 4096}, at)
<1>0. code \in Seq(Units)
  BY DEF TypeInv, ParserTyped
<1>1. CASE label \in DOMAIN symbols /\ symbols[label].isData
  <2>1. code' = code \o AddressPair(label) /\ UNCHANGED <<backPatch, errors>>
    BY <1>1 DEF AddressInstruction, Line, Emit
  <2>2. AddressPair(label) = <<unit, low>>
    BY DEF AddressPair, FromPc, Upper, instructionIndex
  <2>3. Grown(<<unit, low>>)
    <3> HIDE DEF unit, low
    <3>1. Len(<<unit, low>>) = 2 /\ <<unit, low>>[1] = unit /\ <<unit, low>>[2] = low
      OBVIOUS
    <3> QED BY <1>0, <2>1, <2>2, <3>1, TwoMore DEF Grown
  <2> QED BY <1>1, <2>1, <2>3
<1>2. CASE ~(label \in DOMAIN symbols /\ symbols[label].isData)
  BY <1>2 DEF AddressInstruction, Line, Refuse
<1> QED BY <1>1, <1>2

\* Any other instruction is as many as it is written for, and none is refused.
LEMMA UnlabelledEmits ==
  ASSUME TypeInv, UnlabelledInstruction
  PROVE  /\ \E imms : Grown([n \in 1..UnitsOf(source[at]) |->
                               Unit(source[at].op, source[at].label, imms, at)])
         /\ UnitsOf(source[at]) \in Nat
         /\ UNCHANGED <<backPatch, errors>>
<1> DEFINE unit == Unit(source[at].op, source[at].label,
                        IF source[at].op = "plain" THEN {0} ELSE {}, at)
           units == [n \in 1..UnitsOf(source[at]) |-> unit]
<1>0. code \in Seq(Units) /\ at \in 1..Len(source)
  BY DEF TypeInv, TextsTyped, ParserTyped, UnlabelledInstruction, InText, AtLine
<1>1. code' = code \o units /\ UNCHANGED <<backPatch, errors>>
  BY DEF UnlabelledInstruction, Line, Emit
<1>2. UnitsOf(source[at]) \in Nat
  BY <1>0, LineTyped
<1>3. Grown(units)
  <2> HIDE DEF unit
  <2>1. PICK S : S = Units \cup {unit}
    OBVIOUS
  <2>2. units \in Seq(S) /\ code \in Seq(S)
    BY <1>0, <1>2, <2>1
  <2> HIDE DEF units
  <2> QED BY <1>1, <2>2, Joined DEF Grown
<1> QED BY <1>1, <1>2, <1>3

\* The lines that are through, step by step.
LEMMA Progress ==
  ASSUME TypeInv, Bounded
  PROVE  /\ ExpandLine \/ EndExpansion \/ UNCHANGED vars =>
              DataDone' = DataDone /\ TextDone' = TextDone /\ Patched' = Patched
         /\ EndFirstPass \/ EndSecondPass =>
              DataDone' = DataDone /\ TextDone' = TextDone /\ Patched' = Patched
         /\ Later => /\ DataDone' = DataDone /\ TextDone' = TextDone
                     /\ DataDone = Len(source) + 1 /\ TextDone = Len(source) + 1
                     /\ UNCHANGED <<texts, symbols, dataIndex, dataBuffer, backPatch>>
                     /\ phase \notin {"written", "first", "second"}
                     /\ phase' \notin {"written", "first", "second"}
         /\ OverLine /\ phase = "first" =>
              /\ DataDone = at /\ DataDone' = at + 1 /\ Patched' = Patched
              /\ TextDone = 1 /\ TextDone' = 1
         /\ OverLine /\ phase = "second" =>
              /\ TextDone = at /\ TextDone' = at + 1 /\ Patched = 1 /\ Patched' = 1
              /\ DataDone' = DataDone /\ DataDone = Len(source) + 1
         /\ DataDone \in Nat /\ TextDone \in Nat /\ TextDone <= Len(source) + 1
<1> USE DEF DataDone, TextDone, Patched, texts, results, parserVars
<1>0. at \in Nat \ {0} /\ Len(source) \in Nat /\ Len(backPatch) \in Nat /\ phase \in Phases
  BY DEF TypeInv, TextsTyped, ParserTyped
<1>1. ASSUME ExpandLine \/ EndExpansion \/ UNCHANGED vars
      PROVE  DataDone' = DataDone /\ TextDone' = TextDone /\ Patched' = Patched
  BY <1>1 DEF ExpandLine, EndExpansion, vars
<1>2. ASSUME EndFirstPass \/ EndSecondPass
      PROVE  DataDone' = DataDone /\ TextDone' = TextDone /\ Patched' = Patched
  <2>1. CASE EndFirstPass
    BY <1>0, <2>1 DEF EndFirstPass, Bounded
  <2>2. CASE EndSecondPass
    BY <1>0, <2>2 DEF EndSecondPass, Bounded
  <2> QED BY <1>2, <2>1, <2>2
<1>3. ASSUME Later
      PROVE  /\ DataDone' = DataDone /\ TextDone' = TextDone
             /\ DataDone = Len(source) + 1 /\ TextDone = Len(source) + 1
             /\ UNCHANGED <<texts, symbols, dataIndex, dataBuffer, backPatch>>
             /\ phase \notin {"written", "first", "second"}
             /\ phase' \notin {"written", "first", "second"}
  <2> USE <1>0
  <2>1. CASE BackPatch
    BY <2>1 DEF BackPatch
  <2>2. CASE Generate
    BY <2>2 DEF Generate
  <2>3. CASE MapLines \/ EndMapping \/ LoadText \/ LoadElement \/ EndLoad
    BY <2>3 DEF MapLines, EndMapping, LoadText, LoadElement, EndLoad
  <2>4. ASSUME NEW line \in DOMAIN editor, SetBreakpoints({line})
        PROVE  /\ UNCHANGED <<texts, symbols, dataIndex, dataBuffer, backPatch>>
               /\ phase = "loaded" /\ phase' = "stopped"
    BY <2>4 DEF SetBreakpoints
  <2>5. CASE \E line \in DOMAIN editor : SetBreakpoints({line})
    BY <2>4, <2>5
  <2> QED BY <1>3, <2>1, <2>2, <2>3, <2>5 DEF Later
<1>4. ASSUME OverLine, phase = "first"
      PROVE  /\ DataDone = at /\ DataDone' = at + 1 /\ Patched' = Patched
             /\ TextDone = 1 /\ TextDone' = 1
  BY <1>0, <1>4 DEF OverLine
<1>5. ASSUME OverLine, phase = "second"
      PROVE  /\ TextDone = at /\ TextDone' = at + 1 /\ Patched = 1 /\ Patched' = 1
             /\ DataDone' = DataDone /\ DataDone = Len(source) + 1
  BY <1>0, <1>5 DEF OverLine
<1>6. DataDone \in Nat /\ TextDone \in Nat /\ TextDone <= Len(source) + 1
  <2>1. phase \in {"first", "second"} => at <= Len(source) + 1
    BY DEF Bounded
  <2> QED BY <1>0, <2>1
<1> QED BY <1>1, <1>2, <1>3, <1>4, <1>5, <1>6

\* A definition changes the entry of its own label only.
LEMMA DefineKeeps ==
  ASSUME NEW label, NEW address, NEW isData \in BOOLEAN, Define(label, address, isData)
  PROVE  /\ DOMAIN symbols' = DOMAIN symbols \cup {label}
         /\ symbols'[label] = [address |-> address, isData |-> isData]
         /\ symbols'[label].address = address /\ (symbols'[label].isData <=> isData)
         /\ \A l \in DOMAIN symbols : l # label => symbols'[l] = symbols[l]
<1>1. symbols' = [l \in DOMAIN symbols \cup {label} |->
                IF l = label THEN [address |-> address, isData |-> isData] ELSE symbols[l]]
  BY DEF Define
<1>2. symbols'[label] = [address |-> address, isData |-> isData]
  BY <1>1
<1>3. symbols'[label].address = address /\ symbols'[label].isData = isData
  BY <1>2
<1>4. symbols'[label].isData <=> isData
  BY <1>3
<1> QED BY <1>1, <1>2, <1>3, <1>4

\* No loop goes beyond the end of what it goes through.
LEMMA BoundedKept == TypeInv /\ Untouched /\ InSection /\ Bounded /\ [Next]_vars => Bounded'
<1> SUFFICES ASSUME TypeInv, Untouched, InSection, Bounded, [Next]_vars PROVE Bounded'
  OBVIOUS
<1> USE DEF texts, results, parserVars
<1>0. /\ at \in Nat \ {0} /\ code \in Seq(Units) /\ backPatch \in Seq(Nat)
      /\ source \in Seq(Lines) /\ dataBuffer \in Seq(Elements)
  BY DEF TypeInv, TextsTyped, ParserTyped
<1> DEFINE Referring == \A p \in 1..Len(backPatch) : backPatch[p] < Len(code)
<1>1. CASE ExpandLine \/ EndExpansion
  <2>1. phase' \in {"written", "first"} /\ (phase' = "first" => at' = 1 /\ source' = source)
        /\ UNCHANGED <<code, backPatch>>
    BY <1>1 DEF ExpandLine, EndExpansion
  <2> QED BY <1>0, <2>1 DEF Bounded
<1>2. CASE EndFirstPass \/ EndSecondPass
  <2>1. phase' \in {"second", "patch"} /\ at' = 1 /\ UNCHANGED <<source, code, backPatch>>
    BY <1>2 DEF EndFirstPass, EndSecondPass
  <2> QED BY <1>0, <2>1 DEF Bounded
<1>3. CASE OverLine
  <2>1. /\ at' = at + 1 /\ at <= Len(source) /\ source' = source /\ phase' = phase
        /\ phase \in {"first", "second"}
    BY <1>3 DEF OverLine
  <2>2. Referring'
    <3>1. CASE UNCHANGED <<code, backPatch>>
      BY <3>1 DEF Bounded
    <3>2. CASE Len(code) <= Len(code') /\ Len(code') \in Nat /\ backPatch' = backPatch
      <4>1. \A p \in 1..Len(backPatch) : backPatch[p] \in Nat /\ backPatch[p] < Len(code)
        BY <1>0 DEF Bounded
      <4> QED BY <1>0, <3>2, <4>1
    <3>3. CASE /\ Len(code') = Len(code) + 1
               /\ backPatch' = Append(backPatch, Len(code))
      <4>1. \A p \in 1..Len(backPatch) : backPatch[p] \in Nat /\ backPatch[p] < Len(code)
        BY <1>0 DEF Bounded
      <4> QED BY <1>0, <3>3, <4>1
    <3>4. CASE phase = "first"
      BY <1>3, <3>1, <3>4 DEF OverLine
    <3>5. CASE phase = "second"
      <4>1. CASE SecondSkips \/ TextLabel \/ InvalidInstruction
        BY <3>1, <4>1 DEF SecondSkips, TextLabel, InvalidInstruction, Refuse
      <4>2. CASE LabelledInstruction
        <5> DEFINE label == source[at].label
                   op == source[at].op
                   offset == Offset(label, Len(code))
        <5>1. CASE Grown(<<Unit(op, label, {offset}, at)>>) /\ backPatch' = backPatch
          BY <1>0, <3>2, <5>1 DEF Grown
        <5>2. CASE /\ Grown(<<Unit(op, label, {}, at)>>)
                   /\ backPatch' = Append(backPatch, Len(code))
          BY <3>3, <5>2 DEF Grown
        <5> QED BY <3>1, <4>2, <5>1, <5>2, LabelledEmits
      <4>3. CASE AddressInstruction
        <5>1. backPatch' = backPatch
          BY <4>3 DEF AddressInstruction
        <5>2. Len(code') = Len(code) \/ Len(code') = Len(code) + 2
          BY <4>3, AddressEmits DEF Grown
        <5> QED BY <1>0, <3>2, <5>1, <5>2
      <4>4. CASE UnlabelledInstruction
        <5>1. PICK units : Grown(units) /\ Len(units) \in Nat
          BY <4>4, UnlabelledEmits
        <5>2. Len(code') = Len(code) + Len(units)
          BY <5>1 DEF Grown
        <5>3. backPatch' = backPatch
          BY <4>4, UnlabelledEmits
        <5> QED BY <1>0, <3>2, <5>1, <5>2, <5>3
      <4> QED BY <1>3, <3>5, <4>1, <4>2, <4>3, <4>4, SecondSteps
    <3> QED BY <2>1, <3>4, <3>5
  <2> QED BY <1>0, <2>1, <2>2 DEF Bounded
<1>4. CASE BackPatch
  <2>1. /\ phase = "patch" /\ phase' = "patch" /\ at <= Len(backPatch) /\ at' = at + 1
        /\ backPatch' = backPatch
    BY <1>4 DEF BackPatch
  <2>2. Len(code') = Len(code)
    BY <1>0, <1>4 DEF BackPatch
  <2> QED BY <1>0, <2>1, <2>2 DEF Bounded
<1>5. CASE Generate
  BY <1>0, <1>5 DEF Generate, Bounded
<1>6. CASE MapLines \/ EndMapping \/ LoadText
  BY SMTT(30), <1>0, <1>6 DEF MapLines, EndMapping, LoadText, Bounded
<1>7. CASE LoadElement \/ EndLoad
  BY <1>0, <1>7 DEF LoadElement, EndLoad, Bounded
<1>8. ASSUME NEW line \in DOMAIN editor, SetBreakpoints({line}) PROVE Bounded'
  BY <1>8 DEF SetBreakpoints, Bounded
<1>9. CASE UNCHANGED vars
  BY <1>9 DEF vars, Bounded
<1> QED BY <1>1, <1>2, <1>3, <1>4, <1>5, <1>6, <1>7, <1>8, <1>9, Steps DEF Later

-----------------------------------------------------------------------------
(* The table of the labels. *)

\* The lines of a section, its labels and its instructions.
LEMMA LinesTyped ==
  ASSUME TypeInv
  PROVE  /\ \A s : LinesIn(s) \subseteq 1..Len(source) /\ LabelsIn(s) \subseteq LinesIn(s)
         /\ Instructions \subseteq LinesIn("text")
         /\ Len(source) \in Nat /\ source \in Seq(Lines) /\ at \in Nat \ {0}
BY DEF TypeInv, TextsTyped, ParserTyped, LinesIn, LabelsIn, Instructions

\* Which definition of a label is the last depends on the text alone.
LEMMA LastStays ==
  ASSUME source' = source
  PROVE  \A d, n : IsLast(d, n)' <=> IsLast(d, n)
BY TextStays DEF IsLast

\* A step that defines no label leaves the table right.
LEMMA TableStays ==
  ASSUME source' = source, symbols' = symbols, DataDone' = DataDone, TextDone' = TextDone,
         TableKept
  PROVE  TableKept'
BY TextStays DEF TableKept, IsLast

\* So does one that defines a text label.
LEMMA TableOfTextLabel ==
  ASSUME TypeInv, TableKept, Bounded, OverLine, phase = "second", TextLabel,
         at \in LabelsIn("text")
  PROVE  TableKept'
<1> DEFINE new == source[at].label
<1>1. /\ TextDone = at /\ TextDone' = at + 1 /\ DataDone' = DataDone /\ source' = source
      /\ at \in Nat \ {0}
  BY Progress DEF OverLine, texts, TypeInv, ParserTyped
<1>2. \A s : LabelsIn(s)' = LabelsIn(s) /\ LabelsIn(s) \subseteq Nat
  BY <1>1, TextStays, LinesTyped
<1>3. \A d, n : IsLast(d, n)' <=> IsLast(d, n)
  BY <1>1, LastStays
<1>4. CASE symbols' = symbols
  <2>1. \A label \in DOMAIN symbols : ~symbols[label].isData =>
          \E d \in LabelsIn("text") : d < TextDone' /\ source[d].label = label
    BY <1>1, <1>2 DEF TableKept
  <2> QED BY <1>1, <1>2, <1>3, <1>4, <2>1 DEF TableKept
<1>5. CASE new \notin DOMAIN symbols /\ Define(new, Len(code) * 4, FALSE)
  <2>1. /\ DOMAIN symbols' = DOMAIN symbols \cup {new} /\ ~symbols'[new].isData
        /\ \A l \in DOMAIN symbols : l # new /\ symbols'[l] = symbols[l]
    <3>1. symbols' = [l \in DOMAIN symbols \cup {new} |->
                        IF l = new THEN [address |-> Len(code) * 4, isData |-> FALSE] ELSE symbols[l]]
      BY <1>5 DEF Define
    <3> HIDE DEF new
    <3>2. symbols'[new] = [address |-> Len(code) * 4, isData |-> FALSE]
      BY <3>1
    <3>3. symbols'[new].isData = FALSE
      BY <3>2
    <3> QED BY <1>5, <3>1, <3>3
  <2>2. \A i \in LabelsIn("data") :
          i < DataDone => source[i].label \in DOMAIN symbols' /\ symbols'[source[i].label].isData
    BY <2>1 DEF TableKept
  <2>3. \A label \in DOMAIN symbols' :
          symbols'[label].isData => \E d \in LabelsIn("data") : IsLast(d, DataDone) /\ source[d].label = label
    BY <2>1 DEF TableKept
  <2>4. \A label \in DOMAIN symbols' :
          ~symbols'[label].isData => \E d \in LabelsIn("text") : d < at + 1 /\ source[d].label = label
    <3>1. at < at + 1 /\ at \in LabelsIn("text")
      BY <1>1
    <3>2. \A label \in DOMAIN symbols : ~symbols[label].isData =>
            \E d \in LabelsIn("text") : d < at + 1 /\ source[d].label = label
      BY <1>1, <1>2 DEF TableKept
    <3> QED BY <2>1, <3>1, <3>2
  <2> QED BY <1>1, <1>2, <1>3, <2>2, <2>3, <2>4 DEF TableKept
<1> QED BY <1>4, <1>5 DEF TextLabel, Line, instructionIndex

\* And one that defines a data label.
LEMMA TableOfDataLabel ==
  ASSUME TypeInv, TableKept, Bounded, OverLine, phase = "first", DataLabel,
         at \in LabelsIn("data")
  PROVE  TableKept'
<1> DEFINE new == source[at].label
<1>1. /\ DataDone = at /\ DataDone' = at + 1 /\ TextDone' = 1 /\ TextDone = 1 /\ source' = source
      /\ at \in Nat \ {0}
  <2>1. at \in Nat \ {0} /\ source' = source
    BY DEF OverLine, texts, TypeInv, ParserTyped
  <2> QED BY <2>1, Progress
<1>2. \A s : LabelsIn(s)' = LabelsIn(s) /\ LabelsIn(s) \subseteq Nat
  BY <1>1, TextStays, LinesTyped
<1>3. \A d, n : IsLast(d, n)' <=> IsLast(d, n)
  BY <1>1, LastStays
<1>4. Define(new, LabelAddress, TRUE)
  BY DEF DataLabel, Line
<1> HIDE DEF new
<1>5. /\ DOMAIN symbols' = DOMAIN symbols \cup {new} /\ symbols'[new].isData
      /\ \A l \in DOMAIN symbols : l # new => symbols'[l] = symbols[l]
  BY <1>4, DefineKeeps
<1>6. \A i \in LabelsIn("data") :
        i < at + 1 => source[i].label \in DOMAIN symbols' /\ symbols'[source[i].label].isData
  <2>1. \A i \in LabelsIn("data") : i < at + 1 <=> i < at \/ i = at
    BY <1>1, <1>2
  <2> QED BY <1>1, <1>5, <2>1 DEF TableKept, new
<1>7. \A label \in DOMAIN symbols' :
        symbols'[label].isData => \E d \in LabelsIn("data") : IsLast(d, at + 1) /\ source[d].label = label
  <2>1. IsLast(at, at + 1)
    BY <1>1, <1>2 DEF IsLast
  <2>2. ASSUME NEW d \in LabelsIn("data"), IsLast(d, at), source[d].label # new
        PROVE  IsLast(d, at + 1)
    <3>1. \A e \in LabelsIn("data") : e < at + 1 /\ source[e].label = source[d].label => e < at
      <4>1. \A e \in LabelsIn("data") : e \in Nat
        BY <1>2
      <4>2. source[at].label # source[d].label
        BY <2>2 DEF new
      <4> QED BY <1>1, <4>1, <4>2
    <3> QED BY <1>1, <1>2, <2>2, <3>1 DEF IsLast
  <2>3. \A label \in DOMAIN symbols :
          symbols[label].isData => \E d \in LabelsIn("data") : IsLast(d, at) /\ source[d].label = label
    BY <1>1 DEF TableKept
  <2>4. source[at].label = new
    BY DEF new
  <2> QED BY <1>5, <2>1, <2>2, <2>3, <2>4
<1>8. \A label \in DOMAIN symbols' : symbols'[label].isData
  <2>1. \A label \in DOMAIN symbols : symbols[label].isData
    BY <1>1, <1>2, LinesTyped DEF TableKept
  <2> QED BY <1>5, <2>1
<1> QED BY <1>1, <1>2, <1>3, <1>6, <1>7, <1>8 DEF TableKept

\* The table is empty before the passes begin.
LEMMA TableInitially == TypeInv /\ Untouched /\ phase = "written" => TableKept
<1> SUFFICES ASSUME TypeInv, Untouched, phase = "written" PROVE TableKept
  OBVIOUS
<1>1. DataDone = 1 /\ DOMAIN symbols = {}
  BY DEF DataDone, Untouched
<1>2. \A i \in LabelsIn("data") : ~(i < 1)
  BY LinesTyped
<1> QED BY <1>1, <1>2 DEF TableKept

\* Every step leaves the table right.
LEMMA TableStep ==
  TypeInv /\ Untouched /\ InSection /\ Bounded /\ TableKept /\ TypeInv' /\ Untouched' /\ [Next]_vars
    => TableKept'
<1> SUFFICES ASSUME TypeInv, Untouched, InSection, Bounded, TableKept, TypeInv', Untouched', [Next]_vars
             PROVE  TableKept'
  OBVIOUS
<1>1. CASE ExpandLine
  <2>1. DataDone' = 1 /\ DOMAIN symbols' = {}
    BY <1>1 DEF ExpandLine, Untouched, DataDone, parserVars
  <2>2. \A i \in LabelsIn("data")' : ~(i < 1)
    BY DEF LabelsIn, LinesIn, TypeInv, TextsTyped
  <2> QED BY <2>1, <2>2 DEF TableKept
<1>2. CASE EndExpansion \/ EndFirstPass \/ EndSecondPass \/ Later \/ UNCHANGED vars
  <2>1. UNCHANGED <<source, symbols>>
    BY <1>2, Progress DEF EndExpansion, EndFirstPass, EndSecondPass, vars, texts, parserVars
  <2>2. DataDone' = DataDone /\ TextDone' = TextDone
    BY <1>2, Progress
  <2> QED BY <2>1, <2>2, TableStays
<1>3. CASE OverLine /\ phase = "first"
  <2>1. DataDone = at /\ DataDone' = at + 1 /\ TextDone' = TextDone /\ source' = source
    BY <1>3, Progress DEF OverLine, texts
  <2>2. CASE UNCHANGED symbols /\ at \notin LabelsIn("data")
    <3>1. \A i \in LabelsIn("data") : i < at + 1 <=> i < at
      BY <2>2, LinesTyped
    <3>2. \A d : IsLast(d, at + 1) <=> IsLast(d, at)
      BY <3>1 DEF IsLast
    <3>3. \A d, n : IsLast(d, n)' <=> IsLast(d, n)
      BY <2>1, LastStays
    <3>4. \A s : LabelsIn(s)' = LabelsIn(s)
      BY <2>1, TextStays
    <3> QED BY <2>1, <2>2, <3>1, <3>2, <3>3, <3>4 DEF TableKept
  <2>3. CASE FirstSkips
    BY <2>2, <2>3, LinesTyped DEF FirstSkips
  <2>4. CASE DataDirective /\ source[at].op \in Directives
    BY <2>2, <2>4 DEF DataDirective, LabelsIn, Directives
  <2>5. CASE InvalidDirective /\ source[at].op # "label"
    BY <2>2, <2>5 DEF InvalidDirective, LabelsIn, parserVars
  <2> QED BY <1>3, <2>3, <2>4, <2>5, FirstSteps, TableOfDataLabel
<1>4. CASE OverLine /\ phase = "second"
  <2>1. /\ DataDone' = DataDone /\ TextDone = at /\ TextDone' = at + 1 /\ source' = source
        /\ at \in Nat
    BY <1>4, Progress DEF OverLine, texts, TypeInv, ParserTyped
  <2>2. CASE UNCHANGED symbols
    <3>1. \A i \in LabelsIn("text") : i < at => i < at + 1
      BY <2>1, LinesTyped
    <3>3. \A d, n : IsLast(d, n)' <=> IsLast(d, n)
      BY <2>1, LastStays
    <3>4. \A s : LabelsIn(s)' = LabelsIn(s)
      BY <2>1, TextStays
    <3> QED BY <2>1, <2>2, <3>1, <3>3, <3>4 DEF TableKept
  <2>3. CASE SecondSkips \/ LabelledInstruction \/ AddressInstruction \/ UnlabelledInstruction
             \/ InvalidInstruction
    BY <2>2, <2>3 DEF SecondSkips, LabelledInstruction, AddressInstruction,
          UnlabelledInstruction, InvalidInstruction
  <2> QED BY <1>4, <2>3, SecondSteps, TableOfTextLabel
<1> QED BY <1>1, <1>2, <1>3, <1>4, Steps DEF OverLine

-----------------------------------------------------------------------------
(* As long as there is no error, what is through was sound. *)

\* No error is ever taken back.
LEMMA ErrorsGrow ==
  ASSUME TypeInv, InSection, [Next]_vars
  PROVE  errors \subseteq errors'
<1>1. CASE OverLine /\ phase = "first"
  BY <1>1, FirstSteps DEF FirstSkips, DataLabel, DataDirective, InvalidDirective
<1>2. CASE OverLine /\ phase = "second"
  <2>1. CASE SecondSkips \/ TextLabel \/ InvalidInstruction
    BY <2>1 DEF SecondSkips, TextLabel, InvalidInstruction, Refuse
  <2>2. CASE LabelledInstruction
    BY <2>2, LabelledEmits
  <2>3. CASE AddressInstruction
    BY <2>3, AddressEmits
  <2>4. CASE UnlabelledInstruction
    BY <2>4, UnlabelledEmits
  <2> QED BY <1>2, <2>1, <2>2, <2>3, <2>4, SecondSteps
<1>3. CASE ExpandLine \/ EndExpansion \/ EndFirstPass \/ EndSecondPass \/ UNCHANGED vars
  BY <1>3 DEF ExpandLine, EndExpansion, EndFirstPass, EndSecondPass, vars
<1>4. CASE BackPatch
  BY <1>4 DEF BackPatch
<1>5. CASE Generate \/ MapLines \/ EndMapping \/ LoadText \/ LoadElement \/ EndLoad
  BY <1>5 DEF Generate, MapLines, EndMapping, LoadText, LoadElement, EndLoad
<1>6. ASSUME NEW line \in DOMAIN editor, SetBreakpoints({line}) PROVE errors \subseteq errors'
  BY <1>6 DEF SetBreakpoints
<1> QED BY <1>1, <1>2, <1>3, <1>4, <1>5, <1>6, Steps DEF OverLine, Later

\* What the first pass goes over without an error the section may have.
LEMMA DataSoundKept ==
  ASSUME TypeInv, InSection, Bounded, DataSound, TypeInv', [Next]_vars, errors' = {}
  PROVE  DataSound'
<1>1. CASE ExpandLine
  <2>1. DataDone' = 1
    BY <1>1 DEF ExpandLine, DataDone
  <2> QED BY <2>1 DEF DataSound, LinesIn, TypeInv, TextsTyped
<1>2. CASE EndExpansion \/ EndFirstPass \/ EndSecondPass \/ Later \/ UNCHANGED vars
         \/ (OverLine /\ phase = "second")
  <2>1. source' = source /\ DataDone' = DataDone
    BY <1>2, Progress DEF EndExpansion, EndFirstPass, EndSecondPass, OverLine, vars, texts
  <2> QED BY <2>1, TextStays DEF DataSound
<1>3. CASE OverLine /\ phase = "first"
  <2>1. DataDone = at /\ DataDone' = at + 1 /\ source' = source /\ at \in Nat
    BY <1>3, Progress DEF OverLine, texts, TypeInv, ParserTyped
  <2>2. at \in LinesIn("data") => GoodData(at)
    <3>1. CASE DataLabel /\ at \in LabelsIn("data")
      <4>1. FollowedByDirective
        BY <3>1 DEF DataLabel
      <4> QED BY <3>1, <4>1 DEF FollowedByDirective, GoodData, LabelsIn
    <3>2. ~InvalidDirective
      BY DEF InvalidDirective
    <3>3. DataDirective => source[at].op # "zero"
      BY DEF DataDirective, Line
    <3> QED BY <1>3, <3>1, <3>2, <3>3, FirstSteps DEF FirstSkips, GoodData, Directives
  <2>3. \A i \in LinesIn("data") : i < at + 1 <=> i < at \/ i = at
    BY <2>1, LinesTyped
  <2> QED BY <2>1, <2>2, <2>3, TextStays DEF DataSound
<1> QED BY <1>1, <1>2, <1>3, Steps DEF OverLine

\* And so for the second pass.
LEMMA TextSoundKept ==
  ASSUME TypeInv, InSection, Bounded, TextSound, TypeInv', [Next]_vars, errors' = {}
  PROVE  TextSound'
<1>1. CASE ExpandLine
  <2>1. TextDone' = 1
    BY <1>1 DEF ExpandLine, TextDone
  <2> QED BY <2>1 DEF TextSound, LinesIn, TypeInv, TextsTyped
<1>2. CASE EndExpansion \/ EndFirstPass \/ EndSecondPass \/ Later \/ UNCHANGED vars
         \/ (OverLine /\ phase = "first")
  <2>1. source' = source /\ TextDone' = TextDone
    BY <1>2, Progress DEF EndExpansion, EndFirstPass, EndSecondPass, OverLine, vars, texts
  <2> QED BY <2>1, TextStays DEF TextSound
<1>3. CASE OverLine /\ phase = "second"
  <2>1. TextDone = at /\ TextDone' = at + 1 /\ source' = source /\ at \in Nat
    BY <1>3, Progress DEF OverLine, texts, TypeInv, ParserTyped
  <2>2. at \in LinesIn("text") => source[at].op \in InstructionOps \cup {"label"}
    <3>1. ~InvalidInstruction
      BY DEF InvalidInstruction, Refuse
    <3> QED BY <1>3, <3>1, SecondSteps DEF SecondSkips, LabelsIn, Instructions
  <2>3. \A i \in LinesIn("text") : i < at + 1 <=> i < at \/ i = at
    BY <2>1, LinesTyped
  <2> QED BY <2>1, <2>2, <2>3, TextStays DEF TextSound
<1> QED BY <1>1, <1>2, <1>3, Steps DEF OverLine

\* The table is only added to after the first pass.
TableGrows == \A label \in DOMAIN symbols :
                label \in DOMAIN symbols' /\ symbols'[label] = symbols[label]

\* The second pass defines labels and forgets none.
LEMMA TableOnlyGrows ==
  ASSUME TypeInv, InSection, OverLine, phase = "second", [Next]_vars
  PROVE  TableGrows
<1>1. CASE UNCHANGED symbols
  BY <1>1 DEF TableGrows
<1>2. CASE TextLabel
  <2>1. CASE Line.label \in DOMAIN symbols
    BY <1>1, <1>2, <2>1 DEF TextLabel
  <2>2. CASE Line.label \notin DOMAIN symbols
    <3>1. Define(Line.label, instructionIndex * 4, FALSE)
      BY <1>2, <2>2 DEF TextLabel
    <3> QED BY <2>2, <3>1 DEF Define, TableGrows
  <2> QED BY <2>1, <2>2
<1>3. CASE SecondSkips \/ LabelledInstruction \/ AddressInstruction \/ UnlabelledInstruction
           \/ InvalidInstruction
  BY <1>1, <1>3 DEF SecondSkips, LabelledInstruction, AddressInstruction,
        UnlabelledInstruction, InvalidInstruction
<1> QED BY <1>2, <1>3, SecondSteps

\* A text label that passes without an error is new, and gets its address.
LEMMA LabelsOnceKept ==
  ASSUME TypeInv, InSection, Bounded, LabelsOnce, TypeInv', [Next]_vars, errors' = {},
         Len(code) = IndexOf(TextDone)
  PROVE  LabelsOnce'
<1>1. CASE ExpandLine
  <2>1. TextDone' = 1
    BY <1>1 DEF ExpandLine, TextDone
  <2> QED BY <2>1 DEF LabelsOnce, LabelsIn, LinesIn, TypeInv, TextsTyped
<1>2. CASE EndExpansion \/ EndFirstPass \/ EndSecondPass \/ Later \/ UNCHANGED vars
  <2>1. UNCHANGED <<source, symbols>> /\ TextDone' = TextDone
    BY <1>2, Progress DEF EndExpansion, EndFirstPass, EndSecondPass, vars, texts, parserVars
  <2> QED BY <2>1, TextStays DEF LabelsOnce
<1>3. CASE OverLine /\ phase = "first"
  <2>1. source' = source /\ TextDone' = 1
    BY <1>3, Progress DEF OverLine, texts
  <2> QED BY <2>1 DEF LabelsOnce, LabelsIn, LinesIn, TypeInv, TextsTyped
<1>4. CASE OverLine /\ phase = "second"
  <2>1. TextDone = at /\ TextDone' = at + 1 /\ source' = source /\ at \in Nat
    BY <1>4, Progress DEF OverLine, texts, TypeInv, ParserTyped
  <2>2. \A i \in LabelsIn("text") : i < at + 1 <=> i < at \/ i = at
    BY <2>1, LinesTyped
  <2>3. TableGrows
    BY <1>4, TableOnlyGrows
  <2>4. CASE at \notin LabelsIn("text")
    <3>1. \A i \in LabelsIn("text") : i < at + 1 =>
            /\ source[i].label \in DOMAIN symbols'
            /\ symbols'[source[i].label] = [address |-> StartOf(i), isData |-> FALSE]
            /\ \A j \in LabelsIn("text") : j < at + 1 /\ source[j].label = source[i].label => j = i
      BY <2>1, <2>2, <2>3, <2>4 DEF LabelsOnce, TableGrows
    <3> QED BY <2>1, <3>1, TextStays DEF LabelsOnce
  <2>5. CASE TextLabel /\ at \in LabelsIn("text")
    <3>1. Line.label \notin DOMAIN symbols /\ Define(Line.label, instructionIndex * 4, FALSE)
      BY <2>5 DEF TextLabel
    <3>2. instructionIndex * 4 = StartOf(at)
      BY <2>1, StartIsIndex, AboveFinite, LinesTyped DEF instructionIndex
    <3>3. /\ source[at].label \in DOMAIN symbols'
          /\ symbols'[source[at].label] = [address |-> StartOf(at), isData |-> FALSE]
      BY <3>1, <3>2 DEF Define, Line
    <3>4. \A j \in LabelsIn("text") : j < at => source[j].label # source[at].label
      BY <2>1, <3>1 DEF LabelsOnce, Line
    <3>5. \A i \in LabelsIn("text") : i < at =>
            /\ source[i].label \in DOMAIN symbols'
            /\ symbols'[source[i].label] = [address |-> StartOf(i), isData |-> FALSE]
            /\ \A j \in LabelsIn("text") : j < at /\ source[j].label = source[i].label => j = i
      BY <2>1, <2>3 DEF LabelsOnce, TableGrows
    <3>6. \A i \in LabelsIn("text") : i < at + 1 =>
            /\ source[i].label \in DOMAIN symbols'
            /\ symbols'[source[i].label] = [address |-> StartOf(i), isData |-> FALSE]
            /\ \A j \in LabelsIn("text") : j < at + 1 /\ source[j].label = source[i].label => j = i
      BY <2>2, <3>3, <3>4, <3>5
    <3> QED BY <2>1, <3>6, TextStays DEF LabelsOnce
  <2>6. at \in LabelsIn("text") => TextLabel
    BY <1>4, SecondSteps DEF SecondSkips, LabelsIn, Instructions, InstructionOps
  <2> QED BY <2>4, <2>5, <2>6
<1> QED BY <1>1, <1>2, <1>3, <1>4, Steps DEF OverLine

\* A reference stays resolved as long as its unit and its label stay.
LEMMA ResolvedStays ==
  ASSUME source' = source, NEW i, Resolved(i), TableGrows,
         code'[IndexOf(i) + 1].imms = code[IndexOf(i) + 1].imms
  PROVE  Resolved(i)'
<1> DEFINE label == source[i].label
<1>1. label \in DOMAIN symbols
  BY DEF Resolved, MayName
<1>2. symbols'[label] = symbols[label] /\ label \in DOMAIN symbols'
  BY <1>1 DEF TableGrows
<1>3. IndexOf(i)' = IndexOf(i)
  BY TextStays
<1> QED BY <1>2, <1>3 DEF Resolved, MayName, Offset, Reaches

\* An instruction stays emitted as long as its units do.
LEMMA EmittedStays ==
  ASSUME source' = source, NEW i, Emitted(i), TableGrows,
         LET k == IndexOf(i) + 1
         IN /\ code'[k].op = code[k].op /\ code'[k].label = code[k].label
            /\ source[i].op = "address" =>
                 code'[k].imms = code[k].imms /\ code'[k + 1].imms = code[k + 1].imms,
         \A k \in IndexOf(i) + 1 .. IndexOf(i) + SizeOf(i) : code'[k].line = code[k].line,
         source[i].op \in {"branch", "jump"} =>
           (Resolved(i) \/ Pending(i) => Resolved(i)' \/ Pending(i)'),
         IndexOf(i) \in Nat
  PROVE  Emitted(i)'
<1> DEFINE k == IndexOf(i) + 1
           label == source[i].label
           offset == FromPc(label, IndexOf(i))
<1>1. IndexOf(i)' = IndexOf(i) /\ k + 1 = IndexOf(i) + 2
  BY TextStays
<1>5. OnItsLine(i)'
  BY TextStays DEF Emitted, OnItsLine
<1>2. /\ code'[k].label = label
      /\ source[i].op # "address" => code'[k].op = source[i].op
      /\ source[i].op \in {"branch", "jump"} => Resolved(i)' \/ Pending(i)'
  BY DEF Emitted
<1>3. ASSUME source[i].op = "address"
      PROVE  /\ label \in DOMAIN symbols' /\ symbols'[label].isData
             /\ FromPc(label, IndexOf(i))' = offset
             /\ code'[k].imms = {Upper(offset)}
             /\ code'[k + 1].imms = {offset - Upper(offset) * 4096}
  <2>1. label \in DOMAIN symbols /\ symbols[label].isData
    BY <1>3 DEF Emitted
  <2>2. symbols'[label] = symbols[label] /\ label \in DOMAIN symbols'
    BY <2>1 DEF TableGrows
  <2>3. FromPc(label, IndexOf(i))' = offset
    BY <1>1, <2>2 DEF FromPc
  <2>4. /\ code[k].imms = {Upper(offset)}
        /\ code[k + 1].imms = {offset - Upper(offset) * 4096}
    BY <1>1, <1>3 DEF Emitted
  <2> QED BY <1>3, <2>1, <2>2, <2>3, <2>4
<1> HIDE DEF offset
<1>4. source[i].op = "address" => (Upper(FromPc(label, IndexOf(i))))' = Upper(offset)
  BY <1>3 DEF Upper
<1> QED BY <1>1, <1>2, <1>3, <1>4, <1>5 DEF Emitted

\* The places of instructions are disjoint and in the order of the text.
LEMMA InstructionIndices ==
  ASSUME source \in Seq(Lines), NEW i \in Instructions
  PROVE  /\ i \in Nat /\ IndexOf(i) \in Nat /\ SizeOf(i) \in Nat \ {0}
         /\ \A n \in Nat : i < n => IndexOf(i) + SizeOf(i) <= IndexOf(n) /\ IndexOf(n) \in Nat
<1>1. i \in Nat
  BY InstructionLines
<1>2. IndexOf(i) \in Nat /\ SizeOf(i) \in Nat \ {0}
  BY AboveFinite, SizesOfInstructions
<1> QED BY <1>1, <1>2, IndexApart, AboveFinite

\* Two instructions have no unit of code in common.
LEMMA UnitsApart ==
  ASSUME source \in Seq(Lines), NEW i \in Instructions, NEW j \in Instructions,
         NEW k \in IndexOf(i) + 1 .. IndexOf(i) + SizeOf(i),
         k \in IndexOf(j) + 1 .. IndexOf(j) + SizeOf(j)
  PROVE  i = j
<1>1. i \in Nat /\ j \in Nat /\ IndexOf(i) \in Nat /\ IndexOf(j) \in Nat
      /\ SizeOf(i) \in Nat \ {0} /\ SizeOf(j) \in Nat \ {0}
  BY InstructionIndices
<1>2. ~(i < j)
  BY <1>1, InstructionIndices
<1>3. ~(j < i)
  BY <1>1, InstructionIndices
<1> QED BY <1>1, <1>2, <1>3

\* A line of the second pass adds what it becomes to the code.
LineAdded ==
  /\ Len(code') = Len(code) + SizeOf(at)
  /\ \A k \in 1..Len(code) : code'[k] = code[k]
  /\ \/ backPatch' = backPatch
     \/ /\ backPatch' = Append(backPatch, Len(code)) /\ at \in Instructions
        /\ source[at].op \in {"branch", "jump"}
  /\ \A i \in Instructions : i = at => Emitted(i)'

\* A line of the second pass leaves the code right.
LEMMA CodeOfLine ==
  ASSUME TypeInv, InSection, Bounded, CodeSound, OverLine, phase = "second", [Next]_vars, LineAdded
  PROVE  CodeSound'
<1>1. /\ TextDone = at /\ TextDone' = at + 1 /\ Patched = 1 /\ Patched' = 1 /\ source' = source
      /\ at \in Nat /\ source \in Seq(Lines) /\ backPatch \in Seq(Nat) /\ Len(code) \in Nat
  BY Progress DEF OverLine, texts, TypeInv, ParserTyped, TextsTyped
<1>2. TableGrows
  BY TableOnlyGrows
<1>3. Len(code) = IndexOf(at) /\ IndexOf(at) \in Nat
  BY <1>1, AboveFinite DEF CodeSound
<1>4. Instructions' = Instructions /\ \A i : IndexOf(i)' = IndexOf(i) /\ SizeOf(i)' = SizeOf(i)
  BY <1>1, TextStays
<1>5. \A i \in Instructions : i \in Nat /\ (i < at + 1 <=> i < at \/ i = at)
  BY <1>1, InstructionIndices
<1>6. Len(code') = IndexOf(TextDone)'
  <2>1. IndexOf(TextDone)' = IndexOf(at + 1)
    <3> DEFINE next == at + 1
    <3>1. IndexOf(TextDone)' = Cardinality(UNION {{j} \X (1..UnitsOf(source[j])) :
                                                    j \in {k \in Instructions : k < next}})
      BY <1>1, <1>4 DEF IndexOf, UnitsAbove
    <3> QED BY <3>1 DEF IndexOf, UnitsAbove
  <2> QED BY <1>1, <1>3, <2>1, IndexNext DEF LineAdded
<1>7. /\ Len(backPatch) \in Nat /\ Len(backPatch') \in Nat /\ Len(backPatch) <= Len(backPatch')
      /\ \A p \in 1..Len(backPatch) : backPatch'[p] = backPatch[p]
      /\ \A p \in 1..Len(backPatch') :
           p \in 1..Len(backPatch) \/ /\ backPatch'[p] = Len(code) /\ at \in Instructions
                                      /\ source[at].op \in {"branch", "jump"}
  <2>1. CASE backPatch' = backPatch
    BY <1>1, <2>1
  <2>2. CASE /\ backPatch' = Append(backPatch, Len(code)) /\ at \in Instructions
             /\ source[at].op \in {"branch", "jump"}
    <3>1. /\ Len(backPatch') = Len(backPatch) + 1 /\ Len(backPatch) \in Nat
          /\ \A p \in 1..Len(backPatch) : backPatch'[p] = backPatch[p]
          /\ backPatch'[Len(backPatch) + 1] = Len(code)
      BY <1>1, <2>2
    <3>2. \A p \in 1..Len(backPatch') : p \in 1..Len(backPatch) \/ p = Len(backPatch) + 1
      BY <3>1
    <3> QED BY <2>2, <3>1, <3>2
  <2> QED BY <2>1, <2>2 DEF LineAdded
<1>8. ASSUME NEW i \in Instructions, i < at PROVE Emitted(i)'
  <2>1. IndexOf(i) \in Nat /\ IndexOf(i) + SizeOf(i) <= Len(code) /\ SizeOf(i) \in Nat \ {0}
    BY <1>1, <1>3, <1>8, InstructionIndices
  <2>2. Emitted(i)
    BY <1>1, <1>8 DEF CodeSound
  <2>3. code'[IndexOf(i) + 1] = code[IndexOf(i) + 1]
    BY SMTT(30), <1>1, <2>1 DEF LineAdded
  <2>4. source[i].op = "address" => code'[IndexOf(i) + 1 + 1] = code[IndexOf(i) + 1 + 1]
    BY SMTT(30), <1>1, <2>1, SizesOfInstructions DEF LineAdded
  <2>7. \A k \in IndexOf(i) + 1 .. IndexOf(i) + SizeOf(i) : code'[k] = code[k]
    <3>1. \A k \in IndexOf(i) + 1 .. IndexOf(i) + SizeOf(i) : k \in 1..Len(code)
      BY <1>1, <2>1
    <3> QED BY <3>1 DEF LineAdded
  <2>5. Pending(i) => Pending(i)'
    BY <1>1, <1>4, <1>7 DEF Pending
  <2>6. Resolved(i) => Resolved(i)'
    BY <1>1, <1>2, <2>3, ResolvedStays
  <2> QED BY <1>1, <1>2, <2>1, <2>2, <2>3, <2>4, <2>5, <2>6, <2>7, EmittedStays
<1>9. \A i \in Instructions : i < at + 1 => Emitted(i)'
  BY <1>5, <1>8 DEF LineAdded
<1>10. \A p \in 1..Len(backPatch') :
         \E i \in Instructions : /\ i < at + 1 /\ backPatch'[p] = IndexOf(i)
                                 /\ source[i].op \in {"branch", "jump"}
  <2> TAKE p \in 1..Len(backPatch')
  <2>1. CASE p \in 1..Len(backPatch)
    <3>1. PICK i \in Instructions : /\ i < at /\ backPatch[p] = IndexOf(i)
                                    /\ source[i].op \in {"branch", "jump"}
      BY <1>1, <2>1 DEF CodeSound
    <3>2. i < at + 1
      BY <1>5, <3>1
    <3> QED BY <1>7, <2>1, <3>1, <3>2
  <2>2. CASE /\ backPatch'[p] = Len(code) /\ at \in Instructions
             /\ source[at].op \in {"branch", "jump"}
    BY <1>3, <1>5, <2>2
  <2> QED BY <1>7, <2>1, <2>2
<1>11. \A k \in 1..Len(code') :
         \E i \in Instructions : i < at + 1 /\ k \in IndexOf(i) + 1 .. IndexOf(i) + SizeOf(i)
  <2> TAKE k \in 1..Len(code')
  <2>0. SizeOf(at) \in Nat /\ (at \notin Instructions => SizeOf(at) = 0)
    BY <1>1, SizesOfInstructions DEF SizeOf
  <2>1. CASE k <= Len(code)
    <3>1. PICK i \in Instructions : i < at /\ k \in IndexOf(i) + 1 .. IndexOf(i) + SizeOf(i)
      BY <1>1, <2>1 DEF CodeSound, Produced
    <3>2. i < at + 1
      BY <1>5, <3>1
    <3> QED BY <3>1, <3>2
  <2>2. CASE k > Len(code)
    <3>1. k \in IndexOf(at) + 1 .. IndexOf(at) + SizeOf(at)
      BY <1>1, <1>3, <2>0, <2>2 DEF LineAdded
    <3>2. at \in Instructions
      BY <1>3, <2>0, <3>1
    <3> QED BY <1>5, <3>1, <3>2
  <2> QED BY <1>1, <2>1, <2>2
<1> QED BY <1>1, <1>4, <1>6, <1>9, <1>10, <1>11 DEF CodeSound, Produced

\* The code with one unit more.
LEMMA GrownByOne ==
  ASSUME NEW unit, Grown(<<unit>>), Len(code) \in Nat
  PROVE  /\ Len(code') = Len(code) + 1 /\ \A n \in 1..Len(code) : code'[n] = code[n]
         /\ code'[Len(code) + 1] = unit
BY DEF Grown

\* And with two.
LEMMA GrownByTwo ==
  ASSUME NEW unit, NEW low, Grown(<<unit, low>>), Len(code) \in Nat
  PROVE  /\ Len(code') = Len(code) + 2 /\ \A n \in 1..Len(code) : code'[n] = code[n]
         /\ code'[Len(code) + 1] = unit /\ code'[Len(code) + 2] = low
BY DEF Grown

\* And with the same unit more than once.
LEMMA GrownByMany ==
  ASSUME NEW unit, NEW size \in Nat, Grown([n \in 1..size |-> unit]), Len(code) \in Nat
  PROVE  /\ Len(code') = Len(code) + size /\ \A n \in 1..Len(code) : code'[n] = code[n]
         /\ \A n \in Len(code) + 1 .. Len(code) + size : code'[n] = unit
<1> DEFINE units == [n \in 1..size |-> unit]
<1>1. Len(units) = size /\ \A n \in 1..size : units[n] = unit
  OBVIOUS
<1>2. Grown(units)
  OBVIOUS
<1> HIDE DEF units
<1>3. \A n \in 1..size : code'[Len(code) + n] = unit
  BY <1>1, <1>2 DEF Grown
<1>4. ASSUME NEW n \in Len(code) + 1 .. Len(code) + size PROVE code'[n] = unit
  <2>1. n - Len(code) \in 1..size /\ Len(code) + (n - Len(code)) = n
    OBVIOUS
  <2> QED BY <1>3, <2>1
<1> QED BY <1>1, <1>2, <1>4 DEF Grown

\* What the lines of the second pass add, when they add no error.
LEMMA AddsItsCode ==
  ASSUME TypeInv, InSection, Bounded, CodeSound, OverLine, phase = "second", [Next]_vars,
         errors' = {}
  PROVE  LineAdded
<1>0. PICK i : i = at
  OBVIOUS
<1> DEFINE label == source[i].label
           op == source[i].op
           k == Len(code) + 1
<1>1. /\ TextDone = at /\ Patched' = 1 /\ source' = source
      /\ at \in Nat /\ source \in Seq(Lines) /\ Len(code) \in Nat /\ backPatch \in Seq(Nat)
  BY Progress DEF OverLine, texts, TypeInv, ParserTyped, TextsTyped
<1>2. IndexOf(i) = Len(code) /\ IndexOf(i)' = Len(code) /\ SizeOf(i)' = SizeOf(i)
  BY <1>0, <1>1, TextStays DEF CodeSound
<1>8. ASSUME \A n \in Len(code) + 1 .. Len(code) + SizeOf(i) : code'[n].line = i
      PROVE  OnItsLine(i)'
  BY <1>2, <1>8 DEF OnItsLine
<1>3. CASE SecondSkips \/ (TextLabel /\ at \in LabelsIn("text"))
  <2>1. UNCHANGED <<code, backPatch>> /\ at \notin Instructions
    BY <1>3 DEF SecondSkips, TextLabel, LabelsIn, Instructions, InstructionOps
  <2> QED BY <1>0, <1>1, <2>1 DEF LineAdded, SizeOf
<1>4. CASE LabelledInstruction /\ at \in Instructions /\ op \in {"branch", "jump"}
  <2> DEFINE offset == Offset(label, Len(code))
  <2>1. UNCHANGED symbols /\ SizeOf(at) = 1
    BY <1>0, <1>1, <1>4, SizesOfInstructions DEF LabelledInstruction
  <2>2. CASE /\ IsTextLabel(label) /\ Reaches(op, offset)
             /\ Grown(<<Unit(op, label, {offset}, at)>>) /\ backPatch' = backPatch
    <3>1. /\ Len(code') = Len(code) + 1 /\ \A n \in 1..Len(code) : code'[n] = code[n]
          /\ code'[k] = Unit(op, label, {offset}, at)
      BY <1>1, <2>2, GrownByOne
    <3>2. /\ code'[k].line = at /\ code'[k].label = label /\ code'[k].op = op
          /\ code'[k].imms = {offset}
      BY <3>1 DEF Unit
    <3>4. Resolved(i)'
      <4>1. MayName(op, label)
        BY <2>2 DEF IsTextLabel, MayName
      <4>2. Resolved(i)' <=> /\ MayName(op, label) /\ Reaches(op, offset)
                              /\ code'[k].imms = {offset}
        BY <1>1, <1>2, <2>1 DEF Resolved, MayName, Reaches, Offset
      <4> QED BY <2>2, <3>2, <4>1, <4>2
    <3>5. OnItsLine(i)'
      BY <1>0, <1>1, <1>8, <2>1, <3>2
    <3> QED BY <1>0, <1>1, <1>2, <1>4, <2>1, <2>2, <3>1, <3>2, <3>4, <3>5 DEF LineAdded, Emitted
  <2>3. CASE /\ Grown(<<Unit(op, label, {}, at)>>) /\ backPatch' = Append(backPatch, Len(code))
    <3>1. /\ Len(code') = Len(code) + 1 /\ \A n \in 1..Len(code) : code'[n] = code[n]
          /\ code'[k] = Unit(op, label, {}, at)
      BY <1>1, <2>3, GrownByOne
    <3>2. code'[k].line = at /\ code'[k].label = label /\ code'[k].op = op
      BY <3>1 DEF Unit
    <3>3. Pending(i)'
      <4>1. Len(backPatch') \in 1..Len(backPatch') /\ backPatch'[Len(backPatch')] = Len(code)
        BY <1>1, <2>3
      <4> QED BY <1>1, <1>2, <4>1 DEF Pending
    <3>5. OnItsLine(i)'
      BY <1>0, <1>1, <1>8, <2>1, <3>2
    <3> QED BY <1>0, <1>1, <1>2, <1>4, <2>1, <2>3, <3>1, <3>2, <3>3, <3>5 DEF LineAdded, Emitted
  <2>4. ~(errors' = errors \cup {at})
    OBVIOUS
  <2> QED BY <1>0, <1>4, <2>2, <2>3, <2>4, LabelledEmits
<1>5. CASE AddressInstruction /\ at \in Instructions /\ op = "address"
  <2> DEFINE offset == FromPc(label, Len(code))
  <2>1. UNCHANGED <<symbols, backPatch>> /\ SizeOf(at) = 2
    BY <1>0, <1>1, <1>5, SizesOfInstructions DEF AddressInstruction
  <2>2. ~(errors' = errors \cup {at})
    OBVIOUS
  <2>3. /\ label \in DOMAIN symbols /\ symbols[label].isData
        /\ Grown(<<Unit("auipc", label, {Upper(offset)}, at),
                   Unit("low", label, {offset - Upper(offset) * 4096}, at)>>)
    BY <1>0, <1>5, <2>2, AddressEmits
  <2>5. /\ Len(code') = Len(code) + 2 /\ \A n \in 1..Len(code) : code'[n] = code[n]
        /\ code'[k] = Unit("auipc", label, {Upper(offset)}, at)
        /\ code'[Len(code) + 2] = Unit("low", label, {offset - Upper(offset) * 4096}, at)
    <3> DEFINE unit == Unit("auipc", label, {Upper(offset)}, at)
               low == Unit("low", label, {offset - Upper(offset) * 4096}, at)
    <3>1. Grown(<<unit, low>>)
      BY <2>3
    <3> HIDE DEF unit, low
    <3>2. /\ Len(code') = Len(code) + 2 /\ \A n \in 1..Len(code) : code'[n] = code[n]
          /\ code'[Len(code) + 1] = unit /\ code'[Len(code) + 2] = low
      BY <1>1, <3>1, GrownByTwo
    <3> QED BY <3>2 DEF unit, low
  <2>6. /\ code'[k].line = at /\ code'[k].label = label
        /\ code'[k].imms = {Upper(offset)}
        /\ code'[Len(code) + 2].imms = {offset - Upper(offset) * 4096}
        /\ code'[Len(code) + 2].line = at
    BY <2>5 DEF Unit
  <2>7. FromPc(label, IndexOf(i))' = offset
    BY <1>1, <1>2, <2>1 DEF FromPc
  <2> HIDE DEF offset
  <2>9. (Upper(FromPc(label, IndexOf(i))))' = Upper(offset)
    BY <2>7 DEF Upper
  <2>8. OnItsLine(i)'
    <3>1. SizeOf(i) = 2 /\ \A n \in Len(code) + 1 .. Len(code) + 2 : n = k \/ n = Len(code) + 2
      BY SMTT(30), <1>0, <1>1, <2>1
    <3> QED BY <1>0, <1>8, <2>6, <3>1
  <2>10. Emitted(i)'
    BY <1>0, <1>1, <1>2, <1>5, <2>1, <2>3, <2>6, <2>7, <2>8, <2>9 DEF Emitted
  <2> QED BY <1>0, <2>1, <2>5, <2>10 DEF LineAdded
<1>6. CASE /\ UnlabelledInstruction /\ at \in Instructions
           /\ source[at].op \in {"plain", "pseudoBranch"}
  <2>1. SizeOf(i) = UnitsOf(source[i]) /\ SizeOf(i) \in Nat \ {0}
    BY <1>0, <1>1, <1>6, SizesOfInstructions
  <2>2. PICK imms : Grown([n \in 1..SizeOf(i) |-> Unit(op, label, imms, i)])
    BY <1>0, <1>6, <2>1, UnlabelledEmits
  <2>3. backPatch' = backPatch
    BY <1>0, <1>6, UnlabelledEmits
  <2> DEFINE unit == Unit(op, label, imms, i)
  <2>4. /\ Len(code') = Len(code) + SizeOf(i) /\ \A n \in 1..Len(code) : code'[n] = code[n]
        /\ \A n \in Len(code) + 1 .. Len(code) + SizeOf(i) : code'[n] = unit
    <3>1. Grown([n \in 1..SizeOf(i) |-> unit])
      BY <2>2
    <3> HIDE DEF unit
    <3> QED BY <1>1, <2>1, <3>1, GrownByMany
  <2>5. unit.line = i /\ unit.label = label /\ unit.op = op
    BY DEF Unit
  <2> HIDE DEF unit
  <2>6. code'[k] = unit
    BY <1>1, <2>1, <2>4
  <2>7. OnItsLine(i)'
    BY <1>8, <2>4, <2>5
  <2> QED BY <1>0, <1>1, <1>2, <1>6, <2>3, <2>4, <2>5, <2>6, <2>7 DEF LineAdded, Emitted
<1>7. ~InvalidInstruction
  BY DEF InvalidInstruction, Refuse
<1> QED BY <1>0, <1>3, <1>4, <1>5, <1>6, <1>7, SecondSteps

\* A reference that is back-patched leaves the code right.
LEMMA CodeOfBackPatch ==
  ASSUME TypeInv, Bounded, CodeSound, BackPatch, errors' = {}
  PROVE  CodeSound'
<1> DEFINE index == backPatch[at]
           unit == code[index + 1]
           offset == Offset(unit.label, index)
<1>1. /\ at \in 1..Len(backPatch) /\ code \in Seq(Units) /\ source \in Seq(Lines)
      /\ backPatch[at] \in Nat /\ index + 1 \in 1..Len(code) /\ Len(code) \in Nat
  <2>1. at \in 1..Len(backPatch)
    BY DEF BackPatch, TypeInv, ParserTyped
  <2>2. backPatch[at] \in Nat /\ backPatch[at] < Len(code) /\ Len(code) \in Nat
    BY <2>1 DEF TypeInv, ParserTyped, Bounded
  <2> QED BY <2>1, <2>2 DEF TypeInv, TextsTyped, ParserTyped
<1>2. /\ source' = source /\ symbols' = symbols /\ backPatch' = backPatch
      /\ TextDone' = TextDone /\ TextDone = Len(source) + 1
      /\ Patched = at /\ Patched' = at + 1
  <2>1. phase = "patch" /\ phase' = phase /\ at' = at + 1 /\ UNCHANGED <<source, symbols, backPatch>>
    BY DEF BackPatch, texts
  <2> QED BY <2>1 DEF TextDone, Patched
<1>3. PICK i \in Instructions : /\ i < TextDone /\ index = IndexOf(i)
                                /\ source[i].op \in {"branch", "jump"}
  BY <1>1 DEF CodeSound
<1>4. unit.op = source[i].op /\ unit.label = source[i].label
  BY <1>3 DEF CodeSound, Emitted
<1>5. /\ MayName(unit.op, unit.label) /\ Reaches(unit.op, offset)
      /\ code' = [code EXCEPT ![index + 1].imms = {offset}]
  BY DEF BackPatch
<1>6. {offset} \in SUBSET Int
  <2>1. unit.label \in DOMAIN symbols /\ symbols \in [DOMAIN symbols -> Symbols] /\ index \in Nat
    BY <1>1, <1>5 DEF MayName, TypeInv, ParserTyped
  <2> HIDE DEF unit, index
  <2>2. symbols[unit.label].address \in Nat
    BY <2>1 DEF Symbols
  <2>3. offset \in Int
    BY <2>1, <2>2 DEF Offset
  <2> QED BY <2>3
<1>7. /\ Len(code') = Len(code)
      /\ \A j \in 1..Len(code) : /\ code'[j].op = code[j].op /\ code'[j].label = code[j].label
                                 /\ code'[j].line = code[j].line
                                 /\ code'[j].imms = IF j = index + 1 THEN {offset} ELSE code[j].imms
  <2> HIDE DEF offset, index
  <2> QED BY <1>1, <1>5, <1>6, ImmediateSet
<1>8. TableGrows
  BY <1>2 DEF TableGrows
<1>9. Resolved(i)'
  <2>1. IndexOf(i)' = index
    BY <1>2, <1>3, TextStays
  <2>2. code'[index + 1].imms = {offset}
    BY <1>1, <1>7
  <2>3. Resolved(i)' <=> /\ MayName(unit.op, unit.label) /\ Reaches(unit.op, offset)
                         /\ code'[index + 1].imms = {offset}
    BY <1>2, <1>4, <2>1 DEF Resolved, MayName, Reaches, Offset
  <2> QED BY <1>5, <2>2, <2>3
<1>10. ASSUME NEW j \in Instructions, j < TextDone PROVE Emitted(j)'
  <2>1. Emitted(j)
    BY <1>10 DEF CodeSound
  <2>2. /\ IndexOf(j) \in Nat /\ SizeOf(j) \in Nat \ {0}
        /\ IndexOf(j) + SizeOf(j) <= Len(code)
    <3>1. TextDone \in Nat
      BY <1>1, <1>2
    <3> QED BY <1>1, <1>10, <3>1, InstructionIndices DEF CodeSound
  <2>3. IndexOf(j) + 1 \in 1..Len(code)
    BY <1>1, <2>2
  <2>4. j # i => index + 1 \notin IndexOf(j) + 1 .. IndexOf(j) + SizeOf(j)
    <3>1. index + 1 \in IndexOf(i) + 1 .. IndexOf(i) + SizeOf(i)
      BY SMTT(30), <1>1, <1>3, InstructionIndices
    <3> QED BY <1>1, <3>1, UnitsApart
  <2>5. source[j].op \in {"branch", "jump"} /\ (Resolved(j) \/ Pending(j)) => Resolved(j)' \/ Pending(j)'
    <3>1. CASE j = i
      BY <1>9, <3>1
    <3>2. CASE j # i
      <4>1. code'[IndexOf(j) + 1].imms = code[IndexOf(j) + 1].imms
        BY SMTT(30), <1>1, <1>7, <2>2, <2>3, <2>4, <3>2
      <4>2. Resolved(j) => Resolved(j)'
        BY <1>2, <1>8, <4>1, ResolvedStays
      <4>3. IndexOf(j) # index
        BY <1>1, <2>2, <2>4, <3>2
      <4>4. Pending(j) => Pending(j)'
        <5>1. IndexOf(j)' = IndexOf(j)
          BY <1>2, TextStays
        <5>2. Len(backPatch) \in Nat
          BY DEF TypeInv, ParserTyped
        <5> QED BY <1>1, <1>2, <4>3, <5>1, <5>2 DEF Pending
      <4> QED BY <4>2, <4>4
    <3> QED BY <3>1, <3>2
  <2>6. ASSUME source[j].op = "address"
        PROVE  /\ code'[IndexOf(j) + 1].imms = code[IndexOf(j) + 1].imms
               /\ code'[IndexOf(j) + 1 + 1].imms = code[IndexOf(j) + 1 + 1].imms
    <3>1. j # i /\ SizeOf(j) = 2
      BY <1>1, <1>3, <2>6, SizesOfInstructions
    <3>2. IndexOf(j) + 1 + 1 \in 1..Len(code)
      BY SMTT(30), <1>1, <2>2, <3>1
    <3>4. index \in Nat
      BY <1>1
    <3>5. index + 1 # IndexOf(j) + 1 /\ index + 1 # IndexOf(j) + 2
      <4> HIDE DEF index
      <4> QED BY <2>2, <2>4, <3>1, <3>4
    <3>6. IndexOf(j) + 1 # index + 1 /\ IndexOf(j) + 1 + 1 # index + 1
      <4> HIDE DEF index
      <4> QED BY <2>2, <3>4, <3>5
    <3> HIDE DEF index, offset
    <3> QED BY <1>7, <2>3, <3>2, <3>6
  <2>7. /\ code'[IndexOf(j) + 1].op = code[IndexOf(j) + 1].op
        /\ code'[IndexOf(j) + 1].label = code[IndexOf(j) + 1].label
    BY <1>7, <2>3
  <2>8. \A k \in IndexOf(j) + 1 .. IndexOf(j) + SizeOf(j) : code'[k].line = code[k].line
    BY <1>1, <1>7, <2>2
  <2> HIDE DEF index, unit, offset
  <2> QED BY <1>2, <1>8, <2>1, <2>2, <2>5, <2>6, <2>7, <2>8, EmittedStays
<1>11. /\ Instructions' = Instructions
       /\ \A j : IndexOf(j)' = IndexOf(j) /\ SizeOf(j)' = SizeOf(j)
  BY <1>2, TextStays
<1>12. IndexOf(TextDone)' = IndexOf(TextDone)
  BY <1>2, <1>11 DEF IndexOf, UnitsAbove
<1> HIDE DEF index, unit, offset
<1> QED BY <1>2, <1>7, <1>10, <1>11, <1>12 DEF CodeSound, Produced

\* A step that touches neither code nor symbols does.
LEMMA CodeStays ==
  ASSUME UNCHANGED <<source, symbols, code, backPatch>>, TextDone' = TextDone,
         Patched' = Patched, TypeInv, CodeSound
  PROVE  CodeSound'
<1>1. /\ Instructions' = Instructions
      /\ \A j : IndexOf(j)' = IndexOf(j) /\ SizeOf(j)' = SizeOf(j)
  BY TextStays
<1>2. IndexOf(TextDone)' = IndexOf(TextDone)
  BY <1>1 DEF IndexOf, UnitsAbove
<1>3. TableGrows
  BY DEF TableGrows
<1>4. ASSUME NEW i \in Instructions, Emitted(i) PROVE Emitted(i)'
  <2>1. Pending(i) => Pending(i)'
    BY <1>1 DEF Pending
  <2>2. Resolved(i) => Resolved(i)'
    BY <1>3, ResolvedStays
  <2>3. IndexOf(i) \in Nat
    BY InstructionIndices, LinesTyped
  <2> QED BY <1>3, <1>4, <2>1, <2>2, <2>3, EmittedStays
<1> QED BY <1>1, <1>2, <1>4 DEF CodeSound, Produced

\* And the code is right as long as there is none.
LEMMA CodeInitially ==
  ASSUME TypeInv, TextDone = 1, code = <<>>, backPatch = <<>>
  PROVE  CodeSound
<1>1. Len(code) = IndexOf(TextDone)
  BY IndexFirst, LinesTyped
<1>2. \A i \in Instructions : ~(i < TextDone)
  BY LinesTyped
<1> QED BY <1>1, <1>2 DEF CodeSound

\* Every step without an error leaves the code right.
LEMMA CodeKept ==
  ASSUME TypeInv, TypeInv', Untouched, Untouched', InSection, Bounded, CodeSound, [Next]_vars,
         errors' = {}
  PROVE  CodeSound'
<1>1. CASE ExpandLine
  <2>1. TextDone' = 1 /\ code' = <<>> /\ backPatch' = <<>>
    BY <1>1 DEF ExpandLine, TextDone, Untouched, parserVars
  <2>2. IndexOf(1)' = 0
    <3>1. \A i \in Instructions' : ~(i < 1)
      BY DEF Instructions, LinesIn, TypeInv, TextsTyped
    <3>2. UnitsAbove(1)' = {}
      BY <3>1 DEF UnitsAbove
    <3> QED BY <3>2, FS_EmptySet DEF IndexOf
  <2>3. \A i \in Instructions' : ~(i < 1)
    BY DEF Instructions, LinesIn, TypeInv, TextsTyped
  <2>4. IndexOf(TextDone)' = 0
    <3>1. UnitsAbove(TextDone)' = UnitsAbove(1)'
      BY <2>1 DEF UnitsAbove
    <3> QED BY <2>2, <3>1 DEF IndexOf
  <2> QED BY <2>1, <2>3, <2>4 DEF CodeSound
<1>2. CASE EndExpansion \/ EndFirstPass \/ EndSecondPass \/ UNCHANGED vars
  <2>1. UNCHANGED <<source, symbols, code, backPatch>>
    BY <1>2 DEF EndExpansion, EndFirstPass, EndSecondPass, vars, texts, parserVars
  <2> QED BY <1>2, <2>1, Progress, CodeStays
<1>3. CASE OverLine /\ phase = "first"
  <2>1. TextDone' = 1 /\ code' = <<>> /\ backPatch' = <<>> /\ source' = source
    BY <1>3, Progress DEF OverLine, texts, Untouched
  <2>2. /\ Instructions' = Instructions /\ TextDone = 1
        /\ \A j : IndexOf(j)' = IndexOf(j) /\ SizeOf(j)' = SizeOf(j)
    BY <1>3, <2>1, Progress, TextStays
  <2>3. IndexOf(TextDone)' = 0
    <3>1. IndexOf(TextDone)' = IndexOf(1)
      BY <2>1, <2>2 DEF IndexOf, UnitsAbove
    <3> QED BY <3>1, IndexFirst, LinesTyped
  <2>4. \A i \in Instructions : ~(i < 1)
    BY LinesTyped
  <2> QED BY <2>1, <2>2, <2>3, <2>4 DEF CodeSound
<1>4. CASE OverLine /\ phase = "second"
  BY <1>4, CodeOfLine, AddsItsCode
<1>5. CASE BackPatch
  BY <1>5, CodeOfBackPatch
<1>6. CASE Later /\ ~BackPatch
  <2>1. UNCHANGED <<source, symbols, code, backPatch>>
    BY <1>6 DEF Later, Generate, MapLines, EndMapping, LoadText, LoadElement, EndLoad,
          SetBreakpoints, texts, parserVars
  <2>2. TextDone' = TextDone
    BY <1>6, Progress
  <2>3. Patched' = Patched
    <3>1. CASE Generate
      BY <3>1 DEF Generate, Patched, Bounded, parserVars, TypeInv, ParserTyped
    <3>2. CASE MapLines \/ EndMapping \/ LoadText \/ LoadElement \/ EndLoad
      BY <2>1, <3>2 DEF MapLines, EndMapping, LoadText, LoadElement, EndLoad, Patched
    <3>3. ASSUME NEW line \in DOMAIN editor, SetBreakpoints({line}) PROVE Patched' = Patched
      BY <2>1, <3>3 DEF SetBreakpoints, Patched
    <3> QED BY <1>6, <3>1, <3>2, <3>3 DEF Later
  <2> QED BY <2>1, <2>2, <2>3, CodeStays
<1> QED BY <1>1, <1>2, <1>3, <1>4, <1>5, <1>6, Steps DEF OverLine

\* Every step leaves all of this right.
LEMMA CleanStep ==
  TypeInv /\ TypeInv' /\ Untouched /\ Untouched' /\ InSection /\ Bounded /\ Clean /\ [Next]_vars
    => Clean'
<1> SUFFICES ASSUME TypeInv, TypeInv', Untouched, Untouched', InSection, Bounded, Clean,
                    [Next]_vars, errors' = {}
             PROVE  (DataSound /\ TextSound /\ LabelsOnce /\ CodeSound)'
  BY DEF Clean
<1>1. errors = {}
  BY ErrorsGrow
<1>2. DataSound /\ TextSound /\ LabelsOnce /\ CodeSound
  BY <1>1 DEF Clean
<1> QED BY <1>2, DataSoundKept, TextSoundKept, LabelsOnceKept, CodeKept DEF CodeSound


-----------------------------------------------------------------------------
(* What the assembler promises, from the invariant above. *)

\* The part of the invariant that all others rest on.
CodeInv == TypeInv /\ Bounded /\ Untouched /\ InSection /\ TableKept /\ Clean

\* It holds when the assembler starts.
LEMMA CodeInvInitially == Init => CodeInv
<1> SUFFICES ASSUME Init PROVE CodeInv
  OBVIOUS
<1>1. TypeInv
  BY TypesInitially
<1>2. Bounded /\ Untouched /\ InSection
  BY DEF Init, Bounded, Untouched, InSection, Loading, Mapping
<1>3. TableKept
  BY <1>1, <1>2, TableInitially DEF Init
<1>4. DataDone = 1 /\ TextDone = 1
  BY DEF Init, DataDone, TextDone
<1>5. DataSound /\ TextSound /\ LabelsOnce
  BY <1>1, <1>4, LinesTyped DEF DataSound, TextSound, LabelsOnce
<1>6. CodeSound
  BY <1>1, <1>4, CodeInitially DEF Init
<1> QED BY <1>1, <1>2, <1>3, <1>5, <1>6 DEF CodeInv, Clean

\* And after every step.
LEMMA CodeInvKept == CodeInv /\ [Next]_vars => CodeInv'
<1> SUFFICES ASSUME CodeInv, [Next]_vars PROVE CodeInv'
  OBVIOUS
<1>1. TypeInv /\ Bounded /\ Untouched /\ InSection /\ TableKept /\ Clean
  BY DEF CodeInv
<1>2. TypeInv' /\ Untouched' /\ InSection' /\ Bounded'
  BY <1>1, TypesKept, UntouchedKept, InSectionKept, BoundedKept
<1>3. TableKept'
  BY <1>1, <1>2, TableStep
<1>4. Clean'
  BY <1>1, <1>2, CleanStep
<1> QED BY <1>2, <1>3, <1>4 DEF CodeInv

-----------------------------------------------------------------------------
(* Jumps. *)

\* Nothing is loaded when the assembler starts.
LEMMA TextLoadedInitially == Init => TextLoaded
BY DEF Init, TextLoaded, Loading

\* What the loader has written is the code.
LEMMA TextLoadedKept == TypeInv /\ TextLoaded /\ [Next]_vars => TextLoaded'
<1> SUFFICES ASSUME TypeInv, TextLoaded, [Next]_vars PROVE TextLoaded'
  OBVIOUS
<1>1. CASE LoadText
  <2>1. memory = [text |-> memory.text, data |-> memory.data]
    BY DEF TypeInv, ResultsTyped
  <2> DEFINE loaded == [address \in {4 * (k - 1) : k \in 1..Len(code)} |-> code[address \div 4 + 1]]
  <2>2. memory' = [memory EXCEPT !.text = loaded] /\ code' = code
    BY <1>1 DEF LoadText, parserVars
  <2> HIDE DEF loaded
  <2>3. memory'.text = loaded
    BY <2>1, <2>2
  <2> QED BY <2>2, <2>3 DEF loaded, TextLoaded
<1>2. CASE LoadElement
  <2>1. memory = [text |-> memory.text, data |-> memory.data]
    BY DEF TypeInv, ResultsTyped
  <2>2. PICK d : memory' = [memory EXCEPT !.data = d]
    BY <1>2 DEF LoadElement
  <2>3. memory'.text = memory.text
    BY <2>1, <2>2
  <2> QED BY <1>2, <2>3 DEF LoadElement, TextLoaded, Loading, parserVars
<1>3. CASE EndLoad \/ UNCHANGED vars
  BY <1>3 DEF EndLoad, vars, results, parserVars, TextLoaded, Loading
<1>4. ASSUME NEW line \in DOMAIN editor, SetBreakpoints({line}) PROVE TextLoaded'
  BY <1>4 DEF SetBreakpoints, parserVars, TextLoaded, Loading
<1>5. CASE ExpandLine \/ EndExpansion \/ OverLine \/ EndFirstPass \/ EndSecondPass
  BY <1>5 DEF ExpandLine, EndExpansion, OverLine, EndFirstPass, EndSecondPass, TextLoaded, Loading
<1>6. CASE BackPatch \/ Generate \/ MapLines \/ EndMapping
  BY <1>6 DEF BackPatch, Generate, MapLines, EndMapping, TextLoaded, Loading
<1> QED BY <1>1, <1>2, <1>3, <1>4, <1>5, <1>6, Steps DEF Later

\* Both passes are through, and found no error.
Through == phase \notin {"written", "first", "second"} /\ errors = {}

\* What is loaded went through both passes and the back-patching.
LEMMA LoadedThrough == CodeInv /\ phase \in Loading => Through
BY DEF CodeInv, Untouched, Loading, Mapping, Through

\* What went through them has no error, and every line has passed.
LEMMA ThroughClean ==
  ASSUME CodeInv, Through
  PROVE  /\ errors = {} /\ DataSound /\ TextSound /\ LabelsOnce /\ CodeSound
         /\ TextDone = Len(source) + 1 /\ DataDone = Len(source) + 1
BY DEF CodeInv, Clean, Through, TextDone, DataDone

\* A loaded program has no errors, and every line is through.
LEMMA LoadedProgram ==
  ASSUME CodeInv, phase \in Loading
  PROVE  /\ errors = {} /\ DataSound /\ TextSound /\ LabelsOnce /\ CodeSound
         /\ TextDone = Len(source) + 1 /\ DataDone = Len(source) + 1
         /\ Patched = Len(backPatch) + 1
<1>1. Patched = Len(backPatch) + 1
  BY DEF Loading, Patched
<1> QED BY <1>1, LoadedThrough, ThroughClean

\* Where the units of an instruction are loaded.
LEMMA LoadedUnits ==
  ASSUME CodeInv, TextLoaded, phase \in Loading, NEW i \in Instructions
  PROVE  /\ Emitted(i) /\ IndexOf(i) \in Nat /\ SizeOf(i) \in Nat \ {0}
         /\ IndexOf(i) + SizeOf(i) <= Len(code)
         /\ memory.text[StartOf(i)] = code[IndexOf(i) + 1]
         /\ SizeOf(i) = 2 => memory.text[StartOf(i) + 4] = code[IndexOf(i) + 2]
<1>1. /\ source \in Seq(Lines) /\ Len(source) \in Nat /\ i \in 1..Len(source)
      /\ code \in Seq(Units) /\ Len(code) \in Nat
  BY LinesTyped DEF CodeInv, TypeInv, ParserTyped
<1>2. i < Len(source) + 1 /\ Len(source) + 1 \in Nat
  BY <1>1
<1>3. Len(code) = IndexOf(Len(source) + 1) /\ Emitted(i)
  BY <1>2, LoadedProgram DEF CodeSound
<1>4. IndexOf(i) \in Nat /\ SizeOf(i) \in Nat \ {0} /\ IndexOf(i) + SizeOf(i) <= Len(code)
  BY <1>1, <1>2, <1>3, InstructionIndices
<1>5. \A n \in Nat : n < Len(code) => memory.text[4 * n] = code[n + 1]
  <2> TAKE n \in Nat
  <2> HAVE n < Len(code)
  <2>1. n + 1 \in 1..Len(code) /\ 4 * n = 4 * ((n + 1) - 1)
    BY <1>1
  <2>2. 4 * n \in {4 * (k - 1) : k \in 1..Len(code)}
    BY <2>1
  <2>3. (4 * n) \div 4 + 1 = n + 1
    OBVIOUS
  <2> QED BY <2>2, <2>3 DEF TextLoaded
<1>6. StartOf(i) = 4 * IndexOf(i) /\ StartOf(i) + 4 = 4 * (IndexOf(i) + 1)
  BY <1>4, StartIsIndex
<1>7. memory.text[StartOf(i)] = code[IndexOf(i) + 1]
  <2>1. IndexOf(i) \in Nat /\ IndexOf(i) < Len(code)
    BY <1>1, <1>4
  <2> QED BY <1>5, <1>6, <2>1
<1>8. ASSUME SizeOf(i) = 2 PROVE memory.text[StartOf(i) + 4] = code[IndexOf(i) + 2]
  <2>1. /\ IndexOf(i) + 1 \in Nat /\ IndexOf(i) + 1 < Len(code)
        /\ IndexOf(i) + 1 + 1 = IndexOf(i) + 2
    BY <1>1, <1>4, <1>8
  <2> QED BY <1>5, <1>6, <2>1
<1> QED BY <1>3, <1>4, <1>7, <1>8

\* The one definition of a text label.
LEMMA OneDefinition ==
  ASSUME CodeInv, Through, NEW label \in TextLabels
  PROVE  /\ Definitions("text", label) = {LastOf(Definitions("text", label))}
         /\ LastOf(Definitions("text", label)) \in LabelsIn("text")
         /\ label \in DOMAIN symbols /\ ~symbols[label].isData
         /\ symbols[label].address = StartOf(LastOf(Definitions("text", label)))
<1>1. PICK d \in LabelsIn("text") : source[d].label = label
  BY DEF TextLabels, LabelsIn
<1>2. \A i \in LabelsIn("text") : i \in Nat /\ i < TextDone
  BY ThroughClean, LinesTyped DEF CodeInv
<1>3. Definitions("text", label) = {d}
  <2>1. Definitions("text", label) = {i \in LabelsIn("text") : source[i].label = label}
    BY DEF Definitions, LabelsIn
  <2>2. \A i \in LabelsIn("text") : source[i].label = label => i = d
    BY <1>1, <1>2, ThroughClean DEF LabelsOnce
  <2> QED BY <1>1, <2>1, <2>2
<1>4. LastOf({d}) = d
  BY <1>2 DEF LastOf
<1>5. symbols[label] = [address |-> StartOf(d), isData |-> FALSE] /\ label \in DOMAIN symbols
  BY <1>1, <1>2, ThroughClean DEF LabelsOnce
<1>6. symbols[label].address = StartOf(d) /\ symbols[label].isData = FALSE
  BY <1>5
<1> QED BY <1>3, <1>4, <1>5, <1>6

\* In a loaded program, a jump goes to the instruction below its label.
LEMMA JumpsReach == CodeInv /\ TextLoaded => JumpsReachTheirLabels
<1> SUFFICES ASSUME CodeInv, TextLoaded, phase = "loaded", NEW i \in Instructions,
                    source[i].op \in {"branch", "jump"}, source[i].label \in TextLabels
             PROVE  memory.text[StartOf(i)].imms =
                      {StartOf(LastOf(Definitions("text", source[i].label))) - StartOf(i)}
  BY DEF JumpsReachTheirLabels
<1> DEFINE label == source[i].label
<1>1. phase \in Loading
  BY DEF Loading
<1>2. Emitted(i) /\ memory.text[StartOf(i)] = code[IndexOf(i) + 1] /\ IndexOf(i) \in Nat
  BY <1>1, LoadedUnits
<1>3. Resolved(i)
  <2>1. Patched = Len(backPatch) + 1 /\ Len(backPatch) \in Nat
    BY <1>1, LoadedProgram DEF CodeInv, TypeInv, ParserTyped
  <2>2. ~Pending(i)
    BY <2>1 DEF Pending
  <2> QED BY <1>2, <2>2 DEF Emitted
<1>4. code[IndexOf(i) + 1].imms = {symbols[label].address - IndexOf(i) * 4}
  BY <1>3 DEF Resolved, Offset
<1>5. symbols[label].address = StartOf(LastOf(Definitions("text", label)))
  BY <1>1, LoadedThrough, OneDefinition
<1>6. StartOf(i) = IndexOf(i) * 4
  BY <1>2, StartIsIndex
<1> QED BY <1>2, <1>4, <1>5, <1>6

\* The types of all that the assembler keeps, for any text and any pseudo instructions.
THEOREM AssemblerTyped == Spec => []TypeInv
<1>1. CodeInv => TypeInv
  BY DEF CodeInv
<1> QED BY <1>1, CodeInvInitially, CodeInvKept, PTL DEF Spec

\* A branch or a jump to a text label, in a program that was loaded, goes from its line
\* to the first instruction below the label, for every text, all pseudo instructions and
\* any reach of branches and jumps.
THEOREM JumpsReachTheirLabelsHolds == Spec => []JumpsReachTheirLabels
BY CodeInvInitially, CodeInvKept, TextLoadedInitially, TextLoadedKept, JumpsReach, PTL
   DEF Spec, CodeInv

-----------------------------------------------------------------------------
(* Breakpoints. *)

\* Every unit of the code has the line of the instruction that it is of.
LEMMA UnitLine ==
  ASSUME CodeInv, CodeSound, NEW k \in 1..Len(code)
  PROVE  \E i \in Instructions : /\ code[k].line = i
                                 /\ k \in IndexOf(i) + 1 .. IndexOf(i) + SizeOf(i)
<1>1. PICK i \in Instructions : i < TextDone /\ k \in IndexOf(i) + 1 .. IndexOf(i) + SizeOf(i)
  BY DEF CodeSound, Produced
<1>2. Emitted(i)
  BY <1>1 DEF CodeSound
<1> QED BY <1>1, <1>2 DEF Emitted, OnItsLine

\* The lines of two units that follow each other have no instruction between them.
LEMMA NextLine ==
  ASSUME CodeInv, CodeSound, NEW k \in 1..Len(code)
  PROVE  LET last == IF k = 1 THEN 0 ELSE code[k - 1].line
             next == code[k].line
         IN /\ next \in Instructions /\ last \in Nat /\ last <= next
            /\ last < next => k - 1 = IndexOf(next)
            /\ \A m \in Instructions : last < m => next <= m
<1> DEFINE last == IF k = 1 THEN 0 ELSE code[k - 1].line
           next == code[k].line
<1>0. source \in Seq(Lines) /\ Len(code) \in Nat
  BY LinesTyped DEF CodeInv, TypeInv, ParserTyped
<1>1. next \in Instructions /\ k \in IndexOf(next) + 1 .. IndexOf(next) + SizeOf(next)
  BY UnitLine
<1> HIDE DEF next
<1>2. next \in Nat /\ IndexOf(next) \in Nat /\ SizeOf(next) \in Nat \ {0}
  BY <1>0, <1>1, InstructionIndices
<1>3. \A m \in Instructions : /\ m \in Nat /\ IndexOf(m) \in Nat /\ SizeOf(m) \in Nat \ {0}
                              /\ m < next => IndexOf(m) + SizeOf(m) <= IndexOf(next)
                              /\ next < m => IndexOf(next) + SizeOf(next) <= IndexOf(m)
  BY <1>0, <1>1, <1>2, InstructionIndices
<1>6. ASSUME NEW j \in Instructions, NEW m \in Instructions, j < m
      PROVE  IndexOf(j) + SizeOf(j) <= IndexOf(m)
  BY <1>0, <1>6, InstructionIndices
<1>4. CASE k = 1
  <2>1. IndexOf(next) = 0
    BY <1>1, <1>2, <1>4
  <2>2. \A m \in Instructions : next <= m
    BY <1>1, <1>2, <1>3, <2>1
  <2> QED BY <1>1, <1>2, <1>4, <2>1, <2>2 DEF next
<1>5. CASE k # 1
  <2>1. k - 1 \in 1..Len(code)
    BY <1>0, <1>5
  <2>2. /\ last \in Instructions
        /\ k - 1 \in IndexOf(last) + 1 .. IndexOf(last) + SizeOf(last)
    BY <1>5, <2>1, UnitLine
  <2> HIDE DEF last
  <2>3. last \in Nat /\ IndexOf(last) \in Nat /\ SizeOf(last) \in Nat \ {0}
    BY <1>3, <2>2
  <2>4. last <= next
    BY <1>1, <1>2, <1>3, <2>2, <2>3
  <2>5. last < next => k - 1 = IndexOf(next)
    BY <1>1, <1>2, <1>3, <2>2, <2>3
  <2>6. ASSUME NEW m \in Instructions, last < m, m < next PROVE FALSE
    <3>1. IndexOf(last) + SizeOf(last) <= IndexOf(m)
      BY <1>6, <2>2, <2>6
    <3>2. IndexOf(m) + SizeOf(m) <= IndexOf(next)
      BY <1>3, <2>6
    <3>3. IndexOf(m) \in Nat /\ SizeOf(m) \in Nat \ {0}
      BY <1>3, <2>6
    <3>4. k - 1 <= IndexOf(last) + SizeOf(last) /\ IndexOf(next) + 1 <= k
      BY <1>1, <1>2, <2>2, <2>3
    <3> QED BY <1>2, <2>3, <3>1, <3>2, <3>3, <3>4
  <2>7. \A m \in Instructions : last < m => next <= m
    BY <1>2, <1>3, <2>6
  <2> QED BY <1>1, <2>3, <2>4, <2>5, <2>7 DEF last, next
<1> QED BY <1>4, <1>5

\* A step that maps no line leaves the map right.
LEMMA LinesMappedStay ==
  ASSUME UNCHANGED <<source, code, lineMap>>, Mapped' = Mapped, LinesMapped, phase \in Mapping
  PROVE  LinesMapped'
BY TextStays DEF LinesMapped, IsNext

\* So does one that maps a line.
LEMMA LinesMappedByMapLines ==
  ASSUME CodeInv, LinesMapped, MapLines
  PROVE  LinesMapped'
<1> DEFINE last == IF at = 1 THEN 0 ELSE code[at - 1].line
           next == code[at].line
           new == NewLines(code[at])
<1>1. /\ phase = "mapping" /\ phase' = phase /\ at \in 1..Len(code) /\ at' = at + 1
      /\ UNCHANGED <<source, code>> /\ lineMap' = lineMap \o new
      /\ lineMap \in Seq(Nat) /\ at \in Nat /\ code \in Seq(Units)
  BY DEF MapLines, texts, parserVars, CodeInv, TypeInv, ParserTyped, ResultsTyped
<1>2. CodeSound
  BY <1>1 DEF CodeInv, Clean, Untouched, Mapping
<1>3. /\ next \in Instructions /\ last \in Nat /\ last <= next
      /\ last < next => at - 1 = IndexOf(next)
      /\ \A m \in Instructions : last < m => next <= m
  BY <1>1, <1>2, NextLine
<1>4. Len(lineMap) = last
  BY <1>1 DEF LinesMapped, Mapped, Mapping
<1>5. next \in Nat
  BY <1>3, LinesTyped DEF CodeInv
<1>6. new = [n \in 1..(next - last) |-> at - 1]
  BY <1>4 DEF NewLines
<1>7. new \in Seq(Nat) /\ Len(new) = next - last
  <2>1. next - last \in Nat /\ at - 1 \in Nat
    BY <1>1, <1>3, <1>5
  <2> QED BY <1>6, <2>1
<1>8. /\ Len(lineMap') = next
      /\ \A line \in 1..last : lineMap'[line] = lineMap[line]
      /\ \A line \in last + 1..next : lineMap'[line] = at - 1
  <2> HIDE DEF new, next, last
  <2>1. Len(lineMap \o new) = last + (next - last)
    BY <1>1, <1>4, <1>7, Joined
  <2>2. \A line \in 1..last : (lineMap \o new)[line] = lineMap[line]
    BY <1>1, <1>4, <1>7, Joined
  <2>3. \A k \in 1..next - last : (lineMap \o new)[last + k] = at - 1
    <3>1. \A k \in 1..Len(new) : (lineMap \o new)[Len(lineMap) + k] = new[k]
      BY <1>1, <1>7, Joined
    <3>2. \A k \in 1..next - last : new[k] = at - 1
      BY <1>6
    <3> QED BY <1>4, <1>7, <3>1, <3>2
  <2>4. \A line \in last + 1..next : (lineMap \o new)[line] = at - 1
    <3> TAKE line \in last + 1..next
    <3>1. line - last \in 1..next - last /\ line = last + (line - last)
      BY <1>3, <1>5
    <3> QED BY <2>3, <3>1
  <2> QED BY <1>1, <1>3, <1>5, <2>1, <2>2, <2>4
<1>9. \A line \in 1..next :
        \E i \in Instructions : IsNext(i, line) /\ lineMap'[line] = IndexOf(i)
  <2> TAKE line \in 1..next
  <2>1. CASE line <= last
    <3>1. line \in 1..last
      BY <1>3, <1>5, <2>1
    <3> QED BY <1>1, <1>4, <1>8, <3>1 DEF LinesMapped, Mapping
  <2>2. CASE last < line
    <3>1. line \in last + 1..next /\ last < next
      BY <1>3, <1>5, <2>2
    <3>2. \A m \in Instructions : line <= m => last < m
      <4>1. Instructions \subseteq Nat
        BY InstructionLines, LinesTyped DEF CodeInv
      <4> QED BY <1>3, <2>2, <4>1
    <3>3. IsNext(next, line)
      BY <1>3, <3>1, <3>2 DEF IsNext
    <3> QED BY <1>3, <1>8, <3>1, <3>3
  <2> QED BY <1>3, <1>5, <2>1, <2>2
<1>10. Mapped' = at /\ code'[at].line = next /\ at # 0
  BY <1>1 DEF Mapped
<1> HIDE DEF next, new, last
<1>11. Instructions' = Instructions /\ \A i : IndexOf(i)' = IndexOf(i)
  BY <1>1, TextStays
<1>12. \A i, line : IsNext(i, line)' = IsNext(i, line)
  BY <1>11 DEF IsNext
<1>13. Len(lineMap') = (IF Mapped' = 0 THEN 0 ELSE code'[Mapped'].line)
  BY <1>8, <1>10
<1>14. \A line \in 1..Len(lineMap') :
         \E i \in Instructions' : IsNext(i, line)' /\ lineMap'[line] = IndexOf(i)'
  BY <1>8, <1>9, <1>11, <1>12
<1> QED BY <1>13, <1>14 DEF LinesMapped

\* Every step leaves the map right.
LEMMA LinesMappedKept == CodeInv /\ LinesMapped /\ [Next]_vars => LinesMapped'
<1> SUFFICES ASSUME CodeInv, LinesMapped, [Next]_vars PROVE LinesMapped'
  OBVIOUS
<1>0. at \in Nat \ {0} /\ Len(code) \in Nat /\ phase \in Phases
  BY DEF CodeInv, TypeInv, ParserTyped
<1>1. CASE MapLines
  BY <1>1, LinesMappedByMapLines
<1>2. CASE Generate
  <2>1. lineMap' = <<>>
    BY <1>2 DEF Generate, CodeInv, Untouched, Mapping, Loading, results
  <2>2. phase' = "mapping" => Mapped' = 0
    BY <1>2 DEF Generate, Mapped
  <2>3. phase' \in Mapping => phase' = "mapping"
    BY <1>2 DEF Generate, Mapping, Loading
  <2> QED BY <2>1, <2>2, <2>3 DEF LinesMapped
<1>3. CASE EndMapping
  <2>1. at = Len(code) + 1
    BY <1>0, <1>3 DEF EndMapping, CodeInv, Bounded
  <2>2. Mapped' = Mapped /\ phase \in Mapping
    BY <1>0, <1>3, <2>1 DEF EndMapping, Mapped, parserVars, Mapping
  <2> QED BY <1>3, <2>2, LinesMappedStay DEF EndMapping, texts, parserVars, results
<1>4. CASE LoadText \/ LoadElement \/ EndLoad
  <2>1. UNCHANGED <<source, code, lineMap>> /\ Mapped' = Mapped /\ phase \in Mapping
    BY <1>4 DEF LoadText, LoadElement, EndLoad, texts, parserVars, results, Mapped, Mapping, Loading
  <2> QED BY <2>1, LinesMappedStay
<1>5. ASSUME NEW line \in DOMAIN editor, SetBreakpoints({line}) PROVE LinesMapped'
  <2>1. UNCHANGED <<source, code, lineMap>> /\ Mapped' = Mapped /\ phase \in Mapping
    BY <1>5 DEF SetBreakpoints, texts, parserVars, Mapped, Mapping, Loading
  <2> QED BY <2>1, LinesMappedStay
<1>6. CASE ExpandLine \/ EndExpansion \/ OverLine \/ EndFirstPass \/ EndSecondPass \/ BackPatch
  BY <1>6 DEF ExpandLine, EndExpansion, OverLine, EndFirstPass, EndSecondPass, BackPatch,
              LinesMapped, Mapping, Loading
<1>7. CASE UNCHANGED vars
  <2>1. UNCHANGED <<source, code, lineMap>> /\ Mapped' = Mapped /\ phase' = phase
    BY <1>7 DEF vars, texts, parserVars, results, Mapped
  <2>2. CASE phase \in Mapping
    BY <2>1, <2>2, LinesMappedStay
  <2>3. CASE phase \notin Mapping
    BY <2>1, <2>3 DEF LinesMapped
  <2> QED BY <2>2, <2>3
<1> QED BY <1>1, <1>2, <1>3, <1>4, <1>5, <1>6, <1>7, Steps DEF Later

\* No line is expanded when the assembler starts.
LEMMA OriginInitially == Init => OriginKept
<1> SUFFICES ASSUME Init PROVE OriginKept
  OBVIOUS
<1>1. Read = 0 /\ source = <<>> /\ Len(source) = 0
  BY DEF Init, Read
<1>2. Len(editor) \in Nat
  BY EditorTyped, TypesInitially
<1> QED BY <1>1, <1>2 DEF OriginKept

\* A line that is expanded goes where it stood, as long as all became one line.
LEMMA OriginByExpandLine ==
  ASSUME TypeInv, OriginKept, ExpandLine
  PROVE  OriginKept'
<1> DEFINE new == ExpansionOf(editor[at])
           from == [n \in 1..Len(new) |-> at]
           single(line) == \A k \in 1..line - 1 : Len(ExpansionOf(editor[k])) = 1
<1>1. /\ phase = "written" /\ phase' = phase /\ editor' = editor /\ at' = at + 1
      /\ at \in 1..Len(editor) /\ Len(editor) \in Nat
      /\ source' = source \o new /\ origin' = origin \o from
  BY EditorTyped DEF ExpandLine, TypeInv, ParserTyped
<1>2. new \in Seq(Lines)
  BY <1>1, ExpansionTyped
<1> HIDE DEF new
<1>3. from \in Seq(Nat) /\ Len(from) = Len(new) /\ \A k \in 1..Len(new) : from[k] = at
  BY <1>1, <1>2
<1>4. source \in Seq(Lines) /\ origin \in Seq(Nat) /\ Len(origin) = Len(source)
  BY DEF TypeInv, TextsTyped
<1> HIDE DEF from
<1>5. /\ Len(source') = Len(source) + Len(new) /\ Len(source) \in Nat /\ Len(new) \in Nat
      /\ \A j \in 1..Len(source) : origin'[j] = origin[j]
      /\ \A j \in 1..Len(source') : j > Len(source) => origin'[j] = at
  <2>1. /\ Len(source \o new) = Len(source) + Len(new) /\ Len(source) \in Nat /\ Len(new) \in Nat
    BY <1>2, <1>4, Joined
  <2>2. /\ \A j \in 1..Len(source) : (origin \o from)[j] = origin[j]
        /\ \A k \in 1..Len(new) : (origin \o from)[Len(source) + k] = from[k]
    <3>1. /\ \A k \in 1..Len(origin) : (origin \o from)[k] = origin[k]
          /\ \A k \in 1..Len(from) : (origin \o from)[Len(origin) + k] = from[k]
      <4>1. origin \in Seq(Nat) /\ from \in Seq(Nat)
        BY <1>3, <1>4
      <4> QED BY <4>1, Joined
    <3> QED BY <1>3, <1>4, <3>1
  <2>3. \A j \in 1..Len(source) + Len(new) : j > Len(source) => origin'[j] = at
    <3> TAKE j \in 1..Len(source) + Len(new)
    <3> HAVE j > Len(source)
    <3>1. j - Len(source) \in 1..Len(new) /\ Len(source) + (j - Len(source)) = j
      BY <2>1
    <3> QED BY <1>1, <1>3, <2>2, <3>1
  <2> QED BY <1>1, <2>1, <2>2, <2>3
<1>6. Read = at - 1 /\ Read' = at
  BY <1>1 DEF Read
<1>7. /\ \A j \in 1..Len(source) : origin[j] \in 1..at - 1
      /\ \A line \in 1..at :
           single(line) => /\ line - 1 <= Len(source)
                           /\ \A j \in 1..Len(source) : origin[j] < line <=> j < line
  BY <1>1, <1>6 DEF OriginKept
<1>13. at \in Nat \ {0}
  BY <1>1
<1>8. \A j \in 1..Len(source') : origin'[j] \in 1..at
  <2> TAKE j \in 1..Len(source')
  <2>1. CASE j <= Len(source)
    <3>1. j \in 1..Len(source)
      BY <1>5, <2>1
    <3> QED BY <1>5, <1>7, <1>13, <3>1
  <2>2. CASE j > Len(source)
    BY <1>5, <1>13, <2>2
  <2> QED BY <1>5, <2>1, <2>2
<1>9. ASSUME NEW line \in 1..at, single(line)
      PROVE  /\ line - 1 <= Len(source')
             /\ \A j \in 1..Len(source') : origin'[j] < line <=> j < line
  <2>1. line - 1 <= Len(source) /\ \A j \in 1..Len(source) : origin[j] < line <=> j < line
    BY <1>7, <1>9
  <2> HIDE DEF single
  <2>2. ASSUME NEW j \in 1..Len(source') PROVE origin'[j] < line <=> j < line
    <3>1. CASE j <= Len(source)
      <4>1. j \in 1..Len(source)
        BY <1>5, <3>1
      <4> QED BY <1>5, <2>1, <4>1
    <3>2. CASE j > Len(source)
      BY <1>5, <1>13, <2>1, <3>2
    <3> QED BY <1>5, <3>1, <3>2
  <2> QED BY <1>5, <1>13, <2>1, <2>2
<1>10. ASSUME single(at + 1)
       PROVE  /\ at <= Len(source')
              /\ \A j \in 1..Len(source') : origin'[j] < at + 1 <=> j < at + 1
  <2>1. single(at) /\ Len(new) = 1
    BY <1>1, <1>10 DEF new
  <2>2. at - 1 <= Len(source) /\ \A j \in 1..Len(source) : origin[j] < at <=> j < at
    BY <1>1, <1>7, <2>1
  <2>3. Len(source) < at
    <3>1. CASE Len(source) = 0
      BY <1>1, <3>1
    <3>2. CASE Len(source) # 0
      <4>1. Len(source) \in 1..Len(source)
        BY <1>5, <3>2
      <4> QED BY <1>5, <1>7, <1>13, <2>2, <4>1
    <3> QED BY <3>1, <3>2
  <2>4. Len(source') = at
    BY <1>5, <1>13, <2>1, <2>2, <2>3
  <2> HIDE DEF single
  <2> QED BY <1>8, <1>13, <2>4
<1>11. \A line \in 1..at + 1 :
         single(line) => /\ line - 1 <= Len(source')
                         /\ \A j \in 1..Len(source') : origin'[j] < line <=> j < line
  <2> HIDE DEF single
  <2> TAKE line \in 1..at + 1
  <2>1. CASE line = at + 1
    BY <1>10, <1>13, <2>1
  <2>2. CASE line # at + 1
    <3>1. line \in 1..at
      BY <1>13, <2>2
    <3> QED BY <1>9, <3>1
  <2> QED BY <2>1, <2>2
<1>12. \A k : ExpansionOf(editor[k])' = ExpansionOf(editor[k])
  BY <1>1 DEF ExpansionOf
<1>14. Read' <= Len(editor')
  BY <1>1, <1>6
<1>15. \A j \in 1..Len(source') : origin'[j] \in 1..Read'
  BY <1>6, <1>8
<1>16. \A line \in 1..Read' + 1 :
         (\A k \in 1..line - 1 : Len(ExpansionOf(editor[k])') = 1) =>
           /\ line - 1 <= Len(source')
           /\ \A j \in 1..Len(source') : origin'[j] < line <=> j < line
  BY <1>6, <1>11, <1>12
<1> QED BY <1>14, <1>15, <1>16 DEF OriginKept

\* Every step leaves the origins of the lines right.
LEMMA OriginStep == TypeInv /\ OriginKept /\ [Next]_vars => OriginKept'
<1> SUFFICES ASSUME TypeInv, OriginKept, [Next]_vars PROVE OriginKept'
  OBVIOUS
<1>1. ASSUME UNCHANGED texts, Read' = Read PROVE OriginKept'
  <2>1. \A k : ExpansionOf(editor[k])' = ExpansionOf(editor[k])
    BY <1>1 DEF ExpansionOf, texts
  <2> QED BY <1>1, <2>1 DEF OriginKept, texts
<1>2. CASE EndExpansion
  <2>1. at = Len(editor) + 1
    BY <1>2, EditorTyped DEF EndExpansion, OriginKept, Read, TypeInv, ParserTyped
  <2>2. Read' = Read
    BY <1>2, <2>1, EditorTyped DEF EndExpansion, Read, texts
  <2> QED BY <1>1, <1>2, <2>2 DEF EndExpansion
<1>3. CASE OverLine \/ EndFirstPass \/ EndSecondPass
  BY <1>1, <1>3 DEF OverLine, EndFirstPass, EndSecondPass, texts, Read
<1>4. CASE BackPatch \/ Generate \/ MapLines \/ EndMapping \/ LoadText \/ LoadElement \/ EndLoad
  BY <1>1, <1>4 DEF BackPatch, Generate, MapLines, EndMapping, LoadText, LoadElement, EndLoad,
                    texts, Read
<1>5. ASSUME NEW line \in DOMAIN editor, SetBreakpoints({line}) PROVE OriginKept'
  BY <1>1, <1>5 DEF SetBreakpoints, texts, Read
<1>6. CASE UNCHANGED vars
  BY <1>1, <1>6 DEF vars, texts, Read
<1> QED BY <1>2, <1>3, <1>4, <1>5, <1>6, OriginByExpandLine, Steps DEF Later

\* A breakpoint then stops at the next instruction.
LEMMA BreakpointsStop ==
  CodeInv /\ LinesMapped /\ OriginKept => BreakpointsStopAtTheirLine
<1> SUFFICES ASSUME CodeInv, LinesMapped, OriginKept, phase = "loaded",
                    NEW line \in DOMAIN editor,
                    \A k \in 1..line - 1 : Len(ExpansionOf(editor[k])) = 1
             PROVE  LET below == {i \in Instructions : origin[i] >= line}
                    IN BreakpointAt(line) = IF below = {} THEN 0 ELSE StartOf(FirstOf(below))
  BY DEF BreakpointsStopAtTheirLine
<1> DEFINE below == {i \in Instructions : origin[i] >= line}
<1>1. /\ line \in 1..Len(editor) /\ Len(editor) \in Nat /\ Instructions \subseteq 1..Len(source)
      /\ source \in Seq(Lines) /\ Len(source) \in Nat
  BY EditorTyped, LinesTyped DEF CodeInv
<1>2. below = {i \in Instructions : line <= i}
  <2>1. \A j \in 1..Len(source) : origin[j] \in Nat /\ (origin[j] < line <=> j < line)
    <3>1. Read = Len(editor) /\ line \in 1..Read + 1
      BY <1>1 DEF Read
    <3>2. \A j \in 1..Len(source) : origin[j] \in 1..Read /\ (origin[j] < line <=> j < line)
      BY <3>1 DEF OriginKept
    <3> QED BY <1>1, <3>1, <3>2
  <2>2. \A i \in Instructions : origin[i] >= line <=> line <= i
    BY <1>1, <2>1
  <2> QED BY <2>2
<1>3. phase \in Mapping /\ phase \in Loading
  BY DEF Mapping, Loading
<1>4. CodeSound
  BY <1>3, LoadedProgram
<1>5. /\ lineMap \in Seq(Nat) /\ Mapped = Len(code) /\ Len(code) \in Nat
      /\ \A l \in 1..Len(lineMap) :
           \E i \in Instructions : IsNext(i, l) /\ lineMap[l] = IndexOf(i)
  BY <1>3 DEF LinesMapped, Mapped, CodeInv, TypeInv, ParserTyped, ResultsTyped
<1>6. CASE below = {}
  <2>1. line \notin DOMAIN lineMap
    BY <1>2, <1>5, <1>6 DEF IsNext
  <2> QED BY <1>6, <2>1 DEF BreakpointAt
<1>7. CASE below # {}
  <2>1. PICK m \in Instructions : line <= m
    BY <1>2, <1>7
  <2>2. line \in 1..Len(lineMap)
    <3>1. m \in 1..Len(source) /\ m < Len(source) + 1
      BY <1>1
    <3>2. Len(code) = IndexOf(Len(source) + 1)
      BY <1>3, <1>4, LoadedProgram DEF CodeSound
    <3>3. /\ IndexOf(m) + SizeOf(m) <= Len(code) /\ IndexOf(m) \in Nat /\ SizeOf(m) \in Nat \ {0}
      BY <1>1, <3>1, <3>2, InstructionIndices
    <3>4. Len(code) \in 1..Len(code)
      BY <1>5, <3>3
    <3>5. PICK i \in Instructions : /\ code[Len(code)].line = i
                                    /\ Len(code) \in IndexOf(i) + 1 .. IndexOf(i) + SizeOf(i)
      BY <1>4, <3>4, UnitLine
    <3>6. i \in Nat /\ IndexOf(i) \in Nat /\ SizeOf(i) \in Nat \ {0}
      BY <1>1, InstructionIndices
    <3>7. ~(i < m)
      <4>1. ASSUME i < m PROVE FALSE
        <5>1. IndexOf(i) + SizeOf(i) <= IndexOf(m)
          BY <1>1, <3>1, <4>1, InstructionIndices
        <5> QED BY <1>5, <3>3, <3>5, <3>6, <5>1
      <4> QED BY <4>1
    <3>8. Len(lineMap) = i
      BY <1>3, <1>5, <3>4, <3>5 DEF LinesMapped
    <3> QED BY <1>1, <2>1, <3>1, <3>6, <3>7, <3>8
  <2>3. PICK i \in Instructions : IsNext(i, line) /\ lineMap[line] = IndexOf(i)
    BY <1>5, <2>2
  <2>4. i \in Nat /\ IndexOf(i) \in Nat
    BY <1>1, InstructionIndices
  <2>5. FirstOf(below) = i
    <3>1. i \in below /\ \A j \in below : i <= j
      BY <1>2, <2>3 DEF IsNext
    <3>2. \A j \in below : j \in Nat
      BY <1>1, <1>2
    <3>3. \A j \in below : (\A k \in below : j <= k) => j = i
      BY <3>1, <3>2
    <3> HIDE DEF below
    <3> QED BY <3>1, <3>3 DEF FirstOf
  <2>6. BreakpointAt(line) = IndexOf(i) * 4
    BY <1>5, <2>2, <2>3 DEF BreakpointAt
  <2>7. StartOf(FirstOf(below)) = IndexOf(i) * 4
    BY <2>4, <2>5, StartIsIndex
  <2> QED BY <1>7, <2>6, <2>7
<1> QED BY <1>6, <1>7

\* A breakpoint on a line of the editor stops at the first instruction from that line or
\* below it, up to the first pseudo instruction that is not one line, for every text and
\* all pseudo instructions.
THEOREM BreakpointsStopAtTheirLineHolds == Spec => []BreakpointsStopAtTheirLine
<1>1. Init => LinesMapped
  BY DEF Init, LinesMapped, Mapping, Loading
<1>2. CodeInv => TypeInv
  BY DEF CodeInv
<1> QED BY <1>1, <1>2, CodeInvInitially, CodeInvKept, LinesMappedKept, OriginInitially,
           OriginStep, BreakpointsStop, PTL DEF Spec

-----------------------------------------------------------------------------
(* The layout of the data. *)

\* Elements of one width, one after the other, are aligned.
LEMMA Multiples ==
  ASSUME NEW base \in Nat, NEW width \in Widths, base % width = 0, NEW n \in Nat
  PROVE  /\ base + n * width \in Nat /\ (base + n * width) % width = 0
         /\ Align(base + n * width, width) = base + n * width
         /\ width \in Nat \ {0} /\ n * width + width = (n + 1) * width
<1>1. CASE width = 1
  BY <1>1 DEF Align
<1>2. CASE width = 2
  BY <1>2 DEF Align
<1>3. CASE width = 4
  BY <1>3 DEF Align
<1>4. CASE width = 8
  BY <1>4 DEF Align
<1> QED BY <1>1, <1>2, <1>3, <1>4 DEF Widths

\* To align again changes nothing.
LEMMA AlignedTwice ==
  ASSUME NEW index \in Nat, NEW width \in Widths
  PROVE  Align(Align(index, width), width) = Align(index, width)
<1> DEFINE place == Align(index, width)
<1>1. place \in Nat /\ place % width = 0
  BY AlignGrows
<1> HIDE DEF place
<1>2. Align(place, width) = place
  BY <1>1 DEF Align
<1> QED BY <1>2 DEF place

\* After a data label that was no error its directive follows, in the same section.
LEMMA AfterLabel ==
  ASSUME CodeInv, phase = "first", errors = {}, at - 1 \in LabelsIn("data")
  PROVE  /\ at \in LinesIn("data") /\ source[at].op \in Directives /\ at \in 1..Len(source)
         /\ at \notin LabelsIn("data")
<1>1. at - 1 \in 1..Len(source) /\ Len(source) \in Nat /\ at \in Nat \ {0}
  BY LinesTyped DEF CodeInv
<1>2. GoodData(at - 1)
  <2>1. DataSound /\ DataDone = at
    BY DEF CodeInv, Clean, DataDone
  <2>2. at - 1 < at
    BY <1>1
  <2> QED BY <2>1, <2>2 DEF DataSound, LabelsIn
<1>3. source[at - 1].op = "label" /\ at - 1 + 1 = at
  BY <1>1 DEF LabelsIn
<1>4. at - 1 < Len(source) /\ source[at].op \in Directives
  BY <1>2, <1>3 DEF GoodData
<1>5. SectionOf(at) = "data"
  <2>1. SectionOf(at - 1) = "data"
    BY DEF LabelsIn, LinesIn
  <2>2. at - 1 \in Nat \ {0}
    BY <1>1
  <2>3. SectionOf((at - 1) + 1) = SectionOf(at - 1)
    BY <1>3, <2>2, SectionNext DEF Sections
  <2> QED BY <1>3, <2>1, <2>3
<1>6. at \in 1..Len(source)
  BY <1>1, <1>4
<1> QED BY <1>4, <1>5, <1>6 DEF LinesIn, LabelsIn, Sections, Directives, CodeInv, TypeInv,
                                TextsTyped

\* What the data elements have.
LEMMA ElementTyped ==
  ASSUME TypeInv, NEW k \in 1..Len(dataBuffer)
  PROVE  /\ dataBuffer[k].width \in Widths /\ dataBuffer[k].width \in Nat \ {0}
         /\ Len(dataBuffer) \in Nat
<1>1. dataBuffer[k] \in Elements /\ Len(dataBuffer) \in Nat
  BY DEF TypeInv, ParserTyped
<1> QED BY <1>1 DEF Elements, Widths

\* Where an element ends.
LEMMA EndTyped ==
  ASSUME TypeInv, NEW pos \in [1..Len(dataBuffer) -> Nat], NEW k \in 0..Len(dataBuffer)
  PROVE  EndOf(pos, k) \in Nat
<1>1. k # 0 => k \in 1..Len(dataBuffer)
  BY DEF TypeInv, ParserTyped
<1> QED BY <1>1, ElementTyped DEF EndOf

\* Before the first line there is nothing to lay out.
AtStart ==
  /\ phase \in {"written", "first"} /\ DataDone = 1 /\ dataBuffer = <<>> /\ dataIndex = 0

\* Before the first line there is nothing to lay out.
LEMMA LaidOutAtStart == TypeInv /\ AtStart => LaidOut
<1> SUFFICES ASSUME TypeInv, AtStart PROVE LaidOut
  OBVIOUS
<1>1. Len(dataBuffer) = 0 /\ DataDone = 1 /\ dataIndex = 0
  BY DEF AtStart
<1> DEFINE pos == [k \in 1..0 |-> 0]
<1>2. pos \in [1..Len(dataBuffer) -> Nat]
  BY <1>1
<1>3. Places(pos)
  BY <1>1 DEF Places
<1>4. \A d \in LabelsIn("data") : d \in 1..Len(source) /\ Len(source) \in Nat
  BY LinesTyped
<1>5. IndexKept(pos)
  <2>1. phase = "first" => at = 1
    BY <1>1 DEF DataDone
  <2>2. ~JustLabelled
    BY <1>4, <2>1 DEF JustLabelled
  <2> QED BY <1>1, <2>2 DEF IndexKept, EndOf
<1>6. LabelsPlaced(pos)
  <2>1. \A d \in LabelsIn("data") : ~(d < 1)
    BY <1>4
  <2> QED BY <1>1, <2>1 DEF LabelsPlaced, IsLast
<1>7. DataLoaded(pos)
  BY DEF AtStart, DataLoaded, Loading
<1> HIDE DEF pos
<1> QED BY <1>2, <1>3, <1>5, <1>6, <1>7 DEF LaidOut

\* The steps that leave the data as they are.
LEMMA LayoutStays ==
  ASSUME UNCHANGED <<source, dataBuffer>>, DataDone' = DataDone,
         NEW pos \in [1..Len(dataBuffer) -> Nat], Places(pos), LabelsPlaced(pos),
         ~JustLabelled, phase' # "first",
         \A d \in LabelsIn("data") : IsLast(d, DataDone) =>
           symbols'[source[d].label] = symbols[source[d].label]
  PROVE  Places(pos)' /\ LabelsPlaced(pos)' /\ IndexKept(pos)'
<1>1. Places(pos)'
  BY DEF Places, EndOf
<1>2. IndexKept(pos)' /\ ~JustLabelled'
  BY DEF IndexKept, JustLabelled
<1>3. LabelsIn("data")' = LabelsIn("data") /\ \A d, n : IsLast(d, n)' <=> IsLast(d, n)
  BY TextStays, LastStays
<1>4. \A d \in LabelsIn("data") : IsLast(d, DataDone) =>
        \E j \in 1..Len(dataBuffer) :
             /\ dataBuffer[j].line = d + 1 /\ dataBuffer[j].nth = 1
             /\ symbols'[source[d].label].address = pos[j]
  BY DEF LabelsPlaced
<1> QED BY <1>1, <1>2, <1>3, <1>4 DEF LabelsPlaced

\* A line of the first pass that is no label moves no label.
LEMMA LabelsStayPlaced ==
  ASSUME CodeInv, phase = "first", DataDone' = at + 1, source' = source, symbols' = symbols,
         at \notin LabelsIn("data"),
         NEW pos, NEW end, LabelsPlaced(pos),
         \A j \in 1..Len(dataBuffer) : dataBuffer'[j] = dataBuffer[j] /\ end[j] = pos[j],
         Len(dataBuffer') \in Nat, Len(dataBuffer) <= Len(dataBuffer'), phase' = "first", at' = at + 1,
         JustLabelled => \E j \in 1..Len(dataBuffer') : /\ dataBuffer'[j].line = at
                                                        /\ dataBuffer'[j].nth = 1
                                                        /\ end[j] = dataIndex
  PROVE  LabelsPlaced(end)'
<1>1. /\ DataDone = at /\ at \in Nat \ {0} /\ Len(dataBuffer) \in Nat
      /\ \A d \in LabelsIn("data") : d \in Nat
  BY LinesTyped DEF DataDone, CodeInv, TypeInv, ParserTyped
<1>2. \A d \in LabelsIn("data") : d < at + 1 <=> d < at
  BY <1>1
<1>3. \A d : IsLast(d, at + 1) <=> IsLast(d, at)
  BY <1>2 DEF IsLast
<1>4. \A d, n : IsLast(d, n)' <=> IsLast(d, n)
  BY LastStays
<1>5. LabelsIn("data")' = LabelsIn("data") /\ ~JustLabelled'
  <2>1. LabelsIn("data")' = LabelsIn("data")
    BY TextStays
  <2>2. at' - 1 = at
    BY <1>1
  <2> QED BY <2>1, <2>2 DEF JustLabelled
<1>6. ASSUME NEW d \in LabelsIn("data"), IsLast(d, at)
      PROVE  \E j \in 1..Len(dataBuffer') :
               /\ dataBuffer'[j].line = d + 1 /\ dataBuffer'[j].nth = 1
               /\ symbols'[source[d].label].address = end[j]
  <2>1. CASE JustLabelled /\ d = at - 1
    <3>1. symbols[source[d].label].address = dataIndex
      BY <1>1, <1>6, <2>1 DEF LabelsPlaced
    <3>2. d + 1 = at
      BY <1>1, <2>1
    <3> QED BY <2>1, <3>1, <3>2
  <2>2. CASE ~(JustLabelled /\ d = at - 1)
    <3>1. PICK j \in 1..Len(dataBuffer) :
             /\ dataBuffer[j].line = d + 1 /\ dataBuffer[j].nth = 1
             /\ symbols[source[d].label].address = pos[j]
      BY <1>1, <1>6, <2>2 DEF LabelsPlaced
    <3>2. j \in 1..Len(dataBuffer')
      BY <1>1
    <3> QED BY <3>1, <3>2
  <2> QED BY <2>1, <2>2
<1> QED BY <1>3, <1>4, <1>5, <1>6 DEF LabelsPlaced

\* If the labels up to a line are followed by data, so are those up to an earlier one.
LEMMA FilledBefore ==
  ASSUME TypeInv, source' = source, DataDone \in Nat, DataDone' \in Nat, DataDone <= DataDone',
         Filled(DataDone)'
  PROVE  Filled(DataDone)
<1>1. LabelsIn("data")' = LabelsIn("data") /\ \A d \in LabelsIn("data") : d \in Nat
  BY TextStays, LinesTyped
<1>2. \A d \in LabelsIn("data") : d < DataDone' => source[d + 1].count > 0
  BY <1>1 DEF Filled
<1>3. \A d \in LabelsIn("data") : d < DataDone => d < DataDone'
  BY <1>1
<1> QED BY <1>2, <1>3 DEF Filled

\* A line of the first pass that adds no element.
LEMMA LayoutOfSkip ==
  ASSUME CodeInv, phase = "first", DataDone' = at + 1, phase' = "first", at' = at + 1,
         UNCHANGED <<source, symbols, dataIndex, dataBuffer>>,
         at \notin LabelsIn("data"), ~JustLabelled, errors = {}, errors' = {}, LaidOut
  PROVE  LaidOut'
<1> SUFFICES ASSUME Filled(DataDone)' PROVE LaidOut'
  BY DEF LaidOut
<1>1. DataDone = at /\ at \in Nat \ {0} /\ Len(dataBuffer) \in Nat
  BY DEF DataDone, CodeInv, TypeInv, ParserTyped
<1>2. LabelsIn("data")' = LabelsIn("data") /\ \A d \in LabelsIn("data") : d \in Nat
  BY TextStays, LinesTyped DEF CodeInv
<1>3. Filled(DataDone)
  <2>1. DataDone \in Nat /\ DataDone' \in Nat /\ DataDone <= DataDone'
    BY <1>1
  <2> QED BY <1>1, <2>1, FilledBefore DEF CodeInv
<1>4. PICK pos \in [1..Len(dataBuffer) -> Nat] :
        Places(pos) /\ IndexKept(pos) /\ LabelsPlaced(pos) /\ DataLoaded(pos)
  BY <1>3 DEF LaidOut
<1>5. LabelsPlaced(pos)'
  <2>1. \A j \in 1..Len(dataBuffer) : dataBuffer'[j] = dataBuffer[j] /\ pos[j] = pos[j]
    OBVIOUS
  <2>2. Len(dataBuffer') \in Nat /\ Len(dataBuffer) <= Len(dataBuffer')
    BY <1>1
  <2> QED BY <1>4, <2>1, <2>2, LabelsStayPlaced
<1>6. Places(pos)' /\ DataLoaded(pos)'
  BY <1>4 DEF Places, EndOf, DataLoaded, Loading
<1>7. IndexKept(pos)'
  <2>1. at' - 1 = at
    BY <1>1
  <2>2. ~JustLabelled'
    BY <1>2, <2>1 DEF JustLabelled
  <2> QED BY <1>4, <2>2 DEF IndexKept, EndOf
<1>8. pos \in [1..Len(dataBuffer') -> Nat]
  OBVIOUS
<1> QED BY <1>5, <1>6, <1>7, <1>8 DEF LaidOut

\* A data label gets the place of the element that comes next.
LEMMA LayoutOfLabel ==
  ASSUME CodeInv, phase = "first", OverLine, DataLabel, at \in LabelsIn("data"),
         errors = {}, errors' = {}, LaidOut
  PROVE  LaidOut'
<1> SUFFICES ASSUME Filled(DataDone)' PROVE LaidOut'
  BY DEF LaidOut
<1> DEFINE address == Align(dataIndex, source[at + 1].width)
           new == source[at].label
<1>1. /\ DataDone = at /\ DataDone' = at + 1 /\ at \in Nat \ {0} /\ Len(dataBuffer) \in Nat
      /\ phase' = "first" /\ at' = at + 1 /\ at' - 1 = at
      /\ UNCHANGED <<source, dataBuffer>>
  BY Progress DEF OverLine, DataLabel, texts, CodeInv, TypeInv, ParserTyped
<1>2. /\ LabelsIn("data")' = LabelsIn("data") /\ \A d \in LabelsIn("data") : d \in Nat
      /\ \A d, n : IsLast(d, n)' <=> IsLast(d, n)
  BY <1>1, TextStays, LastStays, LinesTyped DEF CodeInv
<1>3. Filled(DataDone)
  <2>1. DataDone \in Nat /\ DataDone' \in Nat /\ DataDone <= DataDone'
    BY <1>1
  <2> QED BY <1>1, <2>1, FilledBefore DEF CodeInv
<1>4. PICK pos \in [1..Len(dataBuffer) -> Nat] :
        Places(pos) /\ IndexKept(pos) /\ LabelsPlaced(pos) /\ DataLoaded(pos)
  BY <1>3 DEF LaidOut
<1>5. ~JustLabelled /\ JustLabelled'
  <2>1. ~JustLabelled
    BY AfterLabel DEF JustLabelled
  <2>2. JustLabelled'
    BY <1>1, <1>2 DEF JustLabelled
  <2> QED BY <2>1, <2>2
<1>6. FollowedByDirective
  <2>1. CASE ~FollowedByDirective
    BY <2>1 DEF DataLabel
  <2> QED BY <2>1
<1>7. dataIndex' = address /\ Define(new, address, TRUE)
  BY <1>6 DEF DataLabel, LabelAddress, Line
<1>8. Places(pos)' /\ DataLoaded(pos)' /\ pos \in [1..Len(dataBuffer') -> Nat]
  BY <1>1, <1>4 DEF Places, EndOf, DataLoaded, Loading
<1>9. IndexKept(pos)'
  <2>1. dataIndex = EndOf(pos, Len(dataBuffer))
    BY <1>4, <1>5 DEF IndexKept
  <2>2. EndOf(pos, Len(dataBuffer))' = EndOf(pos, Len(dataBuffer))
    BY <1>1 DEF EndOf
  <2> QED BY <1>1, <1>5, <1>7, <2>1, <2>2 DEF IndexKept, Align
<1> HIDE DEF address, new
<1>10. /\ symbols'[new].address = address
       /\ \A l \in DOMAIN symbols : l # new => symbols'[l] = symbols[l]
  BY <1>7, DefineKeeps
<1>11. ASSUME NEW d \in LabelsIn("data"), IsLast(d, at + 1)
       PROVE  IF d = at THEN symbols'[source[d].label].address = address
              ELSE \E j \in 1..Len(dataBuffer) :
                     /\ dataBuffer[j].line = d + 1 /\ dataBuffer[j].nth = 1
                     /\ symbols'[source[d].label].address = pos[j]
  <2>1. CASE d = at
    BY <1>10, <2>1 DEF new
  <2>2. CASE d # at
    <3>1. d < at + 1 /\ d \in Nat
      BY <1>2, <1>11 DEF IsLast
    <3>2. d < at /\ source[d].label # new
      <4>1. d < at
        BY <1>1, <2>2, <3>1
      <4>2. at < at + 1 /\ ~(at <= d)
        BY <1>1, <3>1, <4>1
      <4> QED BY <1>11, <4>1, <4>2 DEF IsLast, new
    <3>3. IsLast(d, at)
      <4>1. \A e \in LabelsIn("data") : e < at => e < at + 1
        BY <1>1, <1>2
      <4> QED BY <1>11, <3>2, <4>1 DEF IsLast
    <3>4. source[d].label \in DOMAIN symbols
      BY <1>1, <3>2 DEF CodeInv, TableKept
    <3>5. symbols'[source[d].label] = symbols[source[d].label]
      BY <1>10, <3>2, <3>4
    <3> QED BY <1>1, <1>4, <1>5, <2>2, <3>3, <3>5 DEF LabelsPlaced
  <2> QED BY <2>1, <2>2
<1>12. LabelsPlaced(pos)'
  BY <1>1, <1>2, <1>5, <1>7, <1>11 DEF LabelsPlaced
<1> QED BY <1>8, <1>9, <1>12 DEF LaidOut

\* The elements of one directive follow each other without gaps.
LEMMA LayoutOfDirective ==
  ASSUME CodeInv, phase = "first", OverLine, DataDirective, at \in LinesIn("data"),
         source[at].op \in Directives, source[at].count # 0, errors = {}, errors' = {}, LaidOut
  PROVE  LaidOut'
<1> SUFFICES ASSUME Filled(DataDone)' PROVE LaidOut'
  BY DEF LaidOut
<1>0. PICK n, width, old : n = source[at].count /\ width = source[at].width /\ old = Len(dataBuffer)
  OBVIOUS
<1> DEFINE added == [k \in 1..n |-> [line |-> at, nth |-> k, width |-> width]]
<1>1. /\ DataDone = at /\ DataDone' = at + 1 /\ at \in Nat \ {0} /\ old \in Nat
      /\ phase' = "first" /\ at' = at + 1 /\ at' - 1 = at
      /\ UNCHANGED <<source, symbols>> /\ at \in 1..Len(source)
      /\ dataBuffer \in Seq(Elements) /\ dataIndex \in Nat
  BY <1>0, Progress, LinesTyped DEF OverLine, DataDirective, texts, CodeInv, TypeInv, ParserTyped
<1>2. at \notin LabelsIn("data")
  BY DEF LabelsIn, Directives
<1>3. Filled(DataDone)
  <2>1. DataDone \in Nat /\ DataDone' \in Nat /\ DataDone <= DataDone'
    BY <1>1
  <2> QED BY <1>1, <2>1, FilledBefore DEF CodeInv
<1>4. PICK pos \in [1..Len(dataBuffer) -> Nat] :
        Places(pos) /\ IndexKept(pos) /\ LabelsPlaced(pos) /\ DataLoaded(pos)
  BY <1>3 DEF LaidOut
<1>5. width \in Widths /\ n \in Nat \ {0} /\ width \in Nat \ {0}
  BY <1>0, <1>1, LineTyped DEF CodeInv, Widths
<1>20. PICK base : base = Align(EndOf(pos, old), width)
  OBVIOUS
<1>6. EndOf(pos, old) \in Nat
  BY <1>0, <1>1, <1>4, EndTyped DEF CodeInv
<1>7. base \in Nat /\ base % width = 0
  BY <1>5, <1>6, <1>20, AlignGrows
<1>8. Align(dataIndex, width) = base
  BY <1>0, <1>1, <1>4, <1>5, <1>6, <1>20, AlignedTwice DEF IndexKept
<1>9. dataIndex' = base + n * width /\ dataBuffer' = dataBuffer \o added
  BY <1>0, <1>8 DEF DataDirective, Line
<1>10. added \in Seq(Elements) /\ Len(added) = n
  <2>1. \A k \in 1..n : [line |-> at, nth |-> k, width |-> width] \in Elements
    BY <1>1, <1>5 DEF Elements
  <2> QED BY <1>5, <2>1
<1>11. \A k \in 1..n : added[k].line = at /\ added[k].nth = k /\ added[k].width = width
  OBVIOUS
<1> HIDE DEF added
<1>12. /\ Len(dataBuffer') = old + n
       /\ \A k \in 1..old : dataBuffer'[k] = dataBuffer[k]
       /\ \A k \in 1..n : dataBuffer'[old + k] = added[k]
  <2>1. dataBuffer \in Seq(Elements) /\ added \in Seq(Elements)
    BY <1>1, <1>10
  <2>2. /\ Len(dataBuffer \o added) = Len(dataBuffer) + Len(added)
        /\ \A k \in 1..Len(dataBuffer) : (dataBuffer \o added)[k] = dataBuffer[k]
        /\ \A k \in 1..Len(added) : (dataBuffer \o added)[Len(dataBuffer) + k] = added[k]
    BY <2>1, Joined
  <2>3. Len(dataBuffer) = old /\ Len(added) = n /\ dataBuffer' = dataBuffer \o added
    BY <1>0, <1>9, <1>10
  <2> QED BY <2>2, <2>3
<1>21. PICK end : end = [k \in 1..old + n |-> IF k <= old THEN pos[k] ELSE base + (k - old - 1) * width]
  OBVIOUS
<1>13. end \in [1..Len(dataBuffer') -> Nat]
  <2>1. ASSUME NEW k \in 1..old + n, ~(k <= old) PROVE base + (k - old - 1) * width \in Nat
    <3>1. k - old - 1 \in Nat
      BY <1>1, <1>5, <2>1
    <3> QED BY <1>5, <1>7, <3>1, Multiples
  <2>2. ASSUME NEW k \in 1..old + n, k <= old PROVE pos[k] \in Nat
    BY <1>0, <1>1, <1>4, <1>5, <2>2
  <2> QED BY <1>12, <1>21, <2>1, <2>2
<1>14. \A k \in 1..old : end[k] = pos[k]
  BY <1>1, <1>5, <1>21
<1>15. \A m \in 0..n - 1 : end[old + 1 + m] = base + m * width
  <2> TAKE m \in 0..n - 1
  <2>1. /\ old + 1 + m \in 1..old + n /\ ~(old + 1 + m <= old)
        /\ (old + 1 + m) - old - 1 = m
    BY <1>1, <1>5
  <2> QED BY <1>21, <2>1
<1>16. \A m \in 0..n - 1 : dataBuffer'[old + 1 + m].width = width
  <2> TAKE m \in 0..n - 1
  <2>1. m + 1 \in 1..n /\ old + 1 + m = old + (m + 1)
    BY <1>1, <1>5
  <2> QED BY <1>11, <1>12, <2>1
<1>17. /\ \A k \in 0..old : EndOf(end, k)' = EndOf(pos, k)
       /\ \A m \in 0..n - 1 : EndOf(end, old + 1 + m)' = base + (m + 1) * width
  <2>1. ASSUME NEW k \in 0..old
        PROVE  EndOf(end, k)' = EndOf(pos, k)
    <3>1. CASE k = 0
      BY <3>1 DEF EndOf
    <3>2. CASE k # 0
      <4>1. k \in 1..old
        BY <1>1, <3>2
      <4> QED BY <1>12, <1>14, <3>2, <4>1 DEF EndOf
    <3> QED BY <3>1, <3>2
  <2>2. ASSUME NEW m \in 0..n - 1
        PROVE  EndOf(end, old + 1 + m)' = base + (m + 1) * width
    <3> DEFINE k == old + 1 + m
    <3>1. k # 0 /\ m \in Nat
      BY <1>1, <1>5
    <3>2. end[k] = base + m * width /\ dataBuffer'[k].width = width
      BY <1>15, <1>16
    <3> HIDE DEF k
    <3>3. EndOf(end, k)' = base + m * width + width
      BY <3>1, <3>2 DEF EndOf
    <3>4. m * width \in Nat /\ m * width + width = (m + 1) * width
      BY <1>5, <1>7, <3>1, Multiples DEF Widths
    <3> QED BY <1>5, <1>7, <3>3, <3>4 DEF k
  <2> QED BY <2>1, <2>2

<1>18. Places(end)'
  <2>1. ASSUME NEW k \in 1..old
        PROVE  end[k] = Align(EndOf(end, k - 1)', dataBuffer'[k].width)
    <3>1. k - 1 \in 0..old
      BY <1>1
    <3> QED BY <1>0, <1>4, <1>12, <1>14, <1>17, <3>1 DEF Places
  <2>2. ASSUME NEW m \in 0..n - 1
        PROVE  end[old + 1 + m] = Align(EndOf(end, old + m)', width)
    <3>1. CASE m = 0
      <4>1. EndOf(end, old)' = EndOf(pos, old) /\ old + m = old
        BY <1>1, <1>17, <3>1
      <4>2. end[old + 1 + m] = base
        <5>1. 0 * width = 0 /\ base + 0 = base
          BY <1>5, <1>7
        <5>2. end[old + 1 + m] = base + 0 * width
          BY <1>15, <3>1
        <5> QED BY <5>1, <5>2
      <4> QED BY <1>20, <4>1, <4>2
    <3>2. CASE m # 0
      <4>1. m - 1 \in 0..n - 1 /\ old + m = old + 1 + (m - 1) /\ (m - 1) + 1 = m /\ m \in Nat
        BY <1>1, <1>5, <3>2
      <4>2. EndOf(end, old + m)' = base + m * width
        BY <1>17, <4>1
      <4>3. Align(base + m * width, width) = base + m * width
        <5>1. m \in Nat /\ width \in Widths /\ base \in Nat /\ base % width = 0
          BY <1>5, <1>7, <4>1
        <5> QED BY <5>1, Multiples
      <4> QED BY <1>15, <4>2, <4>3
    <3> QED BY <3>1, <3>2
  <2>3. ASSUME NEW k \in 1..old + n, ~(k <= old)
        PROVE  end[k] = Align(EndOf(end, k - 1)', dataBuffer'[k].width)
    <3>1. k - old - 1 \in 0..n - 1 /\ k = old + 1 + (k - old - 1) /\ k - 1 = old + (k - old - 1)
      BY <1>1, <1>5, <2>3
    <3> QED BY <1>16, <2>2, <3>1
  <2>4. \A k \in 1..old + n : end[k] = Align(EndOf(end, k - 1)', dataBuffer'[k].width)
    <3> TAKE k \in 1..old + n
    <3>1. CASE k <= old
      <4>1. k \in 1..old
        BY <1>1, <1>5, <3>1
      <4> QED BY <2>1, <4>1
    <3> QED BY <2>3, <3>1
  <2> QED BY <1>12, <2>4 DEF Places, Align
<1>19. LabelsPlaced(end)'
  <2>1. JustLabelled => \E j \in 1..Len(dataBuffer') : /\ dataBuffer'[j].line = at
                                                        /\ dataBuffer'[j].nth = 1
                                                        /\ end[j] = dataIndex
    <3>1. 0 \in 0..n - 1 /\ old + 1 + 0 = old + 1 /\ 1 \in 1..n /\ old + 1 \in 1..old + n
      BY <1>1, <1>5
    <3>2. base + 0 * width = base
      BY <1>5, <1>7
    <3>3. end[old + 1] = base
      BY <1>15, <3>1, <3>2
    <3>4. dataBuffer'[old + 1].line = at /\ dataBuffer'[old + 1].nth = 1
      BY <1>11, <1>12, <3>1
    <3>5. JustLabelled => dataIndex = base
      BY <1>0, <1>1, <1>4, <1>20 DEF IndexKept
    <3> QED BY <1>12, <3>1, <3>3, <3>4, <3>5
  <2>2. \A j \in 1..Len(dataBuffer) : dataBuffer'[j] = dataBuffer[j] /\ end[j] = pos[j]
    BY <1>0, <1>12, <1>14
  <2>3. Len(dataBuffer') \in Nat /\ Len(dataBuffer) <= Len(dataBuffer')
    BY <1>0, <1>1, <1>5, <1>12
  <2> QED BY <1>1, <1>2, <1>4, <2>1, <2>2, <2>3, LabelsStayPlaced
<1>22. IndexKept(end)'
  <2>1. ~JustLabelled'
    <3>1. LabelsIn("data")' = LabelsIn("data")
      BY <1>1, TextStays
    <3> QED BY <1>1, <1>2, <3>1 DEF JustLabelled
  <2>2. n - 1 \in 0..n - 1 /\ old + 1 + (n - 1) = old + n /\ (n - 1) + 1 = n
    BY <1>1, <1>5
  <2>3. EndOf(end, old + n)' = base + n * width
    BY <1>17, <2>2
  <2>4. EndOf(end, Len(dataBuffer))' = EndOf(end, old + n)'
    BY <1>12 DEF EndOf
  <2> QED BY <1>9, <2>1, <2>3, <2>4 DEF IndexKept
<1>23. DataLoaded(end)'
  BY <1>1 DEF DataLoaded, Loading
<1> QED BY <1>13, <1>18, <1>19, <1>22, <1>23 DEF LaidOut

\* The loader puts an element where its place is.
LEMMA LayoutOfElement ==
  ASSUME CodeInv, LoadElement, errors = {}, LaidOut
  PROVE  LaidOut'
<1> SUFFICES ASSUME Filled(DataDone)' PROVE LaidOut'
  BY DEF LaidOut
<1>0. PICK k, element : k = at /\ element = dataBuffer[at]
  OBVIOUS
<1>1. /\ phase = "loading" /\ phase' = phase /\ k \in 1..Len(dataBuffer) /\ at' = k + 1
      /\ UNCHANGED <<source, symbols, dataBuffer, errors>> /\ k \in Nat \ {0}
      /\ DataDone' = DataDone /\ DataDone \in Nat /\ Len(dataBuffer) \in Nat
  BY <1>0 DEF LoadElement, texts, parserVars, CodeInv, TypeInv, TextsTyped, ParserTyped, DataDone
<1>2. Filled(DataDone)
  BY <1>1, FilledBefore DEF CodeInv
<1>3. PICK pos \in [1..Len(dataBuffer) -> Nat] :
        Places(pos) /\ IndexKept(pos) /\ LabelsPlaced(pos) /\ DataLoaded(pos)
  BY <1>2 DEF LaidOut
<1>4. Places(pos)' /\ LabelsPlaced(pos)' /\ IndexKept(pos)'
  <2>1. ~JustLabelled
    BY <1>1 DEF JustLabelled
  <2> QED BY <1>1, <1>3, <2>1, LayoutStays
<1>5. /\ dataCounter = EndOf(pos, k - 1) /\ ElementsLoaded = k - 1
      /\ DOMAIN memory.data = {DataStart + pos[j] : j \in 1..k - 1}
      /\ \A j \in 1..k - 1 :
           pos[j] < dataCounter /\ memory.data[DataStart + pos[j]] = dataBuffer[j]
  BY <1>0, <1>1, <1>3 DEF DataLoaded, ElementsLoaded, Loading
<1>6. /\ element.width \in Widths /\ element.width \in Nat \ {0} /\ dataCounter \in Nat
      /\ \A j \in 1..k : pos[j] \in Nat
  BY <1>0, <1>1, <1>3, ElementTyped DEF CodeInv, TypeInv, ResultsTyped
<1>7. Align(dataCounter, element.width) = pos[k] /\ dataCounter <= pos[k]
  <2>1. Align(dataCounter, element.width) = pos[k]
    BY <1>0, <1>1, <1>3, <1>5 DEF Places
  <2> QED BY <1>6, <2>1, AlignGrows
<1> DEFINE place == DataStart + pos[k]
           data == [address \in DOMAIN memory.data \cup {place} |->
                      IF address = place THEN element ELSE memory.data[address]]
<1>8. dataCounter' = pos[k] + element.width /\ memory' = [memory EXCEPT !.data = data]
  BY <1>0, <1>7 DEF LoadElement
<1>9. memory'.data = data
  <2> HIDE DEF data
  <2>1. memory = [text |-> memory.text, data |-> memory.data]
    BY DEF CodeInv, TypeInv, ResultsTyped
  <2> QED BY <1>8, <2>1
<1>10. ElementsLoaded' = k
  BY <1>1 DEF ElementsLoaded
<1>11. \A j \in 1..k : j \in 1..k - 1 \/ j = k
  BY <1>1
<1>12. DOMAIN data = {DataStart + pos[j] : j \in 1..k}
  <2>1. DOMAIN data = {DataStart + pos[j] : j \in 1..k - 1} \cup {DataStart + pos[k]}
    BY <1>5
  <2>2. k \in 1..k /\ \A j \in 1..k - 1 : j \in 1..k
    BY <1>1
  <2> HIDE DEF data
  <2> QED BY <1>11, <2>1, <2>2
<1>13. \A j \in 1..k : pos[j] < dataCounter' /\ data[DataStart + pos[j]] = dataBuffer[j]
  <2> TAKE j \in 1..k
  <2>1. CASE j = k
    BY <1>0, <1>1, <1>6, <1>8, <2>1
  <2>2. CASE j # k
    <3>1. j \in 1..k - 1
      BY <1>11, <2>2
    <3>2. pos[j] < dataCounter /\ pos[j] \in Nat /\ pos[k] \in Nat
      BY <1>1, <1>5, <1>6, <3>1
    <3>3. DataStart + pos[j] # place /\ pos[j] < dataCounter'
      BY SMTT(30), <1>6, <1>7, <1>8, <3>2, NumbersAssumption
    <3>4. DataStart + pos[j] \in DOMAIN memory.data
      BY <1>5, <3>1
    <3>5. data[DataStart + pos[j]] = memory.data[DataStart + pos[j]]
      BY <3>3, <3>4
    <3> QED BY <1>5, <3>1, <3>3, <3>5
  <2> QED BY <2>1, <2>2
<1>14. DataLoaded(pos)'
  <2> HIDE DEF data
  <2>1. EndOf(pos, k)' = pos[k] + element.width
    BY <1>0, <1>1 DEF EndOf
  <2>2. EndOf(pos, ElementsLoaded)' = pos[k] + element.width
    BY <1>10, <2>1 DEF EndOf
  <2> QED BY <1>1, <1>8, <1>9, <1>10, <1>12, <1>13, <2>2 DEF DataLoaded
<1>15. pos \in [1..Len(dataBuffer') -> Nat]
  BY <1>1
<1> QED BY <1>4, <1>14, <1>15 DEF LaidOut

\* Every other step after the first pass.
LEMMA LayoutOfOther ==
  ASSUME CodeInv, UNCHANGED <<source, dataBuffer>>, DataDone' = DataDone, DataDone \in Nat,
         ~JustLabelled, phase' # "first", errors = {}, LaidOut,
         \A d \in LabelsIn("data") : IsLast(d, DataDone) =>
           symbols'[source[d].label] = symbols[source[d].label],
         phase' \in Loading =>
           \/ phase \in Loading /\ ElementsLoaded' = ElementsLoaded /\ dataCounter' = dataCounter
              /\ memory'.data = memory.data
           \/ ElementsLoaded' = 0 /\ dataCounter' = 0 /\ memory'.data = <<>>
  PROVE  LaidOut'
<1> SUFFICES ASSUME Filled(DataDone)' PROVE LaidOut'
  BY DEF LaidOut
<1>1. Filled(DataDone)
  BY FilledBefore DEF CodeInv
<1>2. PICK pos \in [1..Len(dataBuffer) -> Nat] :
        Places(pos) /\ IndexKept(pos) /\ LabelsPlaced(pos) /\ DataLoaded(pos)
  BY <1>1 DEF LaidOut
<1>3. Places(pos)' /\ LabelsPlaced(pos)' /\ IndexKept(pos)'
  BY <1>2, LayoutStays
<1>4. DataLoaded(pos)'
  <2>1. CASE phase' \notin Loading
    BY <2>1 DEF DataLoaded
  <2>2. CASE /\ phase \in Loading /\ ElementsLoaded' = ElementsLoaded /\ dataCounter' = dataCounter
             /\ memory'.data = memory.data
    <3>1. EndOf(pos, ElementsLoaded)' = EndOf(pos, ElementsLoaded)
      BY <2>2 DEF EndOf
    <3> QED BY <1>2, <2>2, <3>1 DEF DataLoaded
  <2>3. CASE ElementsLoaded' = 0 /\ dataCounter' = 0 /\ memory'.data = <<>>
    <3>1. EndOf(pos, ElementsLoaded)' = 0
      BY <2>3 DEF EndOf
    <3>2. DOMAIN <<>> = {} /\ {DataStart + pos[j] : j \in 1..0} = {}
      OBVIOUS
    <3> QED BY <2>3, <3>1, <3>2 DEF DataLoaded
  <2> QED BY <2>1, <2>2, <2>3
<1> QED BY <1>3, <1>4 DEF LaidOut

\* Every step leaves the layout right.
LEMMA LaidOutKept == CodeInv /\ CodeInv' /\ LaidOut /\ [Next]_vars => LaidOut'
<1> SUFFICES ASSUME CodeInv, CodeInv', LaidOut, [Next]_vars, errors' = {} PROVE LaidOut'
  BY DEF LaidOut
<1>1. errors = {}
  BY ErrorsGrow DEF CodeInv
<1>2. TypeInv /\ Bounded /\ DataDone \in Nat /\ at \in Nat \ {0} /\ Len(source) \in Nat
  BY Progress, LinesTyped DEF CodeInv
<1>3. AtStart' => LaidOut'
  <2>1. (TypeInv /\ AtStart => LaidOut)'
    BY LaidOutAtStart, PTL
  <2> QED BY <2>1 DEF CodeInv
<1>4. CASE ExpandLine
  <2>1. AtStart'
    BY <1>4 DEF ExpandLine, AtStart, DataDone, CodeInv, Untouched, parserVars
  <2> QED BY <1>3, <2>1
<1>5. CASE EndExpansion
  <2>1. AtStart'
    BY <1>5 DEF EndExpansion, AtStart, DataDone, CodeInv, Untouched, parserVars
  <2> QED BY <1>3, <2>1
<1>6. CASE OverLine /\ phase = "first"
  <2>1. /\ phase' = "first" /\ at' = at + 1 /\ DataDone' = at + 1 /\ source' = source
    BY <1>2, <1>6, Progress DEF OverLine, texts
  <2>2. CASE FirstSkips
    <3>1. at \notin LinesIn("data") /\ at \notin LabelsIn("data") /\ UNCHANGED <<symbols, dataIndex, dataBuffer>>
      BY <2>2 DEF FirstSkips, LabelsIn
    <3>2. ~JustLabelled
      BY <1>1, <1>6, <3>1, AfterLabel DEF JustLabelled
    <3> QED BY <1>1, <1>6, <2>1, <3>1, <3>2, LayoutOfSkip
  <2>3. CASE DataLabel /\ at \in LabelsIn("data")
    BY <1>1, <1>6, <2>3, LayoutOfLabel
  <2>4. CASE DataDirective /\ at \in LinesIn("data") /\ source[at].op \in Directives
    <3>1. CASE source[at].count # 0
      BY <1>1, <1>6, <2>4, <3>1, LayoutOfDirective
    <3>2. CASE source[at].count = 0
      <4>1. dataBuffer' = dataBuffer
        <5>1. dataBuffer \in Seq(Elements)
          BY DEF CodeInv, TypeInv, ParserTyped
        <5>2. PICK f : f = [n \in 1..0 |-> [line |-> at, nth |-> n, width |-> source[at].width]]
          OBVIOUS
        <5>3. f = <<>>
          BY <5>2
        <5>4. dataBuffer' = dataBuffer \o f
          BY <2>4, <3>2, <5>2 DEF DataDirective, Line
        <5> QED BY <5>1, <5>3, <5>4
      <4>2. symbols' = symbols /\ dataIndex' = dataIndex /\ at \notin LabelsIn("data")
        BY <2>4, <3>2 DEF DataDirective, Line, LabelsIn, Directives
      <4>3. CASE JustLabelled
        <5>1. SUFFICES ASSUME Filled(DataDone)' PROVE FALSE
          BY DEF LaidOut
        <5>2. at - 1 \in LabelsIn("data")' /\ at - 1 < DataDone' /\ (at - 1) + 1 = at
          BY <1>2, <2>1, <4>3, TextStays DEF JustLabelled
        <5>3. source[(at - 1) + 1].count > 0
          BY <2>1, <5>1, <5>2 DEF Filled
        <5> QED BY <3>2, <5>2, <5>3
      <4>4. CASE ~JustLabelled
        BY <1>1, <1>6, <2>1, <4>1, <4>2, <4>4, LayoutOfSkip
      <4> QED BY <4>3, <4>4
    <3> QED BY <3>1, <3>2
  <2>5. ~InvalidDirective
    BY DEF InvalidDirective
  <2> QED BY <1>6, <2>2, <2>3, <2>4, <2>5, FirstSteps DEF CodeInv
<1>7. CASE EndFirstPass
  <2>1. DataDone' = DataDone /\ phase' = "second" /\ UNCHANGED <<source, symbols, dataBuffer>>
    BY <1>2, <1>7, Progress DEF EndFirstPass, texts
  <2>2. ~JustLabelled
    <3>1. SUFFICES ASSUME JustLabelled PROVE FALSE
      OBVIOUS
    <3>2. at \in 1..Len(source)
      BY <1>1, <3>1, AfterLabel DEF JustLabelled
    <3> QED BY <1>2, <1>7, <3>2 DEF EndFirstPass
  <2>3. phase' \notin Loading
    BY <2>1 DEF Loading
  <2> QED BY <1>1, <1>2, <2>1, <2>2, <2>3, LayoutOfOther
<1>8. CASE OverLine /\ phase = "second"
  <2>1. DataDone' = DataDone /\ phase' = "second" /\ UNCHANGED <<source, dataBuffer>>
    BY <1>2, <1>8, Progress DEF OverLine, texts
  <2>2. \A d \in LabelsIn("data") : IsLast(d, DataDone) =>
           symbols'[source[d].label] = symbols[source[d].label]
    BY <1>8, TableOnlyGrows DEF IsLast, CodeInv, TableKept, TableGrows
  <2>3. phase' \notin Loading /\ ~JustLabelled
    BY <1>8, <2>1 DEF Loading, JustLabelled
  <2> QED BY <1>1, <1>2, <2>1, <2>2, <2>3, LayoutOfOther
<1>9. CASE LoadElement
  BY <1>1, <1>9, LayoutOfElement
<1>10. CASE Later /\ ~LoadElement
  <2>1. /\ DataDone' = DataDone /\ phase # "first" /\ phase' # "first"
        /\ UNCHANGED <<source, symbols, dataBuffer>>
    BY <1>2, <1>10, Progress DEF texts
  <2>2. ~JustLabelled
    BY <2>1 DEF JustLabelled
  <2>3. phase' \in Loading =>
           \/ phase \in Loading /\ ElementsLoaded' = ElementsLoaded /\ dataCounter' = dataCounter
              /\ memory'.data = memory.data
           \/ ElementsLoaded' = 0 /\ dataCounter' = 0 /\ memory'.data = <<>>
    <3>1. CASE LoadText
      <4>1. memory = [text |-> memory.text, data |-> memory.data]
        BY DEF CodeInv, TypeInv, ResultsTyped
      <4>2. PICK t : memory' = [memory EXCEPT !.text = t]
        BY <3>1 DEF LoadText
      <4>3. memory'.data = memory.data
        BY <4>1, <4>2
      <4>4. memory.data = <<>> /\ dataCounter = 0
        BY <3>1 DEF LoadText, CodeInv, Untouched, Loading
      <4> QED BY <3>1, <4>3, <4>4 DEF LoadText, ElementsLoaded
    <3>2. CASE EndLoad
      <4>1. at = Len(dataBuffer) + 1 /\ Len(dataBuffer) \in Nat
        BY <1>2, <3>2 DEF EndLoad, CodeInv, Bounded, TypeInv, ParserTyped
      <4> QED BY <3>2, <4>1 DEF EndLoad, Loading, ElementsLoaded, results, parserVars
    <3>3. ASSUME NEW line \in DOMAIN editor, SetBreakpoints({line})
          PROVE  phase \in Loading /\ ElementsLoaded' = ElementsLoaded /\ dataCounter' = dataCounter
                 /\ memory'.data = memory.data
      BY <3>3 DEF SetBreakpoints, Loading, ElementsLoaded, parserVars
    <3>4. CASE BackPatch \/ Generate \/ MapLines \/ EndMapping
      BY <3>4 DEF BackPatch, Generate, MapLines, EndMapping, Loading
    <3> QED BY <1>10, <3>1, <3>2, <3>3, <3>4 DEF Later
  <2> QED BY <1>1, <1>2, <2>1, <2>2, <2>3, LayoutOfOther
<1>11. CASE EndSecondPass
  <2>1. DataDone' = DataDone /\ phase = "second" /\ phase' = "patch"
        /\ UNCHANGED <<source, symbols, dataBuffer>>
    BY <1>2, <1>11, Progress DEF EndSecondPass, texts, parserVars
  <2>2. phase' \notin Loading /\ ~JustLabelled
    BY <2>1 DEF Loading, JustLabelled
  <2> QED BY <1>1, <1>2, <2>1, <2>2, LayoutOfOther
<1>12. CASE UNCHANGED vars
  <2>1. UNCHANGED <<source, phase, at, symbols, dataIndex, dataBuffer, errors, memory, dataCounter>>
    BY <1>12 DEF vars, texts, parserVars, results
  <2>2. DataDone' = DataDone
    BY <2>1 DEF DataDone
  <2>3. SUFFICES ASSUME Filled(DataDone)' PROVE LaidOut'
    BY DEF LaidOut
  <2>4. Filled(DataDone)
    BY <1>2, <2>1, <2>2, <2>3, FilledBefore
  <2>5. PICK pos \in [1..Len(dataBuffer) -> Nat] :
        Places(pos) /\ IndexKept(pos) /\ LabelsPlaced(pos) /\ DataLoaded(pos)
    BY <1>1, <2>4 DEF LaidOut
  <2>6. LabelsIn("data")' = LabelsIn("data") /\ \A d, n : IsLast(d, n)' <=> IsLast(d, n)
    BY <2>1, TextStays, LastStays
  <2>7. Places(pos)' /\ \A k : EndOf(pos, k)' = EndOf(pos, k)
    BY <2>1, <2>5 DEF Places, EndOf
  <2>8. LabelsPlaced(pos)'
    BY <2>1, <2>2, <2>5, <2>6 DEF LabelsPlaced, JustLabelled
  <2>9. DataLoaded(pos)'
    BY <2>1, <2>5 DEF DataLoaded, EndOf, ElementsLoaded
  <2>10. IndexKept(pos)'
    BY <2>1, <2>5, <2>6 DEF IndexKept, EndOf, JustLabelled, Align
  <2> QED BY <2>1, <2>5, <2>7, <2>8, <2>9, <2>10 DEF LaidOut
<1> QED BY <1>4, <1>5, <1>6, <1>7, <1>8, <1>9, <1>10, <1>11, <1>12, Steps DEF OverLine

\* What auipc and addi add up to.
Splits(offset, hi, lo) ==
  /\ hi = Upper(offset) /\ lo = offset - Upper(offset) * 4096
  /\ -2048 <= lo /\ lo <= 2047 /\ hi * 4096 + lo = offset

\* An offset is an upper part, times 4096, and a lower one.
LEMMA Split ==
  ASSUME NEW offset \in Int
  PROVE  \E hi \in Int, lo \in Int : Splits(offset, hi, lo)
<1> DEFINE hi == Upper(offset)
           lo == offset - hi * 4096
<1>1. hi \in Int /\ lo \in Int
  BY DEF Upper
<1>2. -2048 <= lo /\ lo <= 2047
  BY DEF Upper
<1>3. hi * 4096 + lo = offset
  BY <1>1
<1> HIDE DEF lo, hi
<1> QED BY <1>1, <1>2, <1>3 DEF lo, hi, Splits

\* In a loaded program, la builds the address of the labelled element.
LEMMA LabelsName == CodeInv /\ TextLoaded /\ LaidOut => DataLabelsNameTheirData
<1> SUFFICES ASSUME CodeInv, TextLoaded, LaidOut, phase = "loaded", LabelsHaveData,
                    NEW i \in Instructions, source[i].op = "address"
             PROVE  LET pc == StartOf(i)
                        upper == OneOf(memory.text[pc].imms)
                        lower == OneOf(memory.text[pc + 4].imms)
                        named == pc + upper * 4096 + lower
                    IN /\ -2048 <= lower /\ lower <= 2047
                       /\ named \in DOMAIN memory.data
                       /\ memory.data[named].nth = 1
                       /\ memory.data[named].line = LastOf(Definitions("data", source[i].label)) + 1
  BY DEF DataLabelsNameTheirData
<1> DEFINE label == source[i].label
           offset == FromPc(label, IndexOf(i))
           upper == OneOf(memory.text[StartOf(i)].imms)
           lower == OneOf(memory.text[StartOf(i) + 4].imms)
           named == StartOf(i) + upper * 4096 + lower
<1>1. phase \in Loading
  BY DEF Loading
<1>2. /\ Emitted(i) /\ IndexOf(i) \in Nat /\ StartOf(i) = 4 * IndexOf(i)
      /\ memory.text[StartOf(i)] = code[IndexOf(i) + 1]
      /\ memory.text[StartOf(i) + 4] = code[IndexOf(i) + 2]
  <2>1. SizeOf(i) = 2
    BY SizesOfInstructions, LinesTyped DEF CodeInv
  <2> QED BY <1>1, <2>1, LoadedUnits, StartIsIndex
<1>3. /\ label \in DOMAIN symbols /\ symbols[label].isData
      /\ memory.text[StartOf(i)].imms = {Upper(offset)}
      /\ memory.text[StartOf(i) + 4].imms = {offset - Upper(offset) * 4096}
  BY <1>2 DEF Emitted
<1>5. symbols[label].address \in Nat
  <2>1. symbols[label] \in Symbols
    BY <1>3 DEF CodeInv, TypeInv, ParserTyped
  <2> QED BY <2>1 DEF Symbols
<1>6. /\ offset = DataStart + symbols[label].address - StartOf(i)
      /\ offset \in Int /\ StartOf(i) \in Nat
  BY <1>2, <1>5, NumbersAssumption DEF FromPc
<1> HIDE DEF offset
<1>7. PICK hi \in Int, lo \in Int : Splits(offset, hi, lo)
  <2>1. offset \in Int
    BY <1>6
  <2> QED BY <2>1, Split
<1>4. upper = hi /\ lower = lo
  <2>1. \A n : OneOf({n}) = n
    BY DEF OneOf
  <2>2. memory.text[StartOf(i)].imms = {hi} /\ memory.text[StartOf(i) + 4].imms = {lo}
    BY <1>3, <1>7 DEF Splits
  <2> QED BY <2>1, <2>2
<1> HIDE DEF offset, upper, lower, label
<1>16. -2048 <= lower /\ lower <= 2047 /\ named = DataStart + symbols[label].address
  BY <1>4, <1>5, <1>6, <1>7, NumbersAssumption DEF Splits
<1>8. PICK d \in LabelsIn("data") : IsLast(d, DataDone) /\ source[d].label = label
  BY <1>3 DEF CodeInv, TableKept
<1>9. /\ errors = {} /\ DataDone = Len(source) + 1 /\ Len(source) \in Nat
      /\ \A e \in LabelsIn("data") : e \in 1..Len(source) /\ e < DataDone
  <2>1. errors = {} /\ DataDone = Len(source) + 1
    BY <1>1, LoadedProgram
  <2> QED BY <2>1, LinesTyped DEF CodeInv
<1>10. Filled(DataDone)
  BY DEF LabelsHaveData, Filled, LabelsIn
<1>11. PICK pos \in [1..Len(dataBuffer) -> Nat] :
        Places(pos) /\ IndexKept(pos) /\ LabelsPlaced(pos) /\ DataLoaded(pos)
  BY <1>9, <1>10 DEF LaidOut
<1>12. PICK j \in 1..Len(dataBuffer) :
             /\ dataBuffer[j].line = d + 1 /\ dataBuffer[j].nth = 1
             /\ symbols[label].address = pos[j]
  BY <1>8, <1>11 DEF LabelsPlaced, JustLabelled
<1>13. /\ DataStart + pos[j] \in DOMAIN memory.data
       /\ memory.data[DataStart + pos[j]] = dataBuffer[j]
  BY <1>1, <1>11, <1>12 DEF DataLoaded, ElementsLoaded
<1>14. LastOf(Definitions("data", label)) = d
  <2>1. Definitions("data", label) = {e \in LabelsIn("data") : source[e].label = label}
    BY DEF Definitions, LabelsIn
  <2>2. \A e \in Definitions("data", label) : e <= d /\ e \in Nat
    BY <1>8, <1>9, <2>1 DEF IsLast
  <2>3. d \in Definitions("data", label)
    BY <1>8, <2>1
  <2>4. \A e \in Definitions("data", label) :
          (\A f \in Definitions("data", label) : f <= e) => e = d
    BY <2>2, <2>3
  <2> HIDE DEF label
  <2> QED BY <2>2, <2>3, <2>4 DEF LastOf
<1> HIDE DEF named
<1>15. /\ -2048 <= lower /\ lower <= 2047
       /\ named \in DOMAIN memory.data
       /\ memory.data[named].nth = 1
       /\ memory.data[named].line = LastOf(Definitions("data", label)) + 1
  BY <1>12, <1>13, <1>14, <1>16
<1> QED BY <1>15 DEF label, upper, lower, named

\* The address that la builds for a data label is where the loader put the first element
\* of the directive after the last definition of the label, in every program in which no
\* label stands before a directive without elements.
THEOREM DataLabelsNameTheirDataHolds == Spec => []DataLabelsNameTheirData
<1>1. Init => LaidOut
  <2>1. Init => AtStart
    BY DEF Init, AtStart, DataDone
  <2> QED BY <2>1, TypesInitially, LaidOutAtStart
<1>2. CodeInv => TypeInv
  BY DEF CodeInv
<1> QED BY <1>1, <1>2, CodeInvInitially, CodeInvKept, LaidOutKept, TextLoadedInitially,
           TextLoadedKept, LabelsName, PTL DEF Spec

-----------------------------------------------------------------------------
(* Errors. *)

\* A text without ill-formed lines gives no reason for an error.
LEMMA WellFormedSound == WellFormed => SoundSource
<1> SUFFICES ASSUME WellFormed PROVE SoundSource
  OBVIOUS
<1>1. \A i \in LinesIn("data") : GoodData(i)
  BY DEF WellFormed, GoodData
<1>2. /\ \A i \in LinesIn("text") : source[i].op \in InstructionOps \cup {"label"}
      /\ \A label \in TextLabels :
           label \notin DataLabels /\ Cardinality(Definitions("text", label)) = 1
  BY DEF WellFormed
<1>3. ASSUME NEW i \in Instructions PROVE RefersWell(i)
  <2>1. CASE source[i].op = "branch"
    BY <2>1 DEF WellFormed, RefersWell
  <2>2. CASE source[i].op = "jump"
    BY <2>2 DEF WellFormed, RefersWell
  <2>3. CASE source[i].op = "address"
    BY <2>3 DEF WellFormed, RefersWell
  <2> QED BY <2>1, <2>2, <2>3 DEF RefersWell
<1> QED BY <1>1, <1>2, <1>3 DEF SoundSource

\* Whether there is a reason depends on the text and the table alone.
LEMMA WellFormedStays ==
  ASSUME source' = source, symbols' = symbols
  PROVE  WellFormed' = WellFormed
BY TextStays DEF WellFormed, Reaches

\* Nothing was refused of a program that both passes and the back-patching went through
\* without an error.
LEMMA CleanIsWellFormed ==
  ASSUME CodeInv, Through, Patched = Len(backPatch) + 1
  PROVE  WellFormed
<1>1. /\ DataSound /\ TextSound /\ LabelsOnce /\ CodeSound /\ TableKept
      /\ TextDone = Len(source) + 1 /\ DataDone = Len(source) + 1 /\ Len(source) \in Nat
      /\ \A s : LinesIn(s) \subseteq 1..Len(source) /\ LabelsIn(s) \subseteq LinesIn(s)
      /\ Instructions \subseteq LinesIn("text") /\ source \in Seq(Lines)
  BY ThroughClean, LinesTyped DEF CodeInv
<1>2. \A i \in 1..Len(source) : i < TextDone /\ i < DataDone
  BY <1>1
<1>3. \A i \in LinesIn("data") : GoodData(i)
  BY <1>1, <1>2 DEF DataSound
<1>4. \A i \in LinesIn("text") : source[i].op \in InstructionOps \cup {"label"}
  BY <1>1, <1>2 DEF TextSound
<1>5. \A label \in DataLabels : label \in DOMAIN symbols /\ symbols[label].isData
  BY <1>1, <1>2 DEF DataLabels, LabelsIn, TableKept
<1>6. \A label \in TextLabels :
        label \notin DataLabels /\ Cardinality(Definitions("text", label)) = 1
  BY <1>5, OneDefinition, FS_Singleton
<1>7. ASSUME NEW i \in Instructions, source[i].op \in {"branch", "jump"}
      PROVE  LET label == source[i].label IN
             /\ label \in DOMAIN symbols
             /\ source[i].op = "branch" => ~symbols[label].isData
             /\ Reaches(source[i].op, symbols[label].address - StartOf(i))
             /\ symbols[label].isData => label \in DataLabels
             /\ ~symbols[label].isData =>
                  /\ label \in TextLabels
                  /\ symbols[label].address = StartOf(LastOf(Definitions("text", label)))
  <2> DEFINE label == source[i].label
  <2>1. Emitted(i)
    BY <1>1, <1>2 DEF CodeSound
  <2>2. ~Pending(i)
    <3>1. Len(backPatch) \in Nat
      BY DEF CodeInv, TypeInv, ParserTyped
    <3> QED BY <3>1 DEF Pending
  <2>3. Resolved(i)
    BY <1>7, <2>1, <2>2 DEF Emitted
  <2>4. StartOf(i) = IndexOf(i) * 4
    BY <1>1, InstructionIndices, StartIsIndex
  <2>5. MayName(source[i].op, label) /\ Reaches(source[i].op, symbols[label].address - StartOf(i))
    BY <2>3, <2>4 DEF Resolved, Offset
  <2>6. symbols[label].isData => label \in DataLabels
    BY <1>1, <2>5 DEF MayName, TableKept, DataLabels, LabelsIn
  <2>7. ~symbols[label].isData => label \in TextLabels
    BY <1>1, <2>5 DEF MayName, TableKept, TextLabels, LabelsIn
  <2> HIDE DEF label
  <2>8. ~symbols[label].isData => symbols[label].address = StartOf(LastOf(Definitions("text", label)))
    BY <2>7, OneDefinition
  <2> QED BY <2>5, <2>6, <2>7, <2>8 DEF MayName, label
<1>8. ASSUME NEW i \in Instructions, source[i].op = "address" PROVE source[i].label \in DataLabels
  <2>1. Emitted(i)
    BY <1>1, <1>2 DEF CodeSound
  <2>2. source[i].label \in DOMAIN symbols /\ symbols[source[i].label].isData
    BY <1>8, <2>1 DEF Emitted
  <2> QED BY <1>1, <2>2 DEF TableKept, DataLabels, LabelsIn
<1>9. ASSUME NEW i \in Instructions
      PROVE  LET label == source[i].label IN
      CASE source[i].op = "branch" ->
              /\ label \in TextLabels
              /\ Reaches("branch", StartOf(LastOf(Definitions("text", label))) - StartOf(i))
         [] source[i].op = "jump" ->
              \/ /\ label \in TextLabels
                 /\ Reaches("jump", StartOf(LastOf(Definitions("text", label))) - StartOf(i))
              \/ /\ label \in DataLabels
                 /\ Reaches("jump", symbols[label].address - StartOf(i))
         [] source[i].op = "address" -> label \in DataLabels
         [] OTHER -> TRUE
  <2>1. CASE source[i].op = "branch"
    BY <1>7, <2>1
  <2>2. CASE source[i].op = "jump"
    BY <1>7, <2>2
  <2>3. CASE source[i].op = "address"
    BY <1>8, <2>3
  <2> QED BY <2>1, <2>2, <2>3
<1> QED BY <1>3, <1>4, <1>6, <1>9 DEF WellFormed, GoodData

\* The one definition of a label is the last.
LEMMA OnlyDefinition ==
  ASSUME source \in Seq(Lines), NEW label, Cardinality(Definitions("text", label)) = 1,
         NEW d \in Definitions("text", label)
  PROVE  Definitions("text", label) = {d} /\ LastOf(Definitions("text", label)) = d
<1>1. Definitions("text", label) \subseteq 1..Len(source) /\ Len(source) \in Nat
  BY DEF Definitions, LinesIn
<1>2. IsFiniteSet(Definitions("text", label))
  <2>1. 1 \in Int /\ Len(source) \in Int
    BY <1>1
  <2>2. IsFiniteSet(1..Len(source))
    BY <2>1, FS_Interval
  <2> QED BY <1>1, <2>2, FS_Subset
<1>3. Definitions("text", label) = {d}
  BY <1>2, FS_Singleton
<1>4. LastOf({d}) = d
  BY <1>1 DEF LastOf
<1> QED BY <1>3, <1>4

\* Every error of the two passes has its reason in the text.
LEMMA FirstPassBlames ==
  ASSUME CodeInv, [Next]_vars, OverLine, phase = "first", errors = {}, errors' # {}
  PROVE  ~SoundSource
<1>1. at \in LinesIn("data") /\ ~GoodData(at)
  <2>1. at \in Nat \ {0}
    BY LinesTyped DEF CodeInv
  <2>2. CASE DataLabel /\ at \in LabelsIn("data")
    BY <2>1, <2>2 DEF DataLabel, FollowedByDirective, GoodData, LabelsIn
  <2>3. CASE InvalidDirective /\ at \in LinesIn("data") /\ source[at].op \notin Directives \cup {"label"}
    BY <2>3 DEF GoodData, Directives
  <2>4. CASE DataDirective /\ at \in LinesIn("data")
    BY <2>4 DEF DataDirective, Line, GoodData
  <2> QED BY <2>2, <2>3, <2>4, FirstSteps DEF FirstSkips, CodeInv
<1> QED BY <1>1 DEF SoundSource

\* The second pass refuses only what gives a reason.
LEMMA SecondPassBlames ==
  ASSUME CodeInv, [Next]_vars, OverLine, phase = "second", errors = {}, errors' # {}
  PROVE  ~SoundSource
<1> SUFFICES ASSUME SoundSource PROVE FALSE
  OBVIOUS
<1> DEFINE label == source[at].label
<1>1. /\ LabelsOnce /\ CodeSound /\ TableKept /\ TextDone = at
      /\ DataDone = Len(source) + 1 /\ Len(source) \in Nat /\ source \in Seq(Lines) /\ at \in Nat
      /\ \A s : LabelsIn(s) \subseteq 1..Len(source)
  BY LinesTyped DEF CodeInv, Clean, TextDone, DataDone

<1>2. \A l \in DataLabels : l \in DOMAIN symbols /\ symbols[l].isData
  BY <1>1 DEF DataLabels, LabelsIn, TableKept
<1>3. \A l \in TextLabels : l \notin DataLabels /\ Cardinality(Definitions("text", l)) = 1
  BY DEF SoundSource
<1>4. \A l \in DOMAIN symbols : symbols[l].isData => l \in DataLabels
  BY <1>1 DEF TableKept, DataLabels, LabelsIn
<1>5. ASSUME TextLabel, at \in LabelsIn("text") PROVE FALSE
  <2>1. label \in TextLabels /\ at \in Definitions("text", label)
    BY <1>5 DEF TextLabels, LabelsIn, Definitions
  <2>2. label \in DOMAIN symbols
    BY <1>5 DEF TextLabel, Line
  <2>3. ~symbols[label].isData
    BY <1>3, <1>4, <2>1, <2>2
  <2>4. PICK d \in LabelsIn("text") : d < at /\ source[d].label = label
    BY <1>1, <2>2, <2>3 DEF TableKept
  <2>5. d \in Definitions("text", label)
    BY <2>4 DEF LabelsIn, Definitions
  <2>6. Definitions("text", label) = {d} /\ Definitions("text", label) = {at}
    <3> HIDE DEF label
    <3> QED BY <1>1, <1>3, <2>1, <2>5, OnlyDefinition
  <2>7. d = at
    BY <2>6
  <2> QED BY <1>1, <2>4, <2>7
<1>6. ASSUME LabelledInstruction, at \in Instructions, source[at].op \in {"branch", "jump"}
      PROVE  FALSE
  <2>1. IsTextLabel(label) /\ ~Reaches(source[at].op, Offset(label, Len(code)))
    BY <1>6, LabelledEmits DEF CodeInv
  <2>2. PICK d \in LabelsIn("text") : d < at /\ source[d].label = label
    BY <1>1, <2>1 DEF TableKept, IsTextLabel
  <2>3. symbols[label] = [address |-> StartOf(d), isData |-> FALSE]
    BY <1>1, <2>2 DEF LabelsOnce
  <2>4. symbols[label].address = StartOf(d)
    BY <2>3
  <2>5. label \in TextLabels /\ d \in Definitions("text", label)
    BY <2>2 DEF TextLabels, LabelsIn, Definitions
  <2>6. label \notin DataLabels /\ LastOf(Definitions("text", label)) = d
    <3> HIDE DEF label
    <3> QED BY <1>1, <1>3, <2>5, OnlyDefinition
  <2>7. StartOf(at) = Len(code) * 4
    <3>1. IndexOf(at) = Len(code) /\ IndexOf(at) \in Nat
      BY <1>1, AboveFinite DEF CodeSound
    <3> QED BY <3>1, StartIsIndex
  <2>8. RefersWell(at)
    BY <1>6 DEF SoundSource
  <2>9. Reaches(source[at].op, StartOf(d) - StartOf(at))
    BY <1>6, <2>6, <2>8 DEF RefersWell
  <2> QED BY <2>1, <2>4, <2>7, <2>9 DEF Offset
<1>7. ASSUME AddressInstruction, at \in Instructions, source[at].op = "address" PROVE FALSE
  <2>1. ~(label \in DOMAIN symbols /\ symbols[label].isData)
    BY <1>7, AddressEmits DEF CodeInv
  <2>2. RefersWell(at)
    BY <1>7 DEF SoundSource
  <2>3. label \in DataLabels
    BY <1>7, <2>2 DEF RefersWell
  <2> QED BY <1>2, <2>1, <2>3
<1>8. ASSUME at \in LinesIn("text"), source[at].op \notin InstructionOps \cup {"label"} PROVE FALSE
  BY <1>8 DEF SoundSource
<1>9. ~SecondSkips /\ ~UnlabelledInstruction
  BY UnlabelledEmits DEF SecondSkips, CodeInv
<1> QED BY <1>5, <1>6, <1>7, <1>8, <1>9, SecondSteps DEF CodeInv

\* The back-patching refuses only what is ill-formed.
LEMMA BackPatchBlames ==
  ASSUME CodeInv, BackPatch, errors = {}, errors' # {}
  PROVE  ~WellFormed
<1> SUFFICES ASSUME WellFormed PROVE FALSE
  OBVIOUS
<1>0. PICK index, unit : index = backPatch[at] /\ unit = code[index + 1]
  OBVIOUS
<1>1. /\ Through /\ CodeSound /\ TableKept /\ at \in 1..Len(backPatch)
      /\ DataDone = Len(source) + 1 /\ Len(source) \in Nat /\ source \in Seq(Lines)
      /\ \A s : LabelsIn(s) \subseteq 1..Len(source)
  <2>1. phase = "patch" /\ at \in 1..Len(backPatch)
    BY DEF BackPatch, CodeInv, TypeInv, ParserTyped
  <2>2. Through
    BY <2>1 DEF Through
  <2> QED BY <2>1, <2>2, ThroughClean, LinesTyped DEF CodeInv
<1>2. PICK i \in Instructions : /\ i < TextDone /\ index = IndexOf(i)
                                /\ source[i].op \in {"branch", "jump"}
  BY <1>0, <1>1 DEF CodeSound
<1> DEFINE label == source[i].label
<1>3. unit.label = label /\ unit.op = source[i].op
  BY <1>0, <1>1, <1>2 DEF CodeSound, Emitted
<1>4. StartOf(i) = index * 4
  BY <1>1, <1>2, InstructionIndices, StartIsIndex
<1>5. ~(MayName(source[i].op, label) /\ Reaches(source[i].op, symbols[label].address - StartOf(i)))
  BY <1>0, <1>3, <1>4 DEF BackPatch, Offset
<1>6. \A l \in DataLabels : l \in DOMAIN symbols /\ symbols[l].isData
  BY <1>1 DEF DataLabels, LabelsIn, TableKept
<1>7. source[i].op = "branch" =>
        /\ label \in TextLabels
        /\ Reaches("branch", StartOf(LastOf(Definitions("text", label))) - StartOf(i))
  BY DEF WellFormed
<1>8. source[i].op = "jump" =>
        \/ /\ label \in TextLabels
           /\ Reaches("jump", StartOf(LastOf(Definitions("text", label))) - StartOf(i))
        \/ /\ label \in DataLabels
           /\ Reaches("jump", symbols[label].address - StartOf(i))
  BY DEF WellFormed
<1> HIDE DEF label
<1>9. label \in TextLabels => /\ label \in DOMAIN symbols /\ ~symbols[label].isData
                              /\ symbols[label].address = StartOf(LastOf(Definitions("text", label)))
  BY <1>1, OneDefinition
<1>10. CASE source[i].op = "branch"
  BY <1>5, <1>7, <1>9, <1>10 DEF MayName
<1>11. CASE source[i].op = "jump"
  BY <1>5, <1>6, <1>8, <1>9, <1>11 DEF MayName
<1> QED BY <1>2, <1>10, <1>11

\* No step adds an error that has no reason.
LEMMA BlamedKept == CodeInv /\ Blamed /\ [Next]_vars => Blamed'
<1> SUFFICES ASSUME CodeInv, Blamed, [Next]_vars, errors' # {}
             PROVE  (IF phase \in {"first", "second"} THEN ~SoundSource ELSE ~WellFormed)'
  BY DEF Blamed
<1>1. CASE ExpandLine \/ EndExpansion
  BY <1>1 DEF ExpandLine, EndExpansion, CodeInv, Untouched
<1>2. CASE OverLine
  <2>1. source' = source /\ phase' = phase /\ phase \in {"first", "second"}
    BY <1>2 DEF OverLine, texts
  <2>2. ~SoundSource
    BY <1>2, <2>1, FirstPassBlames, SecondPassBlames DEF Blamed
  <2> QED BY <2>1, <2>2, TextStays
<1>3. CASE EndFirstPass
  <2>1. source' = source /\ phase = "first" /\ phase' = "second" /\ errors' = errors
    BY <1>3 DEF EndFirstPass, texts
  <2> QED BY <2>1, TextStays DEF Blamed
<1>4. CASE EndSecondPass
  <2>1. source' = source /\ phase = "second" /\ phase' = "patch" /\ errors' = errors
    BY <1>4 DEF EndSecondPass, texts
  <2>2. ~SoundSource'
    BY <2>1, TextStays DEF Blamed
  <2>3. WellFormed' => SoundSource'
    BY WellFormedSound, PTL
  <2> QED BY <2>1, <2>2, <2>3
<1>5. CASE Later
  <2>1. /\ UNCHANGED <<source, symbols>> /\ phase \notin {"first", "second"}
        /\ phase' \notin {"first", "second"}
    BY <1>5, Progress DEF texts, CodeInv
  <2>2. errors = {} => BackPatch
    <3>1. CASE Generate \/ MapLines \/ EndMapping \/ LoadText \/ LoadElement \/ EndLoad
      BY <3>1 DEF Generate, MapLines, EndMapping, LoadText, LoadElement, EndLoad
    <3>2. ASSUME NEW line \in DOMAIN editor, SetBreakpoints({line}) PROVE errors' = errors
      BY <3>2 DEF SetBreakpoints
    <3> QED BY <1>5, <3>1, <3>2 DEF Later
  <2>3. ~WellFormed
    BY <2>1, <2>2, BackPatchBlames DEF Blamed
  <2> QED BY <2>1, <2>3, WellFormedStays
<1>6. CASE UNCHANGED vars
  <2>1. UNCHANGED <<source, symbols, phase, errors>>
    BY <1>6 DEF vars, texts, parserVars
  <2> QED BY <2>1, TextStays, WellFormedStays DEF Blamed
<1> QED BY <1>1, <1>2, <1>3, <1>4, <1>5, <1>6, Steps

\* A program is then refused exactly when it has a reason.
LEMMA RefusesExactly == CodeInv /\ Blamed => RefusesExactlyTheIllFormed
<1> SUFFICES ASSUME CodeInv, Blamed, phase \in {"rejected", "thrown", "assembled"}
             PROVE  phase = "rejected" <=> ~WellFormed
  BY DEF RefusesExactlyTheIllFormed
<1>1. CASE phase = "rejected"
  BY <1>1 DEF CodeInv, Untouched, Blamed
<1>2. CASE phase # "rejected"
  <2>1. Through /\ Patched = Len(backPatch) + 1
    BY <1>2 DEF CodeInv, Untouched, Mapping, Through, Patched
  <2> QED BY <1>2, <2>1, CleanIsWellFormed
<1> QED BY <1>1, <1>2

\* The assembler reports an error exactly for the programs that have one, for every text,
\* all pseudo instructions and any reach of branches and jumps.
THEOREM RefusesExactlyTheIllFormedHolds == Spec => []RefusesExactlyTheIllFormed
<1>1. Init => Blamed
  BY DEF Init, Blamed
<1> QED BY <1>1, CodeInvInitially, CodeInvKept, BlamedKept, RefusesExactly, PTL DEF Spec

=============================================================================
