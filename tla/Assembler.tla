----------------------------- MODULE Assembler -----------------------------
(***************************************************************************)
(* The expansion of custom pseudo instructions, the two-pass assembler     *)
(* (assembler.cpp, parser.cpp and the label formats of parse_formats/) and *)
(* the loader that puts its result into memory (processor_base.cpp).  A    *)
(* program is a sequence of lines; tokens, registers and numbers are       *)
(* abstracted, addresses, labels, alignment, back-patching and line        *)
(* numbers are kept.                                                       *)
(***************************************************************************)
EXTENDS Integers, Sequences, FiniteSets

CONSTANTS
  Programs,       \* the texts in the editor: sequences of lines
  Custom,         \* the user's pseudo instructions: a sequence of lines for a name
  DataStart,      \* vm_config::config.getDataSectionStart()
  BranchReach,    \* 4096: a branch reaches -BranchReach .. BranchReach - 1
  JumpReach       \* 1048576, the same for a jump

(***************************************************************************)
(* A line is [op, label, width, count].  op is a section ("data", "text",  *)
(* "bss"), "label", "directive" (count elements of width bytes; a string   *)
(* and .zero are bytes), "zero" (a .zero with a 0 among its numbers, count *)
(* bytes for the others), "plain" (an instruction without a label, li too, *)
(* which becomes count machine instructions), "branch", "jump" (jal with a *)
(* register, and j), "address" (la, and a load of a data label),           *)
(* "pseudoBranch" (beqz ... bleu), "malformed" (among others jal without a *)
(* register, whose case in parse_pseudo no line gets to: instructions.cpp  *)
(* lists no pseudo syntax for jal), or "custom", the use of a pseudo       *)
(* instruction of the user's.                                              *)
(***************************************************************************)
Sections == {"data", "text", "bss"}
Directives == {"directive", "zero"}
InstructionOps == {"plain", "branch", "jump", "address", "pseudoBranch"}
Ops == Sections \cup Directives \cup InstructionOps \cup {"label", "malformed", "custom"}
Widths == {1, 2, 4, 8}
Lines == {line \in [op : Ops, label : STRING, width : Widths, count : Nat] :
            line.op = "plain" => line.count > 0}

ASSUME ProgramsAssumption == \A text \in Programs : text \in Seq(Lines)
ASSUME CustomAssumption == \A name \in DOMAIN Custom : Custom[name] \in Seq(Lines)
ASSUME NumbersAssumption == DataStart \in Nat /\ BranchReach \in Nat /\ JumpReach \in Nat

VARIABLES
  editor,       \* the text as the user wrote it
  source,       \* the expanded text, of which the parser has the tokens
  origin,       \* expandedLineToOriginalLine: the editor's line for each of source
  phase,        \* where tryParseAndLoadProgram is
  at,           \* pos_, or where another loop of that phase is
  section,      \* the section the parser is in
  symbols,      \* symbol_table_
  dataIndex,    \* data_index_
  dataBuffer,   \* data_buffer_
  code,         \* intermediate_code_ and instruction_number_line_number_mapping_
  backPatch,    \* back_patch_: instruction indices, from 0
  errors,       \* the lines of errors_
  lineMap,      \* line_number_instruction_number_mapping, for lines 1..Len
  memory,       \* what LoadProgram wrote: text and data
  dataCounter,  \* data_counter of LoadProgram
  breakpoints   \* breakpoints_, once the editor's lines replaced them

parserVars == <<section, symbols, dataIndex, dataBuffer, code, backPatch>>
texts == <<editor, source, origin>>
results == <<lineMap, memory, dataCounter, breakpoints>>
vars == <<texts, phase, at, parserVars, errors, results>>

Line == source[at]
AtLine(pass) == phase = pass /\ at <= Len(source)

\* The lambda align() of parseDataDirective and of LoadProgram.
Align(index, width) == IF index % width = 0 THEN index ELSE index + (width - (index % width))

Init ==
  /\ editor \in Programs /\ source = <<>> /\ origin = <<>>
  /\ phase = "written" /\ at = 1 /\ section = "text"
  /\ symbols = <<>> /\ dataIndex = 0 /\ dataBuffer = <<>>
  /\ code = <<>> /\ backPatch = <<>> /\ errors = {}
  /\ lineMap = <<>> /\ memory = [text |-> <<>>, data |-> <<>>] /\ dataCounter = 0
  /\ breakpoints = {}

----------------------------------------------------------------------------
(* Before the first pass: the expansion of the editor's lines. *)

\* A line that is no known pseudo instruction stays, and so does one in an expansion:
\* expansions are not expanded again.
ExpansionOf(line) ==
  IF line.op = "custom" /\ line.label \in DOMAIN Custom THEN Custom[line.label] ELSE <<line>>

\* The caller discards the lines of the editor that are noted down here.
ExpandLine ==
  /\ phase = "written" /\ at <= Len(editor)
  /\ source' = source \o ExpansionOf(editor[at])
  /\ origin' = origin \o [n \in 1..Len(ExpansionOf(editor[at])) |-> at]
  /\ at' = at + 1
  /\ UNCHANGED <<editor, phase, parserVars, errors, results>>

EndExpansion ==
  /\ phase = "written" /\ at > Len(editor)
  /\ phase' = "first" /\ at' = 1
  /\ UNCHANGED <<texts, parserVars, errors, results>>

----------------------------------------------------------------------------
(* First pass: the labels and elements of the data sections. *)

Define(label, address, isData) ==
  symbols' = [l \in DOMAIN symbols \cup {label} |->
                IF l = label THEN [address |-> address, isData |-> isData] ELSE symbols[l]]

EnterSection(pass) ==
  /\ AtLine(pass) /\ Line.op \in Sections
  /\ section' = Line.op /\ at' = at + 1
  /\ UNCHANGED <<texts, phase, symbols, dataIndex, dataBuffer, code, backPatch,
                 errors, results>>

\* Both passes step over what is not theirs.
SkipLine ==
  /\ \/ AtLine("first") /\ section # "data"
     \/ AtLine("second") /\ section # "text"
  /\ Line.op \notin Sections
  /\ at' = at + 1
  /\ UNCHANGED <<texts, phase, parserVars, errors, results>>

\* The directive after the label, if it is one: a label is aligned as its first element.
FollowedByDirective == at < Len(source) /\ source[at + 1].op \in Directives
\* mutant: the label keeps the index of the byte after the last element
LabelAddressUnaligned == dataIndex
LabelAddress == IF FollowedByDirective THEN Align(dataIndex, source[at + 1].width) ELSE dataIndex

\* A label that no directive follows is an error, and is recorded all the same.  A
\* label defined before is overwritten.
DataLabel ==
  /\ AtLine("first") /\ section = "data" /\ Line.op = "label"
  /\ dataIndex' = LabelAddress
  /\ Define(Line.label, LabelAddress, TRUE)
  /\ errors' = IF FollowedByDirective THEN errors ELSE errors \cup {at}
  /\ at' = at + 1
  /\ UNCHANGED <<texts, phase, section, dataBuffer, code, backPatch, results>>

\* Every element is aligned before it is counted; without elements nothing changes.  A
\* .zero takes an error for each 0 among its numbers, and its other numbers all the same.
DataDirective ==
  /\ AtLine("first") /\ section = "data" /\ Line.op \in Directives
  /\ dataIndex' = IF Line.count = 0 THEN dataIndex
                  ELSE Align(dataIndex, Line.width) + Line.count * Line.width
  /\ dataBuffer' = dataBuffer \o
       [n \in 1..Line.count |-> [line |-> at, nth |-> n, width |-> Line.width]]
  /\ errors' = IF Line.op = "zero" THEN errors \cup {at} ELSE errors
  /\ at' = at + 1
  /\ UNCHANGED <<texts, phase, section, symbols, code, backPatch, results>>

InvalidDirective ==
  /\ AtLine("first") /\ section = "data"
  /\ Line.op \notin Sections \cup Directives \cup {"label"}
  /\ errors' = errors \cup {at} /\ at' = at + 1
  /\ UNCHANGED <<texts, phase, parserVars, results>>

EndFirstPass ==
  /\ phase = "first" /\ at > Len(source)
  /\ phase' = "second" /\ at' = 1 /\ section' = "text"
  /\ UNCHANGED <<texts, symbols, dataIndex, dataBuffer, code, backPatch, errors,
                 results>>

----------------------------------------------------------------------------
(* Second pass: text labels and instructions. *)

instructionIndex == Len(code)
Unit(op, label, imms, line) == [op |-> op, label |-> label, imms |-> imms, line |-> line]

InText == AtLine("second") /\ section = "text"

TextLabel ==
  /\ InText /\ Line.op = "label"
  /\ IF Line.label \in DOMAIN symbols
     THEN errors' = errors \cup {at} /\ UNCHANGED symbols
     ELSE Define(Line.label, instructionIndex * 4, FALSE) /\ UNCHANGED errors
  /\ at' = at + 1
  /\ UNCHANGED <<texts, phase, section, dataIndex, dataBuffer, code, backPatch,
                 results>>

Emit(units) == code' = code \o units /\ UNCHANGED errors
Refuse == errors' = errors \cup {at} /\ UNCHANGED code

Reaches(op, offset) ==
  LET reach == IF op = "branch" THEN BranchReach ELSE JumpReach
  IN -reach <= offset /\ offset <= reach - 1

\* mutant: the offset is taken from the instruction after the branch
OffsetFromNext(label, index) == symbols[label].address - (index + 1) * 4
Offset(label, index) == symbols[label].address - index * 4

IsTextLabel(label) == label \in DOMAIN symbols /\ ~symbols[label].isData

\* parse_O_GPR_C_GPR_C_IL, parse_O_GPR_C_IL and j: a text label above is resolved at
\* once, everything else is left to the back-patching.
LabelledInstruction ==
  /\ InText /\ Line.op \in {"branch", "jump"}
  /\ LET offset == Offset(Line.label, instructionIndex) IN
     IF IsTextLabel(Line.label)
     THEN /\ IF Reaches(Line.op, offset)
             THEN Emit(<<Unit(Line.op, Line.label, {offset}, at)>>) ELSE Refuse
          /\ UNCHANGED backPatch
     ELSE /\ Emit(<<Unit(Line.op, Line.label, {}, at)>>)
          /\ backPatch' = Append(backPatch, instructionIndex)
  /\ at' = at + 1
  /\ UNCHANGED <<texts, phase, section, symbols, dataIndex, dataBuffer, results>>

\* la, and parse_O_GPR_C_DL: auipc, then addi or the load.
AddressPair(label) ==
  LET offset == DataStart + symbols[label].address - instructionIndex * 4
      hi20 == (offset + 2048) \div 4096
      lo12 == offset - hi20 * 4096
  IN <<Unit("auipc", label, {hi20}, at), Unit("low", label, {lo12}, at)>>

AddressInstruction ==
  /\ InText /\ Line.op = "address"
  /\ IF Line.label \in DOMAIN symbols /\ symbols[Line.label].isData
     THEN Emit(AddressPair(Line.label)) ELSE Refuse
  /\ at' = at + 1
  /\ UNCHANGED <<texts, phase, section, symbols, dataIndex, dataBuffer, backPatch,
                 results>>

\* The machine instructions that a line becomes.
UnitsOf(line) ==
  CASE line.op = "plain" -> line.count
    [] line.op = "address" -> 2
    [] OTHER -> 1

\* Each machine instruction of an li has an index of its own and the line of the li.  The
\* pseudo-branches record their label as resolved, with no immediate and no back-patch.
UnlabelledInstruction ==
  /\ InText /\ Line.op \in {"plain", "pseudoBranch"}
  /\ Emit([n \in 1..UnitsOf(Line) |->
            Unit(Line.op, Line.label, IF Line.op = "plain" THEN {0} ELSE {}, at)])
  /\ at' = at + 1
  /\ UNCHANGED <<texts, phase, section, symbols, dataIndex, dataBuffer, backPatch,
                 results>>

InvalidInstruction ==
  /\ InText /\ Line.op \in Directives \cup {"malformed", "custom"}
  /\ Refuse /\ at' = at + 1
  /\ UNCHANGED <<texts, phase, section, symbols, dataIndex, dataBuffer, backPatch,
                 results>>

EndSecondPass ==
  /\ phase = "second" /\ at > Len(source)
  /\ phase' = "patch" /\ at' = 1
  /\ UNCHANGED <<texts, parserVars, errors, results>>

----------------------------------------------------------------------------
(* Back-patching, code generation, loading. *)

\* mutant: the branches' test of isData is missing, as the jumps' is
MayNameAny(op, label) == label \in DOMAIN symbols

\* A branch must name a text label; a jump may name any label, and takes the offset of a
\* data label within its section for an address.
MayName(op, label) ==
  label \in DOMAIN symbols /\ (op = "branch" => ~symbols[label].isData)

BackPatch ==
  /\ phase = "patch" /\ at <= Len(backPatch)
  /\ LET index == backPatch[at]
         unit == code[index + 1]
         offset == Offset(unit.label, index)
     IN IF MayName(unit.op, unit.label) /\ Reaches(unit.op, offset)
        THEN code' = [code EXCEPT ![index + 1].imms = {offset}] /\ UNCHANGED errors
        ELSE errors' = errors \cup {unit.line} /\ UNCHANGED code
  /\ at' = at + 1
  /\ UNCHANGED <<texts, phase, section, symbols, dataIndex, dataBuffer, backPatch,
                 results>>

\* generateMachineCode: stoi throws on the empty immediate of a pseudo-branch.
NoImmediate == \E k \in 1..Len(code) : code[k].imms = {}

Generate ==
  /\ phase = "patch" /\ at > Len(backPatch)
  /\ phase' = IF errors # {} THEN "rejected" ELSE IF NoImmediate THEN "thrown" ELSE "mapping"
  /\ at' = 1
  /\ UNCHANGED <<texts, parserVars, errors, results>>

\* mutant: an instruction's own line is mapped to the next instruction
NewLinesLate(unit) == [i \in 1..(unit.line - 1 - Len(lineMap)) |-> at - 1]

\* The lines up to an instruction's that no earlier instruction took are mapped to it.
NewLines(unit) == [i \in 1..(unit.line - Len(lineMap)) |-> at - 1]

\* The loop of populateProgramFromParser.
MapLines ==
  /\ phase = "mapping" /\ at <= Len(code)
  /\ lineMap' = lineMap \o NewLines(code[at])
  /\ at' = at + 1
  /\ UNCHANGED <<texts, phase, parserVars, errors, memory, dataCounter, breakpoints>>

EndMapping ==
  /\ phase = "mapping" /\ at > Len(code)
  /\ phase' = "assembled"
  /\ UNCHANGED <<texts, at, parserVars, errors, results>>

LoadText ==
  /\ phase = "assembled"
  /\ memory' = [memory EXCEPT !.text =
       [address \in {4 * (k - 1) : k \in 1..Len(code)} |-> code[address \div 4 + 1]]]
  /\ breakpoints' = {Len(code) * 4}
  /\ phase' = "loading" /\ at' = 1
  /\ UNCHANGED <<texts, parserVars, errors, lineMap, dataCounter>>

\* The loader aligns every element, and knows no labels.
LoadElement ==
  /\ phase = "loading" /\ at <= Len(dataBuffer)
  /\ LET element == dataBuffer[at]
         place == Align(dataCounter, element.width)
     IN /\ memory' = [memory EXCEPT !.data =
             [address \in DOMAIN memory.data \cup {DataStart + place} |->
                IF address = DataStart + place THEN element ELSE memory.data[address]]]
        /\ dataCounter' = place + element.width
  /\ at' = at + 1
  /\ UNCHANGED <<texts, phase, parserVars, errors, lineMap, breakpoints>>

EndLoad ==
  /\ phase = "loading" /\ at > Len(dataBuffer)
  /\ phase' = "loaded"
  /\ UNCHANGED <<texts, at, parserVars, errors, results>>

\* operator[] of the map answers 0 for a line without an entry.
BreakpointAt(line) == (IF line \in DOMAIN lineMap THEN lineMap[line] ELSE 0) * 4

\* The editor's lines replace every breakpoint, the one at the program's end included.
SetBreakpoints(lines) ==
  /\ phase = "loaded"
  /\ breakpoints' = {BreakpointAt(line) : line \in lines}
  /\ phase' = "stopped"
  /\ UNCHANGED <<texts, at, parserVars, errors, lineMap, memory, dataCounter>>

Next ==
  \/ ExpandLine \/ EndExpansion
  \/ \E pass \in {"first", "second"} : EnterSection(pass)
  \/ SkipLine
  \/ DataLabel \/ DataDirective \/ InvalidDirective \/ EndFirstPass
  \/ TextLabel \/ LabelledInstruction \/ AddressInstruction \/ UnlabelledInstruction
  \/ InvalidInstruction \/ EndSecondPass
  \/ BackPatch \/ Generate \/ MapLines \/ EndMapping
  \/ LoadText \/ LoadElement \/ EndLoad
  \/ \E line \in DOMAIN editor : SetBreakpoints({line})

Spec == Init /\ [][Next]_vars

----------------------------------------------------------------------------
(***************************************************************************)
(* What a program means, read off its lines alone.                         *)
(***************************************************************************)
LastOf(lines) == CHOOSE i \in lines : \A j \in lines : j <= i
FirstOf(lines) == CHOOSE i \in lines : \A j \in lines : i <= j

SectionOf(i) ==
  LET before == {j \in 1..i - 1 : source[j].op \in Sections}
  IN IF before = {} THEN "text" ELSE source[LastOf(before)].op

LinesIn(s) == {i \in DOMAIN source : source[i].op \notin Sections /\ SectionOf(i) = s}
Instructions == {i \in LinesIn("text") : source[i].op \in InstructionOps}
Definitions(s, label) == {i \in LinesIn(s) : source[i].op = "label" /\ source[i].label = label}
TextLabels == {source[i].label : i \in {j \in LinesIn("text") : source[j].op = "label"}}
DataLabels == {source[i].label : i \in {j \in LinesIn("data") : source[j].op = "label"}}

\* The machine instructions of the lines above a line.
UnitsAbove(i) ==
  UNION {{j} \X (1..UnitsOf(source[j])) : j \in {k \in Instructions : k < i}}

\* The address of the first instruction at or below a line.
StartOf(i) == 4 * Cardinality(UnitsAbove(i))

\* A branch or a jump to a text label, in a program that was loaded, goes from the
\* address of its line to the first instruction below the label, whether the label
\* stands above it (resolved at once) or below (back-patched), and whatever stands
\* between: la and loads of labels, which take two instructions, and li, which takes
\* one to eight.
JumpsReachTheirLabels ==
  phase = "loaded" =>
    \A i \in Instructions :
      source[i].op \in {"branch", "jump"} /\ source[i].label \in TextLabels =>
        memory.text[StartOf(i)].imms =
          {StartOf(LastOf(Definitions("text", source[i].label))) - StartOf(i)}

\* The immediate of an instruction that has one.
OneOf(imms) == CHOOSE n \in imms : TRUE

LabelsHaveData ==
  \A i \in LinesIn("data") : source[i].op = "label" => source[i + 1].count > 0

\* The address that la builds for a data label (the last definition of it) is where the
\* loader put the first element of the directive after the label.  The parser and the
\* loader lay the data out separately, and agree as long as no label stands before a
\* directive without elements.
DataLabelsNameTheirData ==
  phase = "loaded" /\ LabelsHaveData =>
    \A i \in Instructions :
      source[i].op = "address" =>
        LET pc == StartOf(i)
            upper == OneOf(memory.text[pc].imms)
            lower == OneOf(memory.text[pc + 4].imms)
            named == pc + upper * 4096 + lower
        IN /\ -2048 <= lower /\ lower <= 2047
           /\ named \in DOMAIN memory.data
           /\ memory.data[named].nth = 1
           /\ memory.data[named].line = LastOf(Definitions("data", source[i].label)) + 1

\* A breakpoint on a line of the editor stops at the first instruction that comes from
\* that line or one below it.  (Below the last instruction it stops at address 0.)  The
\* map is of the expanded text: this holds for the lines up to the first pseudo
\* instruction that is not one line, and for that one.
BreakpointsStopAtTheirLine ==
  phase = "loaded" =>
    \A line \in {l \in DOMAIN editor : \A k \in 1..l - 1 : Len(ExpansionOf(editor[k])) = 1} :
      LET below == {i \in Instructions : origin[i] >= line}
      IN BreakpointAt(line) = IF below = {} THEN 0 ELSE StartOf(FirstOf(below))

WellFormed ==
  /\ \A i \in LinesIn("data") :
       \/ source[i].op = "directive"
       \/ /\ source[i].op = "label" /\ i < Len(source)
          /\ source[i + 1].op \in Directives
  /\ \A i \in LinesIn("text") : source[i].op \in InstructionOps \cup {"label"}
  /\ \A label \in TextLabels :
       label \notin DataLabels /\ Cardinality(Definitions("text", label)) = 1
  /\ \A i \in Instructions :
       LET label == source[i].label IN
       CASE source[i].op = "branch" ->
              /\ label \in TextLabels
              /\ Reaches("branch", StartOf(LastOf(Definitions("text", label))) - StartOf(i))
         [] source[i].op = "jump" ->
              \/ /\ label \in TextLabels
                 /\ Reaches("jump", StartOf(LastOf(Definitions("text", label))) - StartOf(i))
              \/ /\ label \in DataLabels
                 /\ Reaches("jump", symbols[label].address - StartOf(i))
         [] source[i].op = "address" -> label \in DataLabels
         [] OTHER -> TRUE

\* The assembler reports an error exactly for the programs that have one: neither a
\* label that is defined below its use, nor one that an earlier error displaced, makes
\* it refuse a program it should take or load a program it should refuse.
RefusesExactlyTheIllFormed ==
  phase \in {"rejected", "thrown", "assembled"} => (phase = "rejected" <=> ~WellFormed)
=============================================================================
