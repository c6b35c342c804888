---------------------------- MODULE CodeGenerator ----------------------------
(***************************************************************************)
(* The instruction encodings of the code generator                         *)
(* (src/src/code_generator.cpp): one action per visit of an instruction,   *)
(* from registers and evaluated operands to a 16-bit word, reports and     *)
(* relocations.  Directives are visited in module Assembler.               *)
(***************************************************************************)
EXTENDS Integers, Sequences, InstructionSet

CONSTANT Programs           \* the sequences of instructions to generate

Register == 0 .. 15
Word == {n \in Nat : n < 65536}

\* What evaluate() left of an operand: its type, or how it failed (INVALID is
\* reported here as an error, WIDE as a warning, and SILENT, a symbol that failed
\* where it was first evaluated, not at all), the value get_value() gives, and
\* whether its symbol is in the section of the instruction.
Operand == [type : {"ABSOLUTE", "LABEL", "INVALID", "WIDE", "SILENT"}, value : Word,
            near : BOOLEAN]

-----------------------------------------------------------------------------
\* Opcodes, by mnemonic.

LoadStoreOpcode == [ldr |-> 0, ldrb |-> 2048, str |-> 8192, strb |-> 10240]
BranchOpcode == [eq |-> 16384, ne |-> 17408, cs |-> 18432, hs |-> 18432,
                 cc |-> 19456, lo |-> 19456, ge |-> 20480, lt |-> 21504,
                 b |-> 22528, bl |-> 23552]
ArithOpcode == [add |-> 32768, sub |-> 34816, adc |-> 36864, sbc |-> 38912]
ArithConstOpcode == [add |-> 40960, sub |-> 43008, adc |-> 0, sbc |-> 0]
LogicOpcode == [and |-> 49152, orr |-> 51200, eor |-> 53248]
ShiftOpcode == [lsl |-> 57344, lsr |-> 59392, asr |-> 61440, ror |-> 63488]
MovConstOpcode == [mov |-> 24576, movt |-> 28672]
StackOpcode == [push |-> 9216, pop |-> 1024]
SpecialBit == [cpsr |-> 0, spsr |-> 16]

LdrRelativeOpcode == 3072
RrxOpcode == 55296
MovOpcode == 45056
NotOpcode == 45072
MovsOpcode == 45088
MsrOpcode == 45120
MrsOpcode == 45152
CmpOpcode == 47104
RegisterIndex == 4096       \* bit 12: the index of ldr and str is a register

\* The statements the parser builds, one record set per constructor.
Instructions ==
  [op : {"ldr_relative"}, name : DOMAIN LoadStoreOpcode, rd : Register,
   target : Operand]
  \cup [op : {"ldr_str"}, name : DOMAIN LoadStoreOpcode, rd : Register,
        rn : Register, rm : Register]
  \cup [op : {"ldr_str_const"}, name : DOMAIN LoadStoreOpcode, rd : Register,
        rn : Register, constant : Operand]
  \cup [op : {"branch"}, name : DOMAIN BranchOpcode, target : Operand]
  \cup [op : {"arith"}, name : DOMAIN ArithOpcode, rd : Register,
        rn : Register, rm : Register]
  \cup [op : {"arith_const"}, name : DOMAIN ArithOpcode, rd : Register,
        rn : Register, constant : Operand]
  \cup [op : {"logic"}, name : DOMAIN LogicOpcode, rd : Register,
        rn : Register, rm : Register]
  \cup [op : {"shift"}, name : DOMAIN ShiftOpcode, rd : Register,
        rn : Register, constant : Operand]
  \cup [op : {"rrx", "mvn", "mov", "movs"}, rd : Register, rn : Register]
  \cup [op : {"mov_const"}, name : DOMAIN MovConstOpcode, rd : Register,
        constant : Operand]
  \cup [op : {"cmp"}, rn : Register, rm : Register]
  \cup [op : {"msr", "mrs"}, special : DOMAIN SpecialBit, rd : Register]
  \cup [op : {"stack"}, name : DOMAIN StackOpcode, rd : Register]

ASSUME ProgramsAssumption == \A p \in Programs : p \in Seq(Instructions)

VARIABLES
  ast,        \* the statements
  start,      \* the section offset of the first one
  pc,         \* the statement being visited
  code,       \* the word in the place of each statement
  reports,    \* the errors and warnings counted, split by statement
  relocs      \* the relocations queued

vars == <<ast, start, pc, code, reports, relocs>>

-----------------------------------------------------------------------------
\* Fields of the word under construction.

\* Mutant: the third register is placed one bit higher.
RmAtEight(r) == r * 256

Rd(r) == r
Rn(r) == r * 16
Rm(r) == r * 128

\* (rn << RN_POSITION) | high, where high has no bit below 7: the fourth bit of
\* rn meets the first of high.
OrRn(rn, high) ==
  high + (rn % 8) * 16
    + IF rn > 7 /\ (high \div 128) % 2 = 0 THEN 128 ELSE 0

\* static_cast<uint16_t>
Cast(word) == word % 65536

\* Mutant: the first value too wide is taken to fit.
WideAfter(value, size) == value > size

\* (value & ~mask) != 0, for a mask of so many values.
Wide(value, size) == value >= size

Count(condition) == IF condition THEN 1 ELSE 0

\* "Invalid register": rn has three bits.
BadRn(rn) == Count(rn > 7)

Number(e) == e.type = "ABSOLUTE"
Label(e) == e.type = "LABEL"
Silent(e) == e.type = "SILENT"
EvalErrors(e) == Count(e.type = "INVALID")
EvalWarnings(e) == Count(e.type = "WIDE")

-----------------------------------------------------------------------------
\* A visit writes its word over the filler of the constructor, counts its
\* reports and queues relocations.

This == ast[pc]
Offset == start + 2 * (pc - 1)
Filler == 21845             \* 0x55 0x55

Visiting(op) == pc <= Len(ast) /\ This.op = op

Visited(word, errors, warnings, newRelocs) ==
  /\ code' = [code EXCEPT ![pc] = word]
  /\ reports' = [reports EXCEPT ![pc] =
                   [errors |-> errors, warnings |-> warnings + Count(Offset % 2 # 0)]]
  /\ relocs' = relocs \o newRelocs
  /\ pc' = pc + 1
  /\ UNCHANGED <<ast, start>>

Write(word, errors, warnings) == Visited(Cast(word), errors, warnings, <<>>)

\* Mutant: the field is one bit too wide.
WideLdrField == [position |-> 16, size |-> 128]

\* The fields left to relocations, with the weight of their lowest bit.
LdrField == [position |-> 16, size |-> 64]
MovField == [position |-> 16, size |-> 256]

Relocation == [statement : DOMAIN ast, field : {LdrField, MovField}]
Reloc(field) == [statement |-> pc, field |-> field]

VisitLoadRelative ==
  LET s == This
      e == s.target
  IN  /\ Visiting("ldr_relative")
      /\ Visited(LdrRelativeOpcode + Rd(s.rd),
                 Count(s.name \in {"str", "strb"}) + Count(s.name = "ldrb")
                   + EvalErrors(e) + Count(Number(e)) + Count(Label(e) /\ ~e.near),
                 EvalWarnings(e),
                 IF Label(e) /\ e.near THEN <<Reloc(LdrField)>> ELSE <<>>)

VisitLoadStore ==
  LET s == This
  IN  /\ Visiting("ldr_str")
      /\ Write(LoadStoreOpcode[s.name] + RegisterIndex + Rd(s.rd)
                 + OrRn(s.rn, Rm(s.rm)),
               BadRn(s.rn), 0)

IsByte(name) == name \in {"ldrb", "strb"}

\* The index counts bytes, or words.
Index(s) == IF IsByte(s.name) THEN s.constant.value ELSE s.constant.value \div 2

VisitLoadStoreConst ==
  LET s == This
      e == s.constant
      high == IF Number(e) THEN Rm(Index(s) % 8) ELSE 0
  IN  /\ Visiting("ldr_str_const")
      /\ Write(LoadStoreOpcode[s.name] + Rd(s.rd) + OrRn(s.rn, high),
               BadRn(s.rn) + EvalErrors(e) + Count(Label(e)),
               EvalWarnings(e) + Count(Number(e) /\ Wide(Index(s), 8))
                 + Count(Number(e) /\ ~IsByte(s.name) /\ e.value % 2 # 0))

\* The distance from the PC, two bytes ahead, to a label.
Distance(e, offset) == e.value - offset - 2
BeyondReach(distance) == distance < -1024 \/ distance > 1023

VisitBranch ==
  LET s == This
      e == s.target
      near == Label(e) /\ e.near
      distance == Distance(e, Offset)
      offset == CASE Number(e) -> e.value \div 2
                  [] near      -> distance \div 2
                  [] OTHER     -> 0
      odd == \/ Number(e) /\ e.value % 2 # 0
             \/ near /\ distance % 2 # 0
  IN  /\ Visiting("branch")
      /\ Write(BranchOpcode[s.name] + (offset % 1024),
               EvalErrors(e) + Count(Label(e) /\ ~e.near)
                 + Count(near /\ BeyondReach(distance)),
               EvalWarnings(e) + Count(odd))

\* Nothing is written unless the constant is a number.
VisitShift ==
  LET s == This
      e == s.constant
      errors == BadRn(s.rn) + EvalErrors(e) + Count(Label(e))
      word == ShiftOpcode[s.name] + Rm(e.value % 16) + Rn(s.rn) + Rd(s.rd)
  IN  /\ Visiting("shift")
      /\ \/ Number(e) /\ Write(word, errors, Count(Wide(e.value, 16)))
         \/ ~Number(e) /\ Write(code[pc], errors, EvalWarnings(e))

VisitRrx ==
  /\ Visiting("rrx")
  /\ Write(RrxOpcode + Rn(This.rn) + Rd(This.rd), BadRn(This.rn), 0)

VisitArith ==
  LET s == This
  IN  /\ Visiting("arith")
      /\ Write(ArithOpcode[s.name] + Rd(s.rd) + OrRn(s.rn, Rm(s.rm)), BadRn(s.rn), 0)

VisitArithConst ==
  LET s == This
      e == s.constant
      high == IF Number(e) THEN Rm(e.value % 16) ELSE 0
  IN  /\ Visiting("arith_const")
      /\ Write(ArithConstOpcode[s.name] + Rd(s.rd) + OrRn(s.rn, high),
               BadRn(s.rn) + Count(s.name \in {"adc", "sbc"}) + EvalErrors(e)
                 + Count(Label(e)),
               EvalWarnings(e) + Count(Number(e) /\ Wide(e.value, 16)))

VisitLogic ==
  LET s == This
  IN  /\ Visiting("logic")
      /\ Write(LogicOpcode[s.name] + Rm(s.rm) + Rn(s.rn) + Rd(s.rd), BadRn(s.rn), 0)

VisitNot ==
  /\ Visiting("mvn")
  /\ Write(NotOpcode + Rm(This.rn) + Rd(This.rd), 0, 0)

VisitMov ==
  /\ Visiting("mov")
  /\ Write(MovOpcode + Rm(This.rn) + Rd(This.rd), 0, 0)

\* The constant of mov and movt: a label is left to a relocation.
VisitMovConst ==
  LET s == This
      e == s.constant
      field == IF Number(e) THEN (e.value % 256) * 16 ELSE 0
  IN  /\ Visiting("mov_const")
      /\ Visited(MovConstOpcode[s.name] + field + Rd(s.rd),
                 EvalErrors(e),
                 EvalWarnings(e) + Count(Number(e) /\ Wide(e.value, 256)),
                 IF Label(e) THEN <<Reloc(MovField)>> ELSE <<>>)

VisitMovs ==
  /\ Visiting("movs")
  /\ Write(MovsOpcode, Count(This.rd # 15) + Count(This.rn # 14), 0)

VisitCompare ==
  /\ Visiting("cmp")
  /\ Write(CmpOpcode + OrRn(This.rn, Rm(This.rm)), BadRn(This.rn), 0)

VisitMsr ==
  /\ Visiting("msr")
  /\ Write(MsrOpcode + SpecialBit[This.special] + Rm(This.rd), 0, 0)

VisitMrs ==
  /\ Visiting("mrs")
  /\ Write(MrsOpcode + SpecialBit[This.special] + Rd(This.rd), 0, 0)

VisitPushPop ==
  /\ Visiting("stack")
  /\ Write(StackOpcode[This.name] + Rd(This.rd), 0, 0)

Init == /\ ast \in Programs
        /\ start \in {0, 1}
        /\ pc = 1
        /\ code = [j \in DOMAIN ast |-> Filler]
        /\ reports = [j \in DOMAIN ast |-> [errors |-> 0, warnings |-> 0]]
        /\ relocs = <<>>

Next == \/ VisitLoadRelative \/ VisitLoadStore \/ VisitLoadStoreConst
        \/ VisitBranch \/ VisitShift \/ VisitRrx \/ VisitArith \/ VisitArithConst
        \/ VisitLogic \/ VisitNot \/ VisitMov \/ VisitMovConst \/ VisitMovs
        \/ VisitCompare \/ VisitMsr \/ VisitMrs \/ VisitPushPop

Spec == Init /\ [][Next]_vars

-----------------------------------------------------------------------------
\* What the properties speak of.

\* Two names of one condition are one instruction.
Canonical(name) == CASE name = "hs" -> "cs" [] name = "lo" -> "cc" [] OTHER -> name

OffsetOf(j) == start + 2 * (j - 1)

\* The number an operand gives to a field of so many values; a relocation or
\* nobody fills it otherwise.
Given(e, value, size) == IF Number(e) THEN value % size ELSE 0

\* The instruction the source asks for, constants reduced to their fields.
Meaning(s, offset) ==
  CASE s.op = "ldr_relative" -> <<"ldr_label", s.rd, 0>>
    [] s.op = "ldr_str" -> <<s.name, s.rd, s.rn, "register", s.rm>>
    [] s.op = "ldr_str_const" ->
         <<s.name, s.rd, s.rn, "constant", Given(s.constant, Index(s), 8)>>
    [] s.op = "branch" ->
         <<Canonical(s.name),
           IF Label(s.target) /\ s.target.near
           THEN (Distance(s.target, offset) \div 2) % 1024
           ELSE Given(s.target, s.target.value \div 2, 1024)>>
    [] s.op \in {"arith", "logic"} -> <<s.name, s.rd, s.rn, "register", s.rm>>
    [] s.op \in {"arith_const", "shift"} ->
         <<s.name, s.rd, s.rn, "constant", Given(s.constant, s.constant.value, 16)>>
    [] s.op = "rrx" -> <<"rrx", s.rd, s.rn>>
    [] s.op \in {"mvn", "mov"} -> <<s.op, s.rd, s.rn>>
    [] s.op = "mov_const" ->
         <<s.name, s.rd, "constant", Given(s.constant, s.constant.value, 256)>>
    [] s.op = "movs" -> <<"movs">>
    [] s.op = "cmp" -> <<"cmp", s.rn, s.rm>>
    [] s.op \in {"msr", "mrs"} -> <<s.op, s.special, s.rd>>
    [] s.op = "stack" -> <<s.name, s.rd>>

NoErrors(j) == reports[j].errors = 0
NoReports(j) == NoErrors(j) /\ reports[j].warnings = 0

\* A shift whose constant was too wide to evaluate is never written.
Written(j) == ast[j].op = "shift" => Number(ast[j].constant)

Signed10(offset) == IF offset >= 512 THEN offset - 1024 ELSE offset

-----------------------------------------------------------------------------
TypeOK ==
  /\ ast \in Seq(Instructions)
  /\ start \in {0, 1}
  /\ pc \in 1 .. Len(ast) + 1
  /\ code \in [DOMAIN ast -> Word]
  /\ reports \in [DOMAIN ast -> [errors : Nat, warnings : Nat]]
  /\ relocs \in Seq(Relocation)

\* A statement accepted without errors reads back as the instruction it spells:
\* no field runs into another, no two instructions share a word, and a constant
\* too wide disturbs nothing but its own field.
CodesDecode ==
  \A j \in 1 .. pc - 1 :
    NoErrors(j) /\ Written(j) => Decode(code[j]) = Meaning(ast[j], OffsetOf(j))

\* Unless its symbol had failed before, a statement without any report holds the
\* constant itself, not its low bits, and a branch is as far from its label as
\* the PC will take it.  The number of a branch is the exception: no limit is
\* looked at (code_generator.cpp 225-230), and from 2048 on its low bits alone
\* are kept in silence.
TruncationsAreReported ==
  \A j \in 1 .. pc - 1 : NoReports(j) =>
    LET s == ast[j]
        m == Decode(code[j])
    IN  /\ s.op \in {"shift", "arith_const"} /\ ~Silent(s.constant) =>
             m[5] = s.constant.value
        /\ s.op = "ldr_str_const" /\ ~Silent(s.constant) =>
             m[5] * (IF IsByte(s.name) THEN 1 ELSE 2) = s.constant.value
        /\ s.op = "mov_const" /\ Number(s.constant) => m[4] = s.constant.value
        /\ s.op = "branch" /\ Label(s.target) =>
             OffsetOf(j) + 2 + 2 * Signed10(m[2]) = s.target.value
        /\ s.op = "branch" /\ Number(s.target) /\ s.target.value < 2048 =>
             2 * m[2] = s.target.value

\* A relocation finds its field empty, and whatever it puts there the word keeps
\* its instruction and register: the value it puts is the constant read back.
RelocatedFieldsAreConstants ==
  \A k \in DOMAIN relocs :
    LET r == relocs[k]
        s == ast[r.statement]
    IN  NoErrors(r.statement) =>
          \A v \in 0 .. r.field.size - 1 :
            Decode(code[r.statement] + v * r.field.position) =
              IF s.op = "mov_const" THEN <<s.name, s.rd, "constant", v>>
              ELSE <<"ldr_label", s.rd, v>>

=============================================================================
