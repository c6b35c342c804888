---- MODULE MCAssembler ----
(* Source lines for small instances of Assembler. *)
EXTENDS Assembler, SequencesExt

Num(n) == [symbol |-> NoLabel, addend |-> n]
At(l, n) == [symbol |-> l, addend |-> n]

Line(l, stmt) == [label |-> l, stmt |-> stmt]
Plain(stmt) == Line(NoLabel, stmt)

InSection(name) == [op |-> "section", name |-> name]
OnlyLabel == [op |-> "empty"]
Push == [op |-> "inst", code |-> 9216]
Ldr(e) == [op |-> "ldr", target |-> e]
Branch(e) == [op |-> "branch", target |-> e]
Shift(e) == [op |-> "shift", amount |-> e]
Data(grain, values) == [op |-> "data", grain |-> grain, values |-> values]
Space(size, fill) == [op |-> "space", size |-> size, fill |-> fill]
AlignTo(power) == [op |-> "align", power |-> power]
Ascii(text) == [op |-> "ascii", text |-> text]

MCNames == {".text", ".data", ".bss"}

\* The programs of up to n of the lines.
ProgramsOf(lines, n, maps) == [lines : BoundedSeq(lines, n), addresses : maps]

\* Code: references between instructions, labels and sections.  70000 does not
\* fit 16 bits; 65535 does, and its sum with an offset above zero does not.
CodeLines ==
  {Plain(InSection(".text")), Plain(InSection(".data")),
   Line("a", OnlyLabel), Line("b", Push), Plain(Push),
   Plain(Ldr(At("a", 0))), Plain(Ldr(At("b", -2))), Plain(Ldr(At("a", 70000))),
   Plain(Branch(At("a", 0))), Plain(Branch(At("b", 2))),
   Plain(Branch(At("b", -70000))), Plain(Branch(At("b", 65535))),
   Plain(Data(1, <<Num(7)>>))}

\* Data: directives of every size, labels in .word and .byte, a .bss.
DataLines ==
  {Plain(InSection(".data")), Plain(InSection(".bss")), Line("a", OnlyLabel),
   Plain(Data(2, <<At("a", 0), At("a", 70000), Num(513)>>)),
   Plain(Data(1, <<Num(300), At("a", 1)>>)),
   Plain(Data(1, <<>>)),
   Plain(Space(Num(3), Num(0))), Plain(Space(At("a", 0), Num(70000))),
   Plain(Space(Num(1), At("a", 0))), Plain(Space(Num(65536), Num(1))),
   Plain(AlignTo(2)), Plain(Ascii(<<65>>)),
   Line("b", Shift(Num(17))), Plain(Shift(At("a", 0))), Plain(Branch(Num(3)))}

DataAddresses == {<<>>, [n \in {".data"} |-> 4], [n \in {".text"} |-> 254]}

MCPrograms == ProgramsOf(CodeLines, 4, {<<>>})
                \cup ProgramsOf(DataLines, 3, DataAddresses)

\* A label before the first directive, and a label after .text.
LabelLines ==
  {Plain(InSection(".text")), Plain(InSection(".data")), Line("a", OnlyLabel),
   Plain(Data(1, <<Num(7)>>)), Plain(Branch(At("a", 0)))}

LabelPrograms == ProgramsOf(LabelLines, 4, {<<>>})
=============================================================================
