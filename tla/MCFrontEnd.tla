----------------------------- MODULE MCFrontEnd -----------------------------
(* Command lines and sources for small instances of FrontEnd. *)
EXTENDS FrontEnd

Prog == <<"prog", ".", "s">>

\* A directory whose name has a dot.
InLib == <<"lib", ".", "d", "/">>

\* Options with their arguments, right and wrong, and names of files.
Words ==
  {<<<<"-", "h">>>>, <<<<"-", "v">>>>, <<<<"--", "verbose">>>>, <<<<"-", "x">>>>,
   <<<<"-", "l">>>>, <<<<"--", "interleave">>>>,
   <<<<"-", "f">>, <<"binary">>>>, <<<<"--", "format">>, <<"logisim16">>>>,
   <<<<"-", "f">>, <<"logisim8">>>>, <<<<"-", "f">>, <<"text">>>>, <<<<"-", "f">>>>,
   <<<<"-", "o">>, <<"out">>>>, <<<<"--", "output">>, <<"nowhere", "/", "out">>>>,
   <<<<"-", "i">>, Prog>>, <<<<"-", "i">>, <<"missing", ".", "s">>>>,
   <<<<"-", "s">>, <<".data", "=", "0x8">>>>,
   <<<<"--", "section">>, <<".data", "=", "0x10">>>>, <<<<"-", "s">>, <<".data">>>>,
   <<<<"-", "a">>, <<"0x8", "-", "0x10">>>>, <<<<"-", "a">>, <<"0x8">>>>,
   <<Prog>>, <<InLib \o <<"prog">>>>, <<InLib \o Prog>>, <<<<"prog", ".", "lst">>>>}

SomeCommands == {FlattenSeq(w) : w \in BoundedSeq(Words, 3)}

MCOldFiles == {Prog, InLib \o <<"prog">>, InLib \o Prog, <<"prog", ".", "lst">>,
               <<"prog", ".", "hex">>}
MCDirectories == {<<>>, InLib}
MCHex == [p \in {"0x8", "0x10"} |-> IF p = "0x8" THEN 8 ELSE 16]

MCStatements ==
  [p \in {"push", ".byte 1", ".word 1", ".byte 6", ".space 0", ".space 1",
          ".space 3", ".space 5", ".align", ".equ"} |->
     CASE p = "push"     -> [kind |-> "inst", size |-> 2]
       [] p = ".byte 1"  -> [kind |-> "data", size |-> 1]
       [] p = ".word 1"  -> [kind |-> "data", size |-> 2]
       [] p = ".byte 6"  -> [kind |-> "data", size |-> 6]
       [] p = ".space 0" -> [kind |-> "space", size |-> 0]
       [] p = ".space 1" -> [kind |-> "space", size |-> 1]
       [] p = ".space 3" -> [kind |-> "space", size |-> 3]
       [] p = ".space 5" -> [kind |-> "space", size |-> 5]
       [] p = ".align"   -> [kind |-> "align", size |-> 4]
       [] OTHER          -> [kind |-> "equ", size |-> 0]]

\* Pieces that begin and end lines, comments and strings.
Pieces == {"push", "a:", ".ascii", Quote, "/*", "*/", ";", ".global", NL}

\* Lines of one statement each, for the bytes listed.
Lines == {<<p, " ", NL>> : p \in DOMAIN MCStatements}
           \cup {<<".ascii", " ", Quote, "x", "x", "x", Quote, NL>>}

SomeFiles == BoundedSeq(Pieces, 5)
               \cup {FlattenSeq(l) : l \in BoundedSeq(Lines, 3)}

\* Every source for one command, and every command for one source.
MCInputs == [command : {<<Prog>>}, file : SomeFiles]
              \cup [command : SomeCommands, file : {<<"push">>}]
=============================================================================
