----------------------------- MODULE MCEvaluation -----------------------------
(* Source lines for small instances of Evaluation. *)
EXTENDS Evaluation

Node(op, kids, name, value) == [op |-> op, kids |-> kids, name |-> name, value |-> value]
Num(v) == Node("value", <<>>, "", v)
Id(n)  == Node("identifier", <<>>, n, 0)

One(leaf) == <<leaf>>
Un(op, leaf) == <<leaf, Node(op, <<1>>, "", 0)>>
Bin(a, op, b) == <<a, b, Node(op, <<1, 2>>, "", 0)>>
Cond(a, b, c) == <<a, b, c, Node("?:", <<1, 2, 3>>, "", 0)>>

Line(op, name, expr) == [op |-> op, name |-> name, expr |-> expr]
InSection(name) == Line("section", name, <<>>)
Label(name) == Line("label", name, <<>>)
Equ(name, expr) == Line("equ", name, expr)
Data(expr) == Line("data", "", expr)
Space(expr) == Line("space", "", expr)
Align(expr) == Line("align", "", expr)

MCNames == {".text", ".data"}
MCLineNames == <<"line#1", "line#2", "line#3", "line#4">>

\* Definitions, uses before and after them, uses while parsing, failures that
\* report once, cycles, labels and .equ of one name.
SymbolLines ==
  {InSection(".data"), Label("a"), Label("x"),
   Equ("x", One(Id("a"))), Equ("x", Bin(Id("y"), "+", Num(3))),
   Equ("y", One(Num(1))), Equ("y", Un("-_", Num(70000))),
   Equ("y", Bin(Id("x"), "-", Id("a"))),
   Data(Bin(Id("x"), "-", Id("."))), Data(Cond(Id("y"), Num(7), Id("a"))),
   Space(One(Id("x"))), Align(Un("+_", Num(1)))}

\* Another name of a label, given in another section.
AliasLines ==
  {InSection(".text"), InSection(".data"), Label("a"), Equ("x", One(Id("a"))),
   Data(One(Id("x")))}
=============================================================================
