------------------------------ MODULE Evaluation ------------------------------
(***************************************************************************)
(* Symbols, .equ and the evaluation of expressions in p16as                *)
(* (src/src/symbols.h, symbols.cpp, expression.h, expression.cpp and the   *)
(* directives that evaluate).  The parser builds the nodes of a line; a    *)
(* symbol defined by .equ is evaluated the first time its type is asked    *)
(* for, in the middle of another evaluation, and its type and value are    *)
(* kept in the symbol and in the nodes.  One step is one call or return of *)
(* evaluate().  What visits write is in modules Assembler and              *)
(* CodeGenerator.                                                          *)
(***************************************************************************)
EXTENDS Expressions, Sequences, FiniteSets

CONSTANTS
  Names,                    \* section names
  SymbolNames,              \* names of labels and of .equ symbols
  LineNames,                \* the symbol "." stands for, line by line
  Lines,                    \* the source lines a program may contain
  MaxLines,                 \* bound: lines in a program
  MaxDepth,                 \* bound: calls the process stack has room for
  Garbage                   \* what memory from new may hold

ASSUME NamesAssumption == ".text" \in Names /\ Names \subseteq STRING

\* An identifier is not empty and is not ".".
ASSUME SymbolNamesAssumption == SymbolNames \subseteq STRING \ {"", "."}

\* "line#" and the number of the line, which no identifier can be.
AreLineNames(names) ==
  /\ names \in Seq(STRING) /\ Len(names) >= MaxLines
  /\ \A j, k \in DOMAIN names : /\ names[j] \notin SymbolNames \cup {"", "."}
                                /\ names[j] = names[k] => j = k

ASSUME LineNamesAssumption == MaxLines \in Nat /\ AreLineNames(LineNames)

\* What the grammar may reduce.
ExpressionNode == [op : Operators, kids : Seq(Nat), name : STRING, value : Int]

IsExpression(expr) ==
  /\ expr \in Seq(ExpressionNode) /\ expr # <<>>
  /\ \A k \in DOMAIN expr :
       /\ Len(expr[k].kids) = Operands(expr[k].op)
       /\ \A j \in DOMAIN expr[k].kids : expr[k].kids[j] \in 1 .. k - 1
       /\ IF expr[k].op = "identifier" THEN expr[k].name \in SymbolNames \cup {"."}
          ELSE expr[k].name = ""

IsLine(line) ==
  \/ line.op = "section" /\ line.name \in Names
  \/ line.op = "label" /\ line.name \in SymbolNames
  \/ line.op = "equ" /\ line.name \in SymbolNames /\ IsExpression(line.expr)
  \/ line.op \in {"data", "space", "align"} /\ line.name = "" /\ IsExpression(line.expr)

ASSUME LinesAssumption == \A line \in Lines : IsLine(line)

\* uint16_t
Word == {n \in Nat : n < 65536}

ASSUME GarbageAssumption == Garbage \subseteq Word

VARIABLES
  table, current_section,   \* Sections
  heap,                     \* the expression nodes, in the order of their new
  symbols,                  \* Symbols::table
  ast,                      \* the statements
  phase,                    \* "parse", "generate", "done", "exit", "crashed"
  pc,                       \* the statement being visited
  stack,                    \* calls of evaluate, the last one running
  pending,                  \* a statement waits for the outermost call
  ok,                       \* what the last call of evaluate returned
  error_count, warning_count,
  garbage                   \* what uninitialised values read as, in this run

sectionVars == <<table, current_section>>
machine == <<heap, symbols, stack, ok>>
reports == <<error_count, warning_count>>
vars == <<sectionVars, machine, ast, phase, pc, pending, reports, garbage>>

S == INSTANCE Sections WITH Blocks <- {}, Sizes <- {}, MaxSize <- 0

AllNames == SymbolNames \cup {LineNames[k] : k \in 1 .. MaxLines}

Absent == [type |-> "absent", section |-> 0, expr |-> 0]

\* Symbols::get_section: a number no section has when there is no symbol.
SectionOf(name) == IF name = "" THEN 0 ELSE symbols[name].section

\* Symbol::get_type has to evaluate.
Lazy(name) == symbols[name].type = "UNDEFINED" /\ symbols[name].expr # 0

\* Not in the table, or there with no definition.
Free(symbol) == symbol.expr = 0

Count(condition) == IF condition THEN 1 ELSE 0

CurrentSize == Len(table[current_section].contents)

-----------------------------------------------------------------------------
(* The parser.  The expression of a line is the sequence of its nodes as   *)
(* the grammar reduces them, operands first, the whole expression last;    *)
(* kids are positions in it.                                               *)

HereName == LineNames[Len(ast) + 1]

\* Only a literal has its value from the start.
Allocate(expr) ==
  [k \in DOMAIN expr |->
     [op |-> expr[k].op,
      kids |-> [j \in DOMAIN expr[k].kids |-> Len(heap) + expr[k].kids[j]],
      name |-> IF expr[k].name = "." THEN HereName ELSE expr[k].name,
      type |-> IF expr[k].op = "value" THEN "ABSOLUTE" ELSE "unset",
      value |-> IF expr[k].op = "value" THEN expr[k].value ELSE garbage,
      symbol |-> ""]]

ValueNode(v) == [op |-> "value", kids |-> <<>>, name |-> "", type |-> "ABSOLUTE",
                 value |-> v, symbol |-> ""]

Mentions(expr, name) == \E k \in DOMAIN expr : expr[k].name = name

\* "." is a label of its own, at the current size of the section.
NodesOf(expr) ==
  Allocate(expr) \o IF Mentions(expr, ".") THEN <<ValueNode(CurrentSize)>> ELSE <<>>

\* The node of the whole expression.
Root(expr) == Len(heap) + Len(expr)

\* Identifier's constructor: a name not seen before enters undefined.
WithMentions(expr) ==
  [n \in AllNames |->
     IF n = HereName /\ Mentions(expr, ".")
     THEN [type |-> "LABEL", section |-> current_section, expr |-> Root(expr) + 1]
     ELSE IF symbols[n] = Absent /\ Mentions(expr, n)
     THEN [type |-> "UNDEFINED", section |-> 1, expr |-> 0]
     ELSE symbols[n]]

NotVisited == [ok |-> FALSE, type |-> "unset", value |-> 0, symbol |-> ""]

\* `live` tells whether the symbol a .equ keeps is the one in the table or one
\* that was deleted.
Statement(line, root, size, live) ==
  [op |-> line.op, name |-> line.name, root |-> root, section |-> current_section,
   offset |-> CurrentSize, size |-> size, live |-> live, result |-> NotVisited]

Reading == phase = "parse" /\ pending = "none" /\ Len(ast) < MaxLines

Call(node) == stack' = Append(stack, [node |-> node, done |-> 0])

SectionLine(line) ==
  /\ Reading /\ line.op = "section"
  /\ S!SetSection(line.name)
  /\ ast' = Append(ast, Statement(line, 0, 0, TRUE))
  /\ UNCHANGED <<machine, phase, pc, pending, reports, garbage>>

\* add_label, by what the symbol is when the label is met.
DefineLabel(line) ==
  /\ Reading /\ line.op = "label"
  /\ Free(symbols[line.name])
  /\ heap' = Append(heap, ValueNode(CurrentSize))
  /\ symbols' = [symbols EXCEPT ![line.name] =
                   [type |-> "LABEL", section |-> current_section,
                    expr |-> Len(heap) + 1]]
  /\ ast' = Append(ast, Statement(line, 0, 0, TRUE))
  /\ UNCHANGED <<sectionVars, stack, ok, phase, pc, pending, reports, garbage>>

LabelTwice(line) ==
  /\ Reading /\ line.op = "label"
  /\ ~Free(symbols[line.name]) /\ ~Lazy(line.name)
  /\ error_count' = error_count + 1
  /\ ast' = Append(ast, Statement(line, 0, 0, TRUE))
  /\ UNCHANGED <<sectionVars, machine, phase, pc, pending, warning_count, garbage>>

\* The name is a .equ not evaluated yet: asking for its type evaluates it.
LabelAfterEqu(line) ==
  /\ Reading /\ line.op = "label" /\ Lazy(line.name)
  /\ Call(symbols[line.name].expr)
  /\ pending' = "label"
  /\ ast' = Append(ast, Statement(line, symbols[line.name].expr, 0, TRUE))
  /\ UNCHANGED <<sectionVars, heap, symbols, ok, phase, pc, reports, garbage>>

\* Mutant: the last .equ of a name wins.
Dir_equLast(line) ==
  /\ Reading /\ line.op = "equ"
  /\ heap' = heap \o NodesOf(line.expr)
  /\ symbols' = [WithMentions(line.expr) EXCEPT ![line.name] =
                   [type |-> "UNDEFINED", section |-> current_section,
                    expr |-> Root(line.expr)]]
  /\ ast' = Append(ast, Statement(line, Root(line.expr), 0,
                                  WithMentions(line.expr)[line.name] = Absent))
  /\ UNCHANGED <<sectionVars, stack, ok, phase, pc, pending, reports, garbage>>

\* Dir_equ's constructor: a free name takes the expression and the current
\* section; a name mentioned before keeps its symbol, and the new one is deleted.
Dir_equ(line) ==
  LET entries == WithMentions(line.expr)
      before == entries[line.name]
      free == Free(before)
  IN  /\ Reading /\ line.op = "equ"
      /\ heap' = heap \o NodesOf(line.expr)
      /\ symbols' = IF ~free THEN entries
                    ELSE [entries EXCEPT ![line.name] =
                            [type |-> "UNDEFINED", section |-> current_section,
                             expr |-> Root(line.expr)]]
      /\ error_count' = error_count + Count(~free)
      /\ ast' = Append(ast, Statement(line, Root(line.expr), 0, before = Absent))
      /\ UNCHANGED <<sectionVars, stack, ok, phase, pc, pending, warning_count, garbage>>

\* A directive whose size is known when it is met.
Reserve(line, size) ==
  /\ Reading
  /\ heap' = heap \o NodesOf(line.expr)
  /\ symbols' = WithMentions(line.expr)
  /\ ast' = Append(ast, Statement(line, Root(line.expr), size, TRUE))
  /\ S!Increase(size)
  /\ UNCHANGED <<stack, ok, phase, pc, pending, reports, garbage>>

\* .byte or .word of one value.
Dir_byte(line) == line.op = "data" /\ Reserve(line, 2)

\* 1 << n, where the processor counts modulo 32.
AlignUp(offset, n) ==
  LET unit == 2^(n % 32)
  IN  ((offset + unit - 1) \div unit) * unit

\* get_value of an expression nobody evaluated.
Unevaluated(expr) == Low16(Allocate(expr)[Len(expr)].value)

\* .align reads the value of its operand without evaluating it.
Dir_align(line) ==
  /\ line.op = "align"
  /\ Reserve(line, AlignUp(CurrentSize, Unevaluated(line.expr)) - CurrentSize)

\* Mutant: .space reads its operand as .align does.
Dir_spaceUnevaluated(line) ==
  line.op = "space" /\ Reserve(line, Unevaluated(line.expr))

\* .space evaluates its operand at once.
Dir_space(line) ==
  /\ Reading /\ line.op = "space"
  /\ heap' = heap \o NodesOf(line.expr)
  /\ symbols' = WithMentions(line.expr)
  /\ ast' = Append(ast, Statement(line, Root(line.expr), 0, TRUE))
  /\ Call(Root(line.expr))
  /\ pending' = "space"
  /\ UNCHANGED <<sectionVars, ok, phase, pc, reports, garbage>>

ParseLine(line) ==
  \/ SectionLine(line) \/ DefineLabel(line) \/ LabelTwice(line)
  \/ LabelAfterEqu(line) \/ Dir_equ(line) \/ Dir_byte(line) \/ Dir_align(line)
  \/ Dir_space(line)

Returned(statement) == pending = statement /\ stack = <<>> /\ phase # "crashed"

\* get_type never answers UNDEFINED after an evaluation.
FinishLabel ==
  LET this == ast[Len(ast)]
  IN  /\ Returned("label")
      /\ symbols' = [symbols EXCEPT ![this.name].type = heap[this.root].type]
      /\ error_count' = error_count + 1
      /\ pending' = "none"
      /\ UNCHANGED <<sectionVars, heap, stack, ok, ast, phase, pc, warning_count, garbage>>

FinishSpace ==
  LET this == ast[Len(ast)]
      size == IF ok THEN Low16(heap[this.root].value) ELSE 0
  IN  /\ Returned("space")
      /\ S!Increase(size)
      /\ ast' = [ast EXCEPT ![Len(ast)].size = size]
      /\ error_count' = error_count + Count(~ok)
      /\ pending' = "none"
      /\ UNCHANGED <<machine, phase, pc, warning_count, garbage>>

EndOfFile ==
  /\ phase = "parse" /\ pending = "none"
  /\ phase' = IF error_count > 0 THEN "exit" ELSE "generate"
  /\ UNCHANGED <<sectionVars, machine, ast, pc, pending, reports, garbage>>

-----------------------------------------------------------------------------
\* evaluate.  A frame is a node and the number of operands that returned.

Top == stack[Len(stack)]
Running == heap[Top.node]

\* Mutant: the branches are swapped.
OperandSwapped(node, k) ==
  IF node.op # "?:" THEN node.kids[k]
  ELSE IF k = 1 THEN node.kids[1]
  ELSE node.kids[IF Low16(heap[node.kids[1]].value) = 0 THEN 2 ELSE 3]

\* The k-th operand; the second one of a conditional is the branch chosen.
Operand(node, k) ==
  IF node.op # "?:" THEN node.kids[k]
  ELSE IF k = 1 THEN node.kids[1]
  ELSE node.kids[IF Low16(heap[node.kids[1]].value) # 0 THEN 2 ELSE 3]

\* A node is evaluated by its parent only, so the fields of the operands that
\* returned are still what they returned.
Result(i) == [type |-> heap[i].type, value |-> Low16(heap[i].value),
              symbol |-> heap[i].symbol, section |-> SectionOf(heap[i].symbol)]

Arity(node) == IF node.op = "?:" THEN 2 ELSE Len(node.kids)

\* The calls a node has still to make: an operand, after those before it
\* evaluated, or the expression of a symbol with no type yet.
NextCall ==
  IF Running.op = "identifier"
  THEN IF Top.done = 0 /\ Lazy(Running.name) THEN {symbols[Running.name].expr} ELSE {}
  ELSE IF /\ Top.done < Arity(Running)
          /\ Top.done > 0 => ok
          /\ Running.op = "?:" /\ Top.done = 1 =>
               heap[Running.kids[1]].type = "ABSOLUTE"
       THEN {Operand(Running, Top.done + 1)} ELSE {}

InCall == stack # <<>> /\ phase \in {"parse", "generate"}

Descend ==
  /\ InCall /\ Len(stack) < MaxDepth
  /\ \E node \in NextCall : Call(node)
  /\ UNCHANGED <<sectionVars, heap, symbols, ok, ast, phase, pc, pending, reports, garbage>>

\* The process stack is exhausted: the program is killed.
StackOverflow ==
  /\ InCall /\ Len(stack) = MaxDepth /\ NextCall # {}
  /\ phase' = "crashed"
  /\ UNCHANGED <<sectionVars, machine, ast, pc, pending, reports, garbage>>

\* The caller that waits counts one operand more.
PoppedStack ==
  LET below == SubSeq(stack, 1, Len(stack) - 1)
  IN  IF below = <<>> THEN below ELSE [below EXCEPT ![Len(below)].done = @ + 1]

Return(outcome) ==
  /\ InCall /\ NextCall = {}
  /\ heap' = [heap EXCEPT ![Top.node].type = outcome.type,
                          ![Top.node].value = outcome.value,
                          ![Top.node].symbol = outcome.symbol]
  /\ ok' = outcome.ok
  /\ error_count' = error_count + outcome.errors
  /\ warning_count' = warning_count + outcome.warnings
  /\ stack' = PoppedStack
  /\ UNCHANGED <<sectionVars, ast, phase, pc, pending, garbage>>

EvaluateValue ==
  /\ InCall /\ Running.op = "value"
  /\ Return(Checked("ABSOLUTE", Running.value, ""))
  /\ UNCHANGED symbols

\* The type get_type gives a symbol, once its expression returned.
TypeNow(name) == IF Lazy(name) THEN heap[symbols[name].expr].type
                 ELSE symbols[name].type

\* Symbol::get_value
SymbolValue(name) == Low16(heap[symbols[name].expr].value)

EvaluateIdentifier ==
  LET name == Running.name
      type == TypeNow(name)
  IN  /\ InCall /\ Running.op = "identifier"
      /\ Return(CASE type = "UNDEFINED" -> Refused(Running.value)
                  [] type = "INVALID" -> Failed("INVALID", Running.value)
                  [] OTHER -> Settled(type, SymbolValue(name), name))
      /\ symbols' = [symbols EXCEPT ![name].type = type]

Operation == Running.op \notin {"value", "identifier"}

\* An operand did not evaluate: the node takes its type and says no more.
FailWithOperand ==
  /\ InCall /\ Operation /\ Top.done > 0 /\ ~ok
  /\ Return(Failed(IF Running.op = "?:" THEN "INVALID"
                   ELSE heap[Operand(Running, Top.done)].type, Running.value))
  /\ UNCHANGED symbols

EvaluateOperation ==
  /\ InCall /\ Operation /\ ok /\ Top.done > 0
  /\ Return(OperationOutcome(Running.op,
                             [k \in 1 .. Top.done |-> Result(Operand(Running, k))],
                             Running.value))
  /\ UNCHANGED symbols

Evaluate == Descend \/ StackOverflow \/ EvaluateValue \/ EvaluateIdentifier
            \/ FailWithOperand \/ EvaluateOperation

-----------------------------------------------------------------------------
\* The code generator.

This == ast[pc]

Visiting == phase = "generate" /\ pending = "none" /\ pc <= Len(ast)

\* Section directives and labels alone; a .equ whose symbol has its type.
VisitNothing ==
  /\ Visiting
  /\ \/ This.op \in {"section", "label"}
     \/ This.op = "equ" /\ This.live /\ ~Lazy(This.name)
     \/ This.op = "equ" /\ ~This.live
  /\ pc' = pc + 1
  /\ UNCHANGED <<sectionVars, machine, ast, phase, pending, reports, garbage>>

\* A .equ not evaluated yet; the test of a deleted symbol may go either way.
VisitEvaluates ==
  /\ Visiting
  /\ \/ This.op \in {"data", "space", "align"}
     \/ This.op = "equ" /\ (This.live => Lazy(This.name))
  /\ Call(This.root)
  /\ pending' = "visit"
  /\ UNCHANGED <<sectionVars, heap, symbols, ok, ast, phase, pc, reports, garbage>>

FinishVisit ==
  LET root == heap[This.root]
      isLabel == ok /\ root.type = "LABEL"
  IN  /\ Returned("visit")
      /\ symbols' = IF This.op = "equ" /\ This.live
                    THEN [symbols EXCEPT ![This.name].type = root.type] ELSE symbols
      /\ ast' = [ast EXCEPT ![pc].result =
                   [ok |-> ok, type |-> root.type, value |-> Low16(root.value),
                    symbol |-> root.symbol]]
      /\ error_count' = error_count + Count(isLabel /\ This.op \in {"space", "align"})
      /\ pc' = pc + 1 /\ pending' = "none"
      /\ UNCHANGED <<sectionVars, heap, stack, ok, phase, warning_count, garbage>>

EndOfCode ==
  /\ phase = "generate" /\ pending = "none" /\ pc > Len(ast)
  /\ phase' = IF error_count > 0 THEN "exit" ELSE "done"
  /\ UNCHANGED <<sectionVars, machine, ast, pc, pending, reports, garbage>>

-----------------------------------------------------------------------------
Init == /\ S!Init
        /\ heap = <<>> /\ symbols = [n \in AllNames |-> Absent]
        /\ ast = <<>> /\ phase = "parse" /\ pc = 1
        /\ stack = <<>> /\ pending = "none" /\ ok = TRUE
        /\ error_count = 0 /\ warning_count = 0
        /\ garbage \in Garbage

Next == \/ \E line \in Lines : ParseLine(line)
        \/ FinishLabel \/ FinishSpace \/ EndOfFile
        \/ Evaluate
        \/ VisitNothing \/ VisitEvaluates \/ FinishVisit \/ EndOfCode

Spec == Init /\ [][Next]_vars

-----------------------------------------------------------------------------
\* The value an expression has, computed at once from the definitions as they
\* are at the end, with nothing kept: what evaluation on demand must agree with.
\* Symbols are replaced at most as many times as there are names.

DefinedByLabel(name) ==
  symbols[name].type = "LABEL" /\ heap[symbols[name].expr].op = "value"

NoMeaning == Failed("INVALID", 0)

Meaning[level \in 0 .. Cardinality(AllNames), i \in 1 .. Len(heap)] ==
  LET node == heap[i]
      of(k) == LET m == Meaning[level, k]
               IN  [ok |-> m.ok, type |-> m.type, value |-> Low16(m.value),
                    symbol |-> m.symbol, section |-> SectionOf(m.symbol)]
      kids == [k \in DOMAIN node.kids |-> of(node.kids[k])]
      args == IF node.op # "?:" THEN kids
              ELSE <<kids[1], IF kids[1].value # 0 THEN kids[2] ELSE kids[3]>>
  IN  CASE node.op = "value" -> Checked("ABSOLUTE", node.value, "")
        [] node.op = "identifier" ->
             IF DefinedByLabel(node.name)
             THEN Settled("LABEL", SymbolValue(node.name), node.name)
             ELSE IF Free(symbols[node.name]) \/ level = 0 THEN NoMeaning
             ELSE [Meaning[level - 1, symbols[node.name].expr] EXCEPT !.symbol = node.name]
        [] OTHER -> IF \A k \in DOMAIN args : args[k].ok
                    THEN OperationOutcome(node.op, args, 0)
                    ELSE NoMeaning

-----------------------------------------------------------------------------
Position == 1 .. Len(heap)

\* What the assertions of Unary_expression and Binary_expression say of the
\* operands that evaluated.
OperandsAreTyped ==
  InCall /\ ok =>
    \A k \in 1 .. Top.done :
      heap[IF Running.op = "identifier" THEN symbols[Running.name].expr
           ELSE Operand(Running, k)].type \in {"ABSOLUTE", "LABEL"}

\* Types of the state, and of the operands a running call has.
TypeOK ==
  /\ OperandsAreTyped
  /\ S!TypeOK
  /\ \A i \in Position :
       /\ heap[i].type \in Types \cup {"unset"} /\ heap[i].value \in Int
       /\ \A k \in DOMAIN heap[i].kids : heap[i].kids[k] \in 1 .. i - 1
  /\ symbols \in [AllNames -> [type : Types \cup {"absent"},
                               section : 0 .. Len(table), expr : 0 .. Len(heap)]]
  /\ phase \in {"parse", "generate", "done", "exit", "crashed"}
  /\ pc \in 1 .. Len(ast) + 1
  /\ pending \in {"none", "label", "space", "visit"} /\ ok \in BOOLEAN
  /\ \A k \in DOMAIN stack : stack[k].node \in Position
  /\ stack # <<>> => pending # "none"
  /\ error_count \in Nat /\ warning_count \in Nat

\* A definition is for ever: once a name has an expression neither it nor the
\* section changes, and a type given by an evaluation is never given again, however
\* uses, labels and .equ of the name follow each other (Dir_equ and add_label
\* test; Symbol::get_type assigns).
DefinitionsAreFinal ==
  [][\A n \in AllNames :
       ~Free(symbols[n]) =>
         /\ symbols'[n].expr = symbols[n].expr
         /\ symbols'[n].section = symbols[n].section
         /\ symbols[n].type # "UNDEFINED" => symbols'[n].type = symbols[n].type]_vars

\* No failure goes unreported, although a symbol that failed is silent at its
\* later uses: an operand without a value, or a symbol marked INVALID, comes with
\* an error or a warning before it.
FailuresAreReported ==
  \/ error_count + warning_count > 0
  \/ /\ \A n \in AllNames : symbols[n].type # "INVALID"
     /\ \A j \in 1 .. pc - 1 :
          ast[j].op \in {"data", "space", "align"} => ast[j].result.ok

\* Evaluation on demand cannot be told from evaluation at the end: without a
\* report, every operand was given the value its expression means, though some
\* were evaluated before later lines and some read from what an earlier use left.
DemandIsTransparent ==
  phase = "done" /\ error_count + warning_count = 0 =>
    \A j \in DOMAIN ast :
      ast[j].op \in {"data", "space", "align"} =>
        LET meant == Meaning[Cardinality(AllNames), ast[j].root]
        IN  /\ meant.ok
            /\ ast[j].result.type = meant.type
            /\ ast[j].result.value = Low16(meant.value)
            /\ meant.type = "LABEL" => ast[j].result.symbol = meant.symbol

\* .space evaluates its size while parsing, to reserve, and again when visited,
\* to fill: the two agree, whatever was defined in between and even when the
\* value was only warned about.
SpaceFillsWhatItReserved ==
  phase \in {"generate", "done"} =>
    \A j \in 1 .. pc - 1 :
      ast[j].op = "space" => /\ ast[j].result.ok
                             /\ ast[j].result.value = ast[j].size

-----------------------------------------------------------------------------
\* A claim of the source that the code does not keep.

\* The value of a LABEL is relative to the section of its label ("LABEL - endereço
\* relativo à secção a que esta label pertence", value_type.h 24), and a .equ
\* has no section of its own ("Um simbolo equ não pertence a uma secção",
\* directive.cpp 206): another name of a label is in the label's section.
AliasesKeepTheSection ==
  \A n \in AllNames :
    symbols[n].type = "LABEL" =>
      LET node == heap[symbols[n].expr]
      IN  node.op = "identifier" => symbols[n].section = symbols[node.name].section
=============================================================================
