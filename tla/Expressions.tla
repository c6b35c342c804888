----------------------------- MODULE Expressions -----------------------------
(***************************************************************************)
(* What the operators of p16as compute (src/src/expression.cpp): from the  *)
(* types and the 16-bit values of operands that evaluated, the type, the   *)
(* value and the reports of the operation.  No state: module Evaluation    *)
(* says when operands are evaluated and where results are kept.            *)
(***************************************************************************)
EXTENDS Integers

Types == {"ABSOLUTE", "LABEL", "UNDEFINED", "INVALID"}

\* get_value returns the int `value` as a uint16_t.
Low16(value) == value % 65536

\* (abs(value) & ~mask) == 0
Fits(value) == value \in -65535 .. 65535

\* What evaluate leaves in its node, returns and reports.  `symbol` is what
\* get_symbol finds from the types left in the node and its operands.
Outcome(ok, type, value, symbol, errors, warnings) ==
  [ok |-> ok, type |-> type, value |-> value, symbol |-> symbol,
   errors |-> errors, warnings |-> warnings]

Settled(type, value, symbol) == Outcome(TRUE, type, value, symbol, 0, 0)

\* Mutants: a failure that succeeds, and one that says nothing.
FailedTrue(type, old) == Outcome(TRUE, type, old, "", 0, 0)
RefusedSilently(old) == Outcome(FALSE, "INVALID", old, "", 0, 0)

\* A failure keeps whatever the node held as value.
Failed(type, old) == Outcome(FALSE, type, old, "", 0, 0)
Refused(old) == Outcome(FALSE, "INVALID", old, "", 1, 0)

\* A result too wide is stored with a warning, and the evaluation fails.
Checked(type, value, symbol) ==
  IF Fits(value) THEN Settled(type, value, symbol)
  ELSE Outcome(FALSE, type, value, symbol, 0, 1)

\* An addition too wide is an error.
CheckedSum(type, value, symbol) ==
  IF Fits(value) THEN Settled(type, value, symbol)
  ELSE Outcome(FALSE, type, value, symbol, 1, 0)

-----------------------------------------------------------------------------
Unary == {"+_", "-_", "~_", "!_"}
WordOps == {"*", "/", "%", "<<", ">>", "&", "^", "|", "&&", "||"}
Relational == {"<", ">", "<=", ">=", "==", "!="}
Operators == {"value", "identifier", "()", "?:", "+", "-"} \cup Unary \cup WordOps
             \cup Relational

\* The operands an expression has.
Operands(op) == CASE op \in {"value", "identifier"} -> 0
                  [] op \in Unary \cup {"()"} -> 1
                  [] op = "?:" -> 3
                  [] OTHER -> 2

Truth(condition) == IF condition THEN 1 ELSE 0

UnaryValue(op, v) ==
  CASE op = "+_" -> v
    [] op = "-_" -> -v
    [] op = "~_" -> -v - 1
    [] op = "!_" -> Truth(v = 0)

Bit(v, i) == (v \div 2^i) % 2

\* l & r; the other bitwise operators are sums of it.
BitAnd(l, r) ==
  LET both(i) == 2^i * Bit(l, i) * Bit(r, i)
  IN  both(0) + both(1) + both(2) + both(3) + both(4) + both(5) + both(6) + both(7)
      + both(8) + both(9) + both(10) + both(11) + both(12) + both(13) + both(14) + both(15)

\* l << r on an int: the processor counts modulo 32 and drops what leaves the
\* 32 bits, so a large shift may leave a value that fits.
ShiftLeft(l, r) ==
  LET n == r % 32
      kept == IF n < 16 THEN l ELSE l % 2^(32 - n)
  IN  IF n >= 16 /\ kept >= 2^(31 - n) THEN (kept - 2^(32 - n)) * 2^n
      ELSE kept * 2^n

ShiftRight(l, r) == IF r % 32 > 15 THEN 0 ELSE l \div 2^(r % 32)

\* A product past 31 bits wraps, and neither it nor its wrapped value fits.
WordValue(op, l, r) ==
  CASE op = "*"  -> l * r
    [] op = "/"  -> l \div r
    [] op = "%"  -> l % r
    [] op = "<<" -> ShiftLeft(l, r)
    [] op = ">>" -> ShiftRight(l, r)
    [] op = "&"  -> BitAnd(l, r)
    [] op = "^"  -> l + r - 2 * BitAnd(l, r)
    [] op = "|"  -> l + r - BitAnd(l, r)
    [] op = "&&" -> Truth(l # 0 /\ r # 0)
    [] op = "||" -> Truth(l # 0 \/ r # 0)

RelationalValue(op, l, r) ==
  CASE op = "<"  -> Truth(l < r)
    [] op = ">"  -> Truth(l > r)
    [] op = "<=" -> Truth(l <= r)
    [] op = ">=" -> Truth(l >= r)
    [] op = "==" -> Truth(l = r)
    [] op = "!=" -> Truth(l # r)

-----------------------------------------------------------------------------
\* Operands are records with type, value (16 bits), symbol and section.

UnaryOutcome(op, a, old) ==
  IF a.type = "LABEL" THEN Refused(old)
  ELSE Checked(a.type, UnaryValue(op, a.value), a.symbol)

\* A label moved by a number is a label, and names the same symbol.
MovedSymbol(l, r) ==
  CASE l.type = "LABEL" /\ r.type = "ABSOLUTE" -> l.symbol
    [] l.type = "ABSOLUTE" /\ r.type = "LABEL" -> r.symbol
    [] OTHER -> ""

BinaryOutcome(op, l, r, old) ==
  LET some  == l.type = "LABEL" \/ r.type = "LABEL"
      both  == l.type = "LABEL" /\ r.type = "LABEL"
      one   == some /\ ~both
      apart == both /\ l.section # r.section
      type  == IF one THEN "LABEL" ELSE "ABSOLUTE"
  IN  CASE op \in WordOps ->
             IF some \/ (op \in {"/", "%"} /\ r.value = 0) THEN Refused(old)
             ELSE Checked("ABSOLUTE", WordValue(op, l.value, r.value), "")
        [] op = "+" ->
             IF both THEN Refused(old)
             ELSE CheckedSum(type, l.value + r.value, MovedSymbol(l, r))
        [] op = "-" ->
             IF apart THEN Refused(old)
             ELSE Checked(type, l.value - r.value, MovedSymbol(l, r))
        [] op \in Relational ->
             IF apart \/ one THEN Refused(old)
             ELSE Settled("ABSOLUTE", RelationalValue(op, l.value, r.value), "")

\* The outcome of an operation all of whose operands evaluated.  The operands
\* of a conditional are the test and the branch it chose, or the test alone
\* when it is not a number.
OperationOutcome(op, args, old) ==
  CASE op = "()" -> Settled(args[1].type, args[1].value, args[1].symbol)
    [] op \in Unary -> UnaryOutcome(op, args[1], old)
    [] op = "?:" -> IF args[1].type # "ABSOLUTE" THEN Refused(old)
                    ELSE Settled(args[2].type, args[2].value, args[2].symbol)
    [] OTHER -> BinaryOutcome(op, args[1], args[2], old)
=============================================================================
