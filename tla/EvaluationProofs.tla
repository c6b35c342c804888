-------------------------- MODULE EvaluationProofs --------------------------
(***************************************************************************)
(* Proofs about Evaluation, for programs of any length over any names and   *)
(* any expressions of the grammar, whatever uninitialised memory holds.     *)
(***************************************************************************)
EXTENDS Evaluation, NumberLemmas

-----------------------------------------------------------------------------
\* What an operation leaves, returns and reports.

\* The types a node may have: evaluate never stores UNDEFINED.
HeapTypes == {"ABSOLUTE", "LABEL", "INVALID", "unset"}

\* Operands of certain types, which come from certain symbols.
Argument(types, names) == [type : types, value : Word, symbol : names, section : Nat]

\* A failure is always reported, and only a failure.
IsOutcome(o, types, names) ==
  /\ o \in [ok : BOOLEAN, type : types \cup {"INVALID"}, value : Int, symbol : names,
            errors : {0, 1}, warnings : {0, 1}]
  /\ o.ok <=> o.errors = 0 /\ o.warnings = 0
  /\ o.ok => o.type \in types

LEMMA WordIsNumber ==
  ASSUME NEW v \in Word
  PROVE  v \in Nat /\ v \in Int /\ (v # 0 => v \in Nat \ {0})
<1>1. v \in Nat
  BY DEF Word
<1> QED BY <1>1

LEMMA Low16Type ==
  ASSUME NEW v \in Int
  PROVE  Low16(v) \in Word
BY DEF Low16, Word

LEMMA TruthType ==
  ASSUME NEW c \in BOOLEAN
  PROVE  Truth(c) \in 0 .. 1
BY DEF Truth

LEMMA BitType ==
  ASSUME NEW v \in Word, NEW i \in 0 .. 15
  PROVE  2^i * Bit(v, i) \in Nat /\ Bit(v, i) \in 0 .. 1
<1> DEFINE d == 2^i
           q == v \div d
<1>1. d \in Nat \ {0}
  <2>1. i \in 0 .. 31
    OBVIOUS
  <2> QED BY <2>1, PowersArePositive, Zenon
<1>2. v \in Int
  BY DEF Word
<1> HIDE DEF d
<1>3. q \in Int
  BY <1>1, <1>2, QuotientAndRest
<1> HIDE DEF q
<1>4. q % 2 \in 0 .. 1
  BY <1>3
<1>5. Bit(v, i) = q % 2
  BY DEF Bit, q, d
<1>6. Bit(v, i) \in 0 .. 1
  BY <1>4, <1>5
<1>7. d * Bit(v, i) \in Nat
  BY <1>1, <1>6
<1> QED BY <1>6, <1>7 DEF d

LEMMA BitAndType ==
  ASSUME NEW l \in Word, NEW r \in Word
  PROVE  BitAnd(l, r) \in Nat
<1> DEFINE both(i) == 2^i * Bit(l, i) * Bit(r, i)
<1>1. ASSUME NEW i \in 0 .. 15
      PROVE  both(i) \in Nat
  <2> DEFINE a == 2^i * Bit(l, i)
             b == Bit(r, i)
  <2>1. a \in Nat /\ b \in 0 .. 1
    BY BitType
  <2>2. both(i) = a * b
    OBVIOUS
  <2> HIDE DEF a, b
  <2> QED BY <2>1, <2>2
<1>2. BitAnd(l, r) =
        both(0) + both(1) + both(2) + both(3) + both(4) + both(5) + both(6) + both(7)
        + both(8) + both(9) + both(10) + both(11) + both(12) + both(13) + both(14) + both(15)
  BY DEF BitAnd
<1> HIDE DEF both
<1>3. /\ both(0) \in Nat /\ both(1) \in Nat /\ both(2) \in Nat /\ both(3) \in Nat
      /\ both(4) \in Nat /\ both(5) \in Nat /\ both(6) \in Nat /\ both(7) \in Nat
      /\ both(8) \in Nat /\ both(9) \in Nat /\ both(10) \in Nat /\ both(11) \in Nat
      /\ both(12) \in Nat /\ both(13) \in Nat /\ both(14) \in Nat /\ both(15) \in Nat
  BY <1>1
<1> DEFINE low == both(0) + both(1) + both(2) + both(3) + both(4) + both(5) + both(6) + both(7)
<1>4. low \in Nat
  BY <1>3
<1>5. BitAnd(l, r) = low + both(8) + both(9) + both(10) + both(11) + both(12) + both(13)
                     + both(14) + both(15)
  BY <1>2, Zenon
<1> HIDE DEF low
<1> QED BY <1>3, <1>4, <1>5

LEMMA ShiftTypes ==
  ASSUME NEW l \in Word, NEW r \in Word
  PROVE  ShiftLeft(l, r) \in Int /\ ShiftRight(l, r) \in Int
<1> DEFINE n == r % 32
           u == 2^n
           w == 2^(32 - n)
           kept == IF n < 16 THEN l ELSE l % w
<1>1. n \in 0 .. 31 /\ l \in Int
  <2>1. l \in Int /\ r \in Int
    BY DEF Word
  <2> QED BY <2>1, SMT
<1>2. u \in Nat \ {0}
  BY <1>1, PowersArePositive
<1> HIDE DEF n
<1>3. kept \in Int /\ (n >= 16 => w \in Nat \ {0})
  <2>1. CASE n < 16
    BY <2>1, <1>1
  <2>2. CASE ~(n < 16)
    <3>1. 32 - n \in 0 .. 31
      BY <2>2, <1>1
    <3>2. w \in Nat \ {0}
      BY <3>1, PowersArePositive
    <3> HIDE DEF w
    <3>3. l % w \in 0 .. w - 1
      BY <3>2, <1>1, QuotientAndRest
    <3>4. l % w \in Int
      BY <3>2, <3>3
    <3> QED BY <2>2, <3>2, <3>4
  <2> QED BY <2>1, <2>2
<1>4. /\ ShiftLeft(l, r) = (IF n >= 16 /\ kept >= 2^(31 - n) THEN (kept - w) * u ELSE kept * u)
      /\ ShiftRight(l, r) = (IF n > 15 THEN 0 ELSE l \div u)
  BY DEF ShiftLeft, ShiftRight, n
<1> HIDE DEF u, w, kept
<1>5. kept * u \in Int /\ (n >= 16 => (kept - w) * u \in Int)
  BY <1>2, <1>3
<1>6. l \div u \in Int
  BY <1>1, <1>2, QuotientAndRest
<1> QED BY <1>4, <1>5, <1>6

LEMMA WordValueType ==
  ASSUME NEW op \in WordOps, NEW l \in Word, NEW r \in Word,
         op \in {"/", "%"} => r # 0
  PROVE  WordValue(op, l, r) \in Int
<1>1. l \in Int /\ r \in Int /\ (r # 0 => r \in Nat \ {0})
  BY WordIsNumber
<1>2. l * r \in Int
  BY <1>1
<1>3. r # 0 => l \div r \in Int /\ l % r \in Int
  BY <1>1, QuotientAndRest
<1>4. ShiftLeft(l, r) \in Int /\ ShiftRight(l, r) \in Int /\ BitAnd(l, r) \in Int
  BY ShiftTypes, BitAndType
<1>5. l + r - 2 * BitAnd(l, r) \in Int /\ l + r - BitAnd(l, r) \in Int
  BY <1>1, <1>4
<1>6. Truth(l # 0 /\ r # 0) \in Int /\ Truth(l # 0 \/ r # 0) \in Int
  BY DEF Truth
<1> HIDE DEF WordValue
<1>7. CASE op = "*"
  BY <1>7, <1>2 DEF WordValue
<1>8. CASE op = "/"
  BY <1>8, <1>3 DEF WordValue
<1>9. CASE op = "%"
  BY <1>9, <1>3 DEF WordValue
<1>10. CASE op \in {"<<", ">>", "&", "^", "|", "&&", "||"}
  BY <1>10, <1>4, <1>5, <1>6 DEF WordValue
<1> QED BY <1>7, <1>8, <1>9, <1>10 DEF WordOps

LEMMA RelationalValueType ==
  ASSUME NEW op \in Relational, NEW l \in Word, NEW r \in Word
  PROVE  RelationalValue(op, l, r) \in Int
<1>1. l \in Int /\ r \in Int
  BY WordIsNumber
<1> QED BY <1>1 DEF RelationalValue, Relational, Truth

LEMMA SuccessIsOutcome ==
  ASSUME NEW types, NEW names, NEW type \in types, NEW value \in Int, NEW symbol \in names
  PROVE  IsOutcome(Outcome(TRUE, type, value, symbol, 0, 0), types, names)
BY DEF Outcome, IsOutcome

LEMMA FailureIsOutcome ==
  ASSUME NEW types, NEW names, NEW type \in types \cup {"INVALID"}, NEW value \in Int,
         NEW symbol \in names
  PROVE  /\ IsOutcome(Outcome(FALSE, type, value, symbol, 1, 0), types, names)
         /\ IsOutcome(Outcome(FALSE, type, value, symbol, 0, 1), types, names)
<1>1. IsOutcome(Outcome(FALSE, type, value, symbol, 1, 0), types, names)
  BY DEF Outcome, IsOutcome
<1>2. IsOutcome(Outcome(FALSE, type, value, symbol, 0, 1), types, names)
  BY DEF Outcome, IsOutcome
<1> QED BY <1>1, <1>2

LEMMA OutcomeTypes ==
  ASSUME NEW types, NEW names, NEW type \in types, NEW value \in Int, NEW symbol \in names,
         "" \in names
  PROVE  /\ IsOutcome(Settled(type, value, symbol), types, names)
         /\ IsOutcome(Checked(type, value, symbol), types, names)
         /\ IsOutcome(CheckedSum(type, value, symbol), types, names)
         /\ IsOutcome(Refused(value), types, names)
<1>1. type \in types \cup {"INVALID"} /\ "INVALID" \in types \cup {"INVALID"}
  OBVIOUS
<1> QED BY <1>1, SuccessIsOutcome, FailureIsOutcome, Zenon DEF Settled, Checked, CheckedSum, Refused

LEMMA NumberTypes ==
  ASSUME NEW l \in Int, NEW r \in Int, NEW c \in BOOLEAN
  PROVE  /\ l + r \in Int /\ l - r \in Int /\ -l \in Int /\ -l - 1 \in Int
         /\ Truth(c) \in Int
BY DEF Truth

\* What an operation on two operands may be: refused, or a result that has
\* nothing to do with the value the node had.
LEMMA WordCases ==
  ASSUME NEW op \in WordOps, NEW l, NEW r
  PROVE  \/ \A old : BinaryOutcome(op, l, r, old) = Refused(old)
         \/ /\ op \in {"/", "%"} => r.value # 0
            /\ \A old : BinaryOutcome(op, l, r, old) =
                          Checked("ABSOLUTE", WordValue(op, l.value, r.value), "")
<1> DEFINE refused == l.type = "LABEL" \/ r.type = "LABEL" \/ (op \in {"/", "%"} /\ r.value = 0)
<1>1. op # "+" /\ op # "-" /\ op \notin Relational
  BY DEF WordOps, Relational
<1>2. CASE refused
  <2>1. ASSUME NEW old
        PROVE  BinaryOutcome(op, l, r, old) = Refused(old)
    BY <1>1, <1>2 DEF BinaryOutcome
  <2> HIDE DEF refused
  <2> QED BY <2>1, Zenon
<1>3. CASE ~refused
  <2>1. ASSUME NEW old
        PROVE  BinaryOutcome(op, l, r, old) = Checked("ABSOLUTE", WordValue(op, l.value, r.value), "")
    BY <1>1, <1>3 DEF BinaryOutcome
  <2>2. op \in {"/", "%"} => r.value # 0
    BY <1>3
  <2> HIDE DEF refused
  <2> QED BY <2>1, <2>2, Zenon
<1> QED BY <1>2, <1>3

LEMMA SumCases ==
  ASSUME NEW l, NEW r
  PROVE  \/ \A old : BinaryOutcome("+", l, r, old) = Refused(old)
         \/ \E type \in {"ABSOLUTE", "LABEL"} :
              \A old : BinaryOutcome("+", l, r, old) =
                         CheckedSum(type, l.value + r.value, MovedSymbol(l, r))
<1> DEFINE type == IF (l.type = "LABEL" \/ r.type = "LABEL")
                      /\ ~(l.type = "LABEL" /\ r.type = "LABEL")
                   THEN "LABEL" ELSE "ABSOLUTE"
<1>1. "+" \notin WordOps /\ "+" \notin Relational
  BY DEF WordOps, Relational
<1>2. CASE l.type = "LABEL" /\ r.type = "LABEL"
  <2>1. ASSUME NEW old
        PROVE  BinaryOutcome("+", l, r, old) = Refused(old)
    BY <1>1, <1>2 DEF BinaryOutcome
  <2> QED BY <2>1, Zenon
<1>3. CASE ~(l.type = "LABEL" /\ r.type = "LABEL")
  <2>1. ASSUME NEW old
        PROVE  BinaryOutcome("+", l, r, old) =
                 CheckedSum(type, l.value + r.value, MovedSymbol(l, r))
    BY <1>1, <1>3 DEF BinaryOutcome
  <2>2. type \in {"ABSOLUTE", "LABEL"}
    OBVIOUS
  <2> HIDE DEF type
  <2> QED BY <2>1, <2>2, Zenon
<1> QED BY <1>2, <1>3

LEMMA DifferenceCases ==
  ASSUME NEW l, NEW r
  PROVE  \/ \A old : BinaryOutcome("-", l, r, old) = Refused(old)
         \/ \E type \in {"ABSOLUTE", "LABEL"} :
              \A old : BinaryOutcome("-", l, r, old) =
                         Checked(type, l.value - r.value, MovedSymbol(l, r))
<1> DEFINE type == IF (l.type = "LABEL" \/ r.type = "LABEL")
                      /\ ~(l.type = "LABEL" /\ r.type = "LABEL")
                   THEN "LABEL" ELSE "ABSOLUTE"
<1>1. "-" \notin WordOps /\ "-" \notin Relational
  BY DEF WordOps, Relational
<1>2. CASE l.type = "LABEL" /\ r.type = "LABEL" /\ l.section # r.section
  <2>1. ASSUME NEW old
        PROVE  BinaryOutcome("-", l, r, old) = Refused(old)
    BY <1>1, <1>2 DEF BinaryOutcome
  <2> QED BY <2>1, Zenon
<1>3. CASE ~(l.type = "LABEL" /\ r.type = "LABEL" /\ l.section # r.section)
  <2>1. ASSUME NEW old
        PROVE  BinaryOutcome("-", l, r, old) =
                 Checked(type, l.value - r.value, MovedSymbol(l, r))
    BY <1>1, <1>3 DEF BinaryOutcome
  <2>2. type \in {"ABSOLUTE", "LABEL"}
    OBVIOUS
  <2> HIDE DEF type
  <2> QED BY <2>1, <2>2, Zenon
<1> QED BY <1>2, <1>3

LEMMA RelationalCases ==
  ASSUME NEW op \in Relational, NEW l, NEW r
  PROVE  \/ \A old : BinaryOutcome(op, l, r, old) = Refused(old)
         \/ \A old : BinaryOutcome(op, l, r, old) =
                       Settled("ABSOLUTE", RelationalValue(op, l.value, r.value), "")
<1> DEFINE some == l.type = "LABEL" \/ r.type = "LABEL"
           both == l.type = "LABEL" /\ r.type = "LABEL"
           refused == (both /\ l.section # r.section) \/ (some /\ ~both)
<1>1. op # "+" /\ op # "-" /\ op \notin WordOps
  BY DEF WordOps, Relational
<1>2. CASE refused
  <2>1. ASSUME NEW old
        PROVE  BinaryOutcome(op, l, r, old) = Refused(old)
    BY <1>1, <1>2 DEF BinaryOutcome
  <2> HIDE DEF refused
  <2> QED BY <2>1, Zenon
<1>3. CASE ~refused
  <2>1. ASSUME NEW old
        PROVE  BinaryOutcome(op, l, r, old) =
                 Settled("ABSOLUTE", RelationalValue(op, l.value, r.value), "")
    BY <1>1, <1>3 DEF BinaryOutcome
  <2> HIDE DEF refused
  <2> QED BY <2>1, Zenon
<1> QED BY <1>2, <1>3

\* Every operation either succeeds without a report, with a type its operands
\* may have, or fails with one.
LEMMA OperationOutcomeType ==
  ASSUME NEW types, {"ABSOLUTE", "LABEL"} \subseteq types, NEW names, "" \in names,
         NEW op \in Operators \ {"value", "identifier"}, NEW args, NEW old \in Int,
         args[1] \in Argument(types, names),
         Operands(op) = 2 => args[2] \in Argument(types, names),
         op = "?:" /\ args[1].type = "ABSOLUTE" => args[2] \in Argument(types, names)
  PROVE  IsOutcome(OperationOutcome(op, args, old), types, names)
<1> DEFINE l == args[1]
           r == args[2]
<1>1. /\ l.type \in types /\ l.value \in Word /\ l.symbol \in names
      /\ r \in Argument(types, names) => r.type \in types /\ r.value \in Word /\ r.symbol \in names
  BY DEF Argument
<1>2. /\ l.value \in Int
      /\ r \in Argument(types, names) => r.value \in Int
  BY <1>1, WordIsNumber
<1>3. IsOutcome(Refused(old), types, names)
  BY OutcomeTypes
<1>4. CASE op = "()"
  <2>1. OperationOutcome(op, args, old) = Settled(l.type, l.value, l.symbol)
    BY <1>4 DEF OperationOutcome, Unary
  <2> QED BY <1>1, <1>2, <2>1, OutcomeTypes
<1>5. CASE op \in Unary
  <2>1. OperationOutcome(op, args, old) = UnaryOutcome(op, l, old)
    BY <1>5 DEF OperationOutcome, Unary
  <2>2. UnaryValue(op, l.value) \in Int
    <3> DEFINE v == l.value
    <3>1. v \in Int
      BY <1>2
    <3> HIDE DEF v
    <3>2. v \in Int /\ -v \in Int /\ -v - 1 \in Int /\ Truth(v = 0) \in Int
      <4>1. (v = 0) \in BOOLEAN
        OBVIOUS
      <4> QED BY <3>1, <4>1, NumberTypes, Zenon
    <3>3. UnaryValue(op, v) \in Int
      BY <1>5, <3>2 DEF UnaryValue, Unary
    <3> QED BY <3>3 DEF v
  <2>3. IsOutcome(Checked(l.type, UnaryValue(op, l.value), l.symbol), types, names)
    BY <1>1, <2>2, OutcomeTypes
  <2> QED BY <1>3, <2>1, <2>3 DEF UnaryOutcome
<1>6. CASE op = "?:"
  <2>1. OperationOutcome(op, args, old) =
          IF l.type # "ABSOLUTE" THEN Refused(old) ELSE Settled(r.type, r.value, r.symbol)
    BY <1>6 DEF OperationOutcome, Unary
  <2>2. l.type = "ABSOLUTE" => IsOutcome(Settled(r.type, r.value, r.symbol), types, names)
    BY <1>1, <1>2, <1>6, OutcomeTypes
  <2> QED BY <1>3, <2>1, <2>2
<1>7. CASE op \in {"+", "-"} \cup WordOps \cup Relational
  <2>1. op \notin Unary /\ op # "()" /\ op # "?:" /\ Operands(op) = 2
    BY <1>7 DEF Operands, Unary, WordOps, Relational
  <2>2. OperationOutcome(op, args, old) = BinaryOutcome(op, l, r, old)
    BY <2>1 DEF OperationOutcome
  <2>3. /\ r.type \in types /\ r.value \in Word /\ r.symbol \in names
        /\ l.value \in Int /\ r.value \in Int
    BY <1>1, <1>2, <2>1
  <2>4. MovedSymbol(l, r) \in names
    BY <1>1, <2>3 DEF MovedSymbol
  <2>5. l.value + r.value \in Int /\ l.value - r.value \in Int
    BY <2>3, NumberTypes
  <2> DEFINE outcome == BinaryOutcome(op, l, r, old)
  <2>6. CASE op \in WordOps
    <3>1. \/ outcome = Refused(old)
          \/ /\ op \in {"/", "%"} => r.value # 0
             /\ outcome = Checked("ABSOLUTE", WordValue(op, l.value, r.value), "")
      BY <2>6, WordCases, ZenonT(40)
    <3>2. CASE op \in {"/", "%"} => r.value # 0
      <4>1. WordValue(op, l.value, r.value) \in Int
        BY <1>1, <2>3, <2>6, <3>2, WordValueType
      <4>2. IsOutcome(Checked("ABSOLUTE", WordValue(op, l.value, r.value), ""), types, names)
        BY <4>1, OutcomeTypes
      <4> QED BY <1>3, <2>2, <3>1, <4>2
    <3> QED BY <1>3, <2>2, <3>1, <3>2
  <2>8. CASE op = "+"
    <3>1. \/ outcome = Refused(old)
          \/ \E type \in {"ABSOLUTE", "LABEL"} :
               outcome = CheckedSum(type, l.value + r.value, MovedSymbol(l, r))
      BY <2>8, SumCases, Zenon
    <3>2. \A type \in {"ABSOLUTE", "LABEL"} :
            IsOutcome(CheckedSum(type, l.value + r.value, MovedSymbol(l, r)), types, names)
      BY <2>4, <2>5, OutcomeTypes
    <3> QED BY <1>3, <2>2, <3>1, <3>2
  <2>9. CASE op = "-"
    <3>1. \/ outcome = Refused(old)
          \/ \E type \in {"ABSOLUTE", "LABEL"} :
               outcome = Checked(type, l.value - r.value, MovedSymbol(l, r))
      BY <2>9, DifferenceCases, Zenon
    <3>2. \A type \in {"ABSOLUTE", "LABEL"} :
            IsOutcome(Checked(type, l.value - r.value, MovedSymbol(l, r)), types, names)
      BY <2>4, <2>5, OutcomeTypes
    <3> QED BY <1>3, <2>2, <3>1, <3>2
  <2>10. CASE op \in Relational
    <3>1. RelationalValue(op, l.value, r.value) \in Int
      BY <1>1, <2>3, <2>10, RelationalValueType
    <3>2. IsOutcome(Settled("ABSOLUTE", RelationalValue(op, l.value, r.value), ""), types, names)
      BY <3>1, OutcomeTypes
    <3>3. \/ outcome = Refused(old)
          \/ outcome = Settled("ABSOLUTE", RelationalValue(op, l.value, r.value), "")
      BY <2>10, RelationalCases, Zenon
    <3> QED BY <1>3, <2>2, <3>2, <3>3
  <2> QED BY <1>7, <2>6, <2>8, <2>9, <2>10
<1> QED BY <1>4, <1>5, <1>6, <1>7 DEF Operators

-----------------------------------------------------------------------------
(* The inductive invariant.  A node that is evaluated again, by the visit of a *)
(* .space, of a .equ whose symbol was deleted or by a definition that goes     *)
(* round, must be found to give what it gave.  T has nodes that would evaluate *)
(* again with the fields they have, U nodes that would fail again with them    *)
(* and still have a type; both are closed under operands.                      *)

Resolved == {"ABSOLUTE", "LABEL"}

Node == [op : Operators, kids : Seq(Nat), name : AllNames \cup {""}, type : HeapTypes,
         value : Int, symbol : AllNames \cup {""}]

IsNode(n, i) ==
  /\ n \in Node
  /\ Len(n.kids) = Operands(n.op)
  /\ \A k \in 1 .. Operands(n.op) : n.kids[k] \in 1 .. i - 1
  /\ n.op = "identifier" => n.name \in AllNames

IsHeap(h) == h \in Seq(Node) /\ \A i \in 1 .. Len(h) : IsNode(h[i], i)

SymbolTypes == Resolved \cup {"absent", "UNDEFINED", "INVALID"}

Entries == [type : SymbolTypes, section : 0 .. Len(table), expr : 0 .. Len(heap)]

SymbolsOK ==
  /\ symbols \in [AllNames -> Entries]
  /\ \A n \in AllNames :
       /\ symbols[n].expr = 0 => symbols[n].type \in {"absent", "UNDEFINED"}
       /\ symbols[n].type = "absent" => symbols[n] = Absent
  /\ \A i \in Position :
       heap[i].op = "identifier" => symbols[heap[i].name].type # "absent"
  /\ \A k \in Len(ast) + 1 .. MaxLines : symbols[LineNames[k]] = Absent

Evaluating == {"equ", "data", "space", "align"}

LineOps == Evaluating \cup {"section", "label"}

StatementNames == SymbolNames \cup Names \cup {""}

StatementType ==
  [op : LineOps, name : StatementNames, root : Nat, section : Nat,
   offset : Nat, size : Nat, live : BOOLEAN,
   result : [ok : BOOLEAN, type : HeapTypes, value : Int, symbol : AllNames \cup {""}]]

StatementsOK ==
  /\ ast \in Seq(StatementType)
  /\ \A j \in 1 .. Len(ast) :
       /\ ast[j].root <= Len(heap)
       /\ ast[j].op \in Evaluating => ast[j].root # 0
       /\ ast[j].op \in {"label", "equ"} => ast[j].name \in AllNames
       /\ ast[j].op = "equ" /\ ast[j].live => symbols[ast[j].name].expr = ast[j].root

\* The statement that waits for an evaluation.
Waiting == ast[IF pending = "visit" THEN pc ELSE Len(ast)]

ControlOK ==
  /\ phase \in {"parse", "generate", "done", "exit", "crashed"}
  /\ pending \in {"none", "label", "space", "visit"} /\ ok \in BOOLEAN
  /\ pc \in 1 .. Len(ast) + 1
  /\ stack # <<>> => pending # "none"
  /\ phase = "parse" => pc = 1 /\ pending # "visit"
  /\ phase = "generate" => pending \in {"none", "visit"}
  /\ phase \in {"done", "exit"} => pending = "none"
  /\ pending = "visit" => pc <= Len(ast) /\ Waiting.op \in Evaluating
  /\ pending \in {"label", "space"} => ast # <<>> /\ Waiting.op = pending
  /\ pending # "none" => Waiting.root # 0
  /\ error_count \in Nat /\ warning_count \in Nat /\ garbage \in Word

Typed == S!TypeOK /\ S!TableWellFormed /\ IsHeap(heap) /\ SymbolsOK /\ StatementsOK /\ ControlOK

-----------------------------------------------------------------------------
\* The d-th call a node makes.
Kid(i, d) == Operand(heap[i], d)

Child(i, d) == IF heap[i].op = "identifier" THEN symbols[heap[i].name].expr ELSE Kid(i, d)

Calls(i) == IF heap[i].op = "identifier" THEN 1 ELSE Arity(heap[i])

Leaf == {"value", "identifier"}

Fields(i, outcome) == /\ heap[i].type = outcome.type
                      /\ heap[i].value = outcome.value
                      /\ heap[i].symbol = outcome.symbol

\* The outcome of an operation with its operands as they are.
Again(i) == OperationOutcome(heap[i].op, [k \in 1 .. Arity(heap[i]) |-> Result(Kid(i, k))],
                             heap[i].value)

Sound(T, U, i) ==
  /\ heap[i].type \in Resolved
  /\ heap[i].symbol = "" \/ symbols[heap[i].symbol].expr # 0
  /\ heap[i].op = "value" =>
       Fits(heap[i].value) /\ heap[i].type = "ABSOLUTE" /\ heap[i].symbol = ""
  /\ heap[i].op = "identifier" =>
       LET name == heap[i].name
       IN  /\ symbols[name].type \in Resolved /\ symbols[name].expr \in T \cup U
           /\ Fields(i, Settled(symbols[name].type, SymbolValue(name), name))
  /\ heap[i].op \notin Leaf =>
       /\ \A k \in 1 .. Arity(heap[i]) : Kid(i, k) \in T
       /\ heap[i].op = "?:" => heap[Kid(i, 1)].type = "ABSOLUTE"
       /\ Again(i).ok /\ Fields(i, Again(i))

\* A node fails at an operand, or by itself when its operands are all sound.
Unsound(T, U, i) ==
  /\ heap[i].type \in Resolved /\ heap[i].op \notin {"identifier", "?:"}
  /\ heap[i].symbol = "" \/ symbols[heap[i].symbol].expr # 0
  /\ heap[i].op = "value" =>
       ~Fits(heap[i].value) /\ heap[i].type = "ABSOLUTE" /\ heap[i].symbol = ""
  /\ heap[i].op # "value" =>
       \E d \in 1 .. Arity(heap[i]) :
         /\ \A k \in 1 .. d - 1 : Kid(i, k) \in T
         /\ \/ /\ Kid(i, d) \in U
               /\ heap[i].type = heap[Kid(i, d)].type /\ heap[i].symbol = ""
            \/ /\ d = Arity(heap[i]) /\ Kid(i, d) \in T
               /\ ~Again(i).ok /\ Fields(i, Again(i))

Marks(T, U) ==
  /\ T \subseteq Position /\ U \subseteq Position /\ T \cap U = {}
  /\ \A i \in T : Sound(T, U, i)
  /\ \A i \in U : Unsound(T, U, i)
  /\ \A n \in AllNames : symbols[n].type \in Resolved => symbols[n].expr \in T \cup U

\* What the last call said of the node it evaluated.
Verdict(T, U, i) == IF ok THEN i \in T ELSE i \in U \/ heap[i].type = "INVALID"

Frame == [node : Nat \ {0}, done : Nat]

\* A call of node i that has made d calls: all those that returned gave a result,
\* but perhaps the last one when the call does not wait (1) for another.
Reached(T, i, d, waits) ==
  /\ i \in Position /\ d \in 0 .. Calls(i)
  /\ waits = 1 => d < Calls(i)
  /\ heap[i].op \notin Leaf =>
       /\ \A e \in 1 .. d : waits = 1 \/ e < d => Kid(i, e) \in T
       /\ heap[i].op = "?:" /\ (d = 2 \/ (d = 1 /\ waits = 1)) =>
            heap[Kid(i, 1)].type = "ABSOLUTE"
  /\ heap[i].op = "identifier" /\ (d = 1 \/ waits = 1) => Lazy(heap[i].name)

FrameOK(T, k) ==
  LET f == stack[k]
  IN  IF k < Len(stack)
      THEN Reached(T, f.node, f.done, 1) /\ stack[k + 1].node = Child(f.node, f.done + 1)
      ELSE Reached(T, f.node, f.done, 0)

\* A call that has reached as far as an earlier one of the same node would go the
\* same way: it can go no further.
NoneOvertakes ==
  \A j, k \in DOMAIN stack :
    j < k /\ stack[j].node = stack[k].node => stack[k].done <= stack[j].done

Frames(T, U) ==
  /\ stack \in Seq(Frame)
  /\ \A k \in DOMAIN stack : FrameOK(T, k)
  /\ NoneOvertakes
  /\ stack # <<>> /\ Top.done > 0 =>
       LET last == Child(Top.node, Top.done)
       IN  Verdict(T, U, last) /\ \A k \in DOMAIN stack : stack[k].node # last

PendingOK(T, U) ==
  pending # "none" =>
    /\ IF stack = <<>> THEN Verdict(T, U, Waiting.root) ELSE stack[1].node = Waiting.root
    /\ pending = "label" \/ (Waiting.op = "equ" /\ Waiting.live) =>
         Lazy(Waiting.name) /\ symbols[Waiting.name].expr = Waiting.root

SpacesOK(T) ==
  /\ phase \in {"generate", "done"} \/ (phase = "parse" /\ error_count = 0) =>
       \A j \in 1 .. Len(ast) :
         ast[j].op = "space" /\ ~(pending = "space" /\ j = Len(ast)) =>
           ast[j].root \in T /\ ast[j].size = Low16(heap[ast[j].root].value)
  /\ SpaceFillsWhatItReserved

Consistent(T, U) == Marks(T, U) /\ Frames(T, U) /\ PendingOK(T, U) /\ SpacesOK(T)

IInv == Typed /\ \E T, U : Consistent(T, U)

-----------------------------------------------------------------------------
\* Nodes and their operands.

LEMMA NodeTypes ==
  ASSUME NEW h, IsHeap(h), NEW i \in 1 .. Len(h)
  PROVE  /\ h[i].op \in Operators /\ h[i].kids \in Seq(Nat) /\ h[i].name \in AllNames \cup {""}
         /\ h[i].type \in HeapTypes /\ h[i].value \in Int /\ h[i].symbol \in AllNames \cup {""}
         /\ Len(h[i].kids) = Operands(h[i].op)
         /\ \A k \in 1 .. Operands(h[i].op) : h[i].kids[k] \in 1 .. i - 1
         /\ h[i].op = "identifier" => h[i].name \in AllNames
         /\ h[i] = [op |-> h[i].op, kids |-> h[i].kids, name |-> h[i].name,
                    type |-> h[i].type, value |-> h[i].value, symbol |-> h[i].symbol]
<1>1. IsNode(h[i], i)
  BY DEF IsHeap
<1>2. h[i] \in Node
  BY <1>1 DEF IsNode
<1>3. /\ h[i].op \in Operators /\ h[i].kids \in Seq(Nat) /\ h[i].name \in AllNames \cup {""}
      /\ h[i].type \in HeapTypes /\ h[i].value \in Int /\ h[i].symbol \in AllNames \cup {""}
      /\ h[i] = [op |-> h[i].op, kids |-> h[i].kids, name |-> h[i].name,
                 type |-> h[i].type, value |-> h[i].value, symbol |-> h[i].symbol]
  BY <1>2 DEF Node
<1> QED BY <1>1, <1>3 DEF IsNode

LEMMA OperandCounts ==
  ASSUME NEW op \in Operators
  PROVE  /\ op \in Leaf => Operands(op) = 0
         /\ op = "?:" => Operands(op) = 3
         /\ op \notin Leaf \cup {"?:"} => Operands(op) \in {1, 2}
         /\ op \in Unary \cup {"()"} => Operands(op) = 1
         /\ op \notin Leaf \cup {"?:", "()"} \cup Unary => Operands(op) = 2
         /\ Operands(op) \in Nat
BY DEF Operands, Leaf, Unary

LEMMA HeapLength ==
  ASSUME NEW h, IsHeap(h)
  PROVE  Len(h) \in Nat /\ DOMAIN h = 1 .. Len(h) /\ h \in Seq(Node)
BY DEF IsHeap

LEMMA KidTypes ==
  ASSUME IsHeap(heap), NEW i \in Position, heap[i].op \notin Leaf
  PROVE  /\ Arity(heap[i]) \in {1, 2}
         /\ Kid(i, 1) = heap[i].kids[1]
         /\ \A k \in 1 .. Arity(heap[i]) : Kid(i, k) \in 1 .. i - 1
         /\ heap[i].op \in Operators \ {"value", "identifier"}
         /\ Calls(i) = Arity(heap[i])
<1> DEFINE node == heap[i]
<1>1. /\ node.op \in Operators /\ Len(node.kids) = Operands(node.op)
      /\ \A k \in 1 .. Operands(node.op) : node.kids[k] \in 1 .. i - 1
  BY NodeTypes DEF Position
<1>2. node.op # "identifier" /\ node.op \in Operators \ {"value", "identifier"}
  BY <1>1 DEF Leaf
<1> HIDE DEF node
<1>3. CASE node.op = "?:"
  <2>1. Arity(node) = 2 /\ Operands(node.op) = 3
    BY <1>1, <1>3, OperandCounts DEF Arity
  <2>2. Operand(node, 1) = node.kids[1]
    BY <1>3 DEF Operand
  <2>3. Operand(node, 2) \in {node.kids[2], node.kids[3]}
    BY <1>3 DEF Operand
  <2>4. node.kids[1] \in 1 .. i - 1 /\ node.kids[2] \in 1 .. i - 1 /\ node.kids[3] \in 1 .. i - 1
    BY <1>1, <2>1
  <2>5. \A k \in 1 .. Arity(node) : k = 1 \/ k = 2
    BY <2>1
  <2> QED BY <1>2, <2>1, <2>2, <2>3, <2>4, <2>5 DEF Kid, Calls, node
<1>4. CASE node.op # "?:"
  <2>1. Arity(node) = Operands(node.op) /\ Operands(node.op) \in {1, 2}
    <3>1. node.op \notin Leaf \cup {"?:"}
      BY <1>4 DEF node
    <3> QED BY <1>1, <1>4, <3>1, OperandCounts DEF Arity
  <2>2. \A k \in 1 .. Arity(node) : Operand(node, k) = node.kids[k]
    BY <1>4 DEF Operand
  <2>3. Operand(node, 1) = node.kids[1]
    BY <1>4 DEF Operand
  <2>4. \A k \in 1 .. Arity(node) : Operand(node, k) \in 1 .. i - 1
    BY <1>1, <2>1, <2>2
  <2> QED BY <1>2, <2>1, <2>3, <2>4 DEF Kid, Calls, node
<1> QED BY <1>3, <1>4

LEMMA CallsType ==
  ASSUME IsHeap(heap), NEW i \in Position
  PROVE  /\ Calls(i) \in {0, 1, 2}
         /\ heap[i].op = "value" => Calls(i) = 0
         /\ heap[i].op = "identifier" => Calls(i) = 1
<1>1. CASE heap[i].op \in Leaf
  <2>1. heap[i].op \in Operators /\ Len(heap[i].kids) = Operands(heap[i].op)
    BY NodeTypes DEF Position
  <2>2. Operands(heap[i].op) = 0
    BY <1>1, <2>1, OperandCounts, Zenon
  <2> QED BY <1>1, <2>1, <2>2 DEF Calls, Arity, Leaf
<1>2. CASE heap[i].op \notin Leaf
  BY <1>2, KidTypes DEF Leaf
<1> QED BY <1>1, <1>2

LEMMA ResultType ==
  ASSUME IsHeap(heap), SymbolsOK, Len(table) \in Nat, NEW types, NEW j \in Position,
         heap[j].type \in types
  PROVE  Result(j) \in Argument(types, AllNames \cup {""})
<1>1. heap[j].value \in Int /\ heap[j].symbol \in AllNames \cup {""}
  BY NodeTypes DEF Position
<1>2. Low16(heap[j].value) \in Word
  BY <1>1, Low16Type
<1>3. SectionOf(heap[j].symbol) \in Nat
  <2>1. CASE heap[j].symbol = ""
    BY <2>1 DEF SectionOf
  <2>2. CASE heap[j].symbol # ""
    <3> DEFINE n == heap[j].symbol
    <3>1. n \in AllNames
      BY <1>1, <2>2
    <3>2. symbols[n] \in Entries
      BY <3>1 DEF SymbolsOK
    <3>3. symbols[n].section \in 0 .. Len(table)
      BY <3>2 DEF Entries
    <3>4. \A s \in 0 .. Len(table) : s \in Nat
      OBVIOUS
    <3>5. SectionOf(n) = symbols[n].section
      BY <2>2 DEF SectionOf
    <3> QED BY <3>3, <3>4, <3>5
  <2> QED BY <2>1, <2>2
<1> QED BY <1>1, <1>2, <1>3 DEF Result, Argument
-----------------------------------------------------------------------------
\* New nodes, and a node that an evaluation writes.

LEMMA HeapAppend ==
  ASSUME NEW h, IsHeap(h), NEW new \in Seq(Node),
         \A k \in 1 .. Len(new) : IsNode(new[k], Len(h) + k)
  PROVE  /\ IsHeap(h \o new)
         /\ Len(h \o new) = Len(h) + Len(new)
         /\ \A i \in 1 .. Len(h) : (h \o new)[i] = h[i]
         /\ \A k \in 1 .. Len(new) : (h \o new)[Len(h) + k] = new[k]
<1> DEFINE g == h \o new
<1>1. h \in Seq(Node) /\ Len(h) \in Nat /\ Len(new) \in Nat
  BY HeapLength
<1>2. /\ g \in Seq(Node) /\ Len(g) = Len(h) + Len(new)
      /\ \A i \in 1 .. Len(h) : g[i] = h[i]
      /\ \A k \in 1 .. Len(new) : g[Len(h) + k] = new[k]
  BY <1>1
<1> HIDE DEF g
<1>3. ASSUME NEW i \in 1 .. Len(g)
      PROVE  IsNode(g[i], i)
  <2>1. CASE i <= Len(h)
    <3>1. i \in 1 .. Len(h)
      BY <2>1, <1>1, <1>2
    <3> QED BY <3>1, <1>2 DEF IsHeap
  <2>2. CASE ~(i <= Len(h))
    <3> DEFINE k == i - Len(h)
    <3>1. k \in 1 .. Len(new) /\ i = Len(h) + k
      BY <2>2, <1>1, <1>2
    <3> HIDE DEF k
    <3>2. IsNode(new[k], Len(h) + k)
      BY <3>1
    <3> QED BY <3>1, <3>2, <1>2
  <2> QED BY <2>1, <2>2
<1> QED BY <1>2, <1>3 DEF IsHeap, g

\* EXCEPT as operators, for lemmas to match.
Put(s, i, e) == [s EXCEPT ![i] = e]
Written(n, type, value, symbol) == [n EXCEPT !.type = type, !.value = value, !.symbol = symbol]

\* What they do.
IsPut(t, s, i, e) == /\ Len(t) = Len(s) /\ t[i] = e
                     /\ \A j \in 1 .. Len(s) : j # i => t[j] = s[j]
                     /\ e = s[i] => t = s

IsWritten(m, n, type, value, symbol) ==
  /\ m.op = n.op /\ m.kids = n.kids /\ m.name = n.name
  /\ m.type = type /\ m.value = value /\ m.symbol = symbol
  /\ type = n.type /\ value = n.value /\ symbol = n.symbol => m = n

LEMMA PutElement ==
  ASSUME NEW X, NEW s \in Seq(X), NEW i \in 1 .. Len(s), NEW e \in X
  PROVE  Put(s, i, e) \in Seq(X) /\ IsPut(Put(s, i, e), s, i, e)
BY DEF Put, IsPut

LEMMA WriteNode ==
  ASSUME NEW n \in Node, NEW type \in HeapTypes, NEW value \in Int,
         NEW symbol \in AllNames \cup {""}
  PROVE  /\ Written(n, type, value, symbol) \in Node
         /\ IsWritten(Written(n, type, value, symbol), n, type, value, symbol)
BY DEF Node, Written, IsWritten

LEMMA HeapWrite ==
  ASSUME NEW h, IsHeap(h), NEW i \in 1 .. Len(h), NEW type \in HeapTypes, NEW value \in Int,
         NEW symbol \in AllNames \cup {""}
  PROVE  LET n == Written(h[i], type, value, symbol)
             g == Put(h, i, n)
         IN  IsHeap(g) /\ IsPut(g, h, i, n) /\ IsWritten(n, h[i], type, value, symbol)
<1> DEFINE n == Written(h[i], type, value, symbol)
           g == Put(h, i, n)
<1>1. /\ Len(h[i].kids) = Operands(h[i].op)
      /\ \A k \in 1 .. Operands(h[i].op) : h[i].kids[k] \in 1 .. i - 1
      /\ h[i].op = "identifier" => h[i].name \in AllNames
  BY NodeTypes
<1>2. h \in Seq(Node) /\ Len(h) \in Nat /\ DOMAIN h = 1 .. Len(h)
  BY HeapLength
<1>3. h[i] \in Node
  BY DEF IsHeap, IsNode
<1>4. n \in Node /\ IsWritten(n, h[i], type, value, symbol)
  BY <1>3, WriteNode, Zenon
<1> HIDE DEF n
<1>5. g \in Seq(Node) /\ IsPut(g, h, i, n)
  BY <1>2, <1>4, PutElement, Zenon
<1> HIDE DEF g
<1>6. /\ n.op = h[i].op /\ n.kids = h[i].kids /\ n.name = h[i].name
      /\ Len(g) = Len(h) /\ g[i] = n
      /\ \A j \in 1 .. Len(h) : j # i => g[j] = h[j]
  BY <1>4, <1>5 DEF IsWritten, IsPut
<1>7. ASSUME NEW j \in 1 .. Len(g)
      PROVE  IsNode(g[j], j)
  <2>1. CASE j = i
    BY <2>1, <1>1, <1>4, <1>6 DEF IsNode
  <2>2. CASE j # i
    BY <2>2, <1>6 DEF IsHeap
  <2> QED BY <2>1, <2>2
<1>8. IsHeap(g)
  BY <1>5, <1>7 DEF IsHeap
<1> QED BY <1>4, <1>5, <1>8 DEF g, n
-----------------------------------------------------------------------------
\* What no step changes: nodes but for their fields, the fields of marked nodes,
\* the definitions of symbols and their types.
DefinitionsKept ==
  \A n \in AllNames :
    /\ symbols[n].expr # 0 => /\ symbols'[n].expr = symbols[n].expr
                              /\ symbols'[n].section = symbols[n].section
    /\ symbols[n].type \in Resolved => symbols'[n].type = symbols[n].type

NodesKept(M) ==
  /\ Position \subseteq Position'
  /\ \A i \in Position : /\ heap'[i].op = heap[i].op /\ heap'[i].kids = heap[i].kids
                         /\ heap'[i].name = heap[i].name
  /\ \A i \in M : heap'[i] = heap[i]

LEMMA KidKept ==
  ASSUME NEW i, heap'[i].op = heap[i].op, heap'[i].kids = heap[i].kids
  PROVE  /\ Arity(heap'[i]) = Arity(heap[i])
         /\ Kid(i, 1)' = Kid(i, 1)
         /\ heap[i].op # "?:" => \A k : Kid(i, k)' = Kid(i, k)
         /\ heap'[Kid(i, 1)].value = heap[Kid(i, 1)].value => \A k : Kid(i, k)' = Kid(i, k)
<1>1. Arity(heap'[i]) = Arity(heap[i])
  BY DEF Arity
<1>2. Kid(i, 1)' = Kid(i, 1)
  BY DEF Kid, Operand
<1>3. heap[i].op # "?:" => \A k : Kid(i, k)' = Kid(i, k)
  BY DEF Kid, Operand
<1>4. heap'[Kid(i, 1)].value = heap[Kid(i, 1)].value => \A k : Kid(i, k)' = Kid(i, k)
  BY DEF Kid, Operand
<1> QED BY <1>1, <1>2, <1>3, <1>4

LEMMA ResultKept ==
  ASSUME NEW j, heap'[j] = heap[j], DefinitionsKept,
         heap[j].symbol \in AllNames \cup {""},
         heap[j].symbol = "" \/ symbols[heap[j].symbol].expr # 0
  PROVE  Result(j)' = Result(j)
<1>1. SectionOf(heap[j].symbol)' = SectionOf(heap[j].symbol)
  BY DEF SectionOf, DefinitionsKept
<1> QED BY <1>1 DEF Result

LEMMA FirstOfArity ==
  ASSUME NEW a \in {1, 2}
  PROVE  1 \in 1 .. a /\ \A k \in 1 .. a : k = 1 \/ k = 2
OBVIOUS

\* The outcome of a node whose operands are marked.
LEMMA AgainKept ==
  ASSUME NEW M, NodesKept(M), DefinitionsKept, IsHeap(heap), NEW i \in Position,
         heap[i].op \notin Leaf, M \subseteq Position,
         \A k \in 1 .. Arity(heap[i]) : Kid(i, k) \in M,
         \A j \in M : heap[j].symbol = "" \/ symbols[heap[j].symbol].expr # 0
  PROVE  /\ Arity(heap'[i]) = Arity(heap[i])
         /\ \A k : Kid(i, k)' = Kid(i, k)
         /\ \A k \in 1 .. Arity(heap[i]) : Result(Kid(i, k))' = Result(Kid(i, k))
         /\ heap'[i].value = heap[i].value => Again(i)' = Again(i)
<1>1. Arity(heap[i]) \in {1, 2} /\ heap[i].op = heap'[i].op /\ heap[i].kids = heap'[i].kids
  BY KidTypes DEF NodesKept
<1>2. Kid(i, 1) \in M
  <2>1. 1 \in 1 .. Arity(heap[i])
    BY <1>1, FirstOfArity, Zenon
  <2> QED BY <2>1
<1>3. heap'[Kid(i, 1)].value = heap[Kid(i, 1)].value
  BY <1>2 DEF NodesKept
<1>4. Arity(heap'[i]) = Arity(heap[i]) /\ \A k : Kid(i, k)' = Kid(i, k)
  BY <1>1, <1>3, KidKept
<1>5. ASSUME NEW k \in 1 .. Arity(heap[i])
      PROVE  Result(Kid(i, k))' = Result(Kid(i, k))
  <2> DEFINE j == Kid(i, k)
  <2>1. j \in M /\ j \in Position /\ j' = j
    BY <1>4
  <2>2. heap'[j] = heap[j] /\ (heap[j].symbol = "" \/ symbols[heap[j].symbol].expr # 0)
    BY <2>1 DEF NodesKept
  <2>3. heap[j].symbol \in AllNames \cup {""}
    BY <2>1, NodeTypes DEF Position
  <2> QED BY <2>1, <2>2, <2>3, ResultKept DEF Result, SectionOf
<1>6. heap'[i].value = heap[i].value => Again(i)' = Again(i)
  BY <1>1, <1>4, <1>5 DEF Again
<1> QED BY <1>4, <1>5, <1>6

\* Marked nodes are still what their marks say, among as many or more.
LEMMA SoundKept ==
  ASSUME NEW T, NEW U, Marks(T, U), NodesKept(T \cup U), DefinitionsKept, IsHeap(heap), SymbolsOK,
         NEW V, NEW W, T \subseteq V, U \subseteq W,
         NEW i \in T
  PROVE  Sound(V, W, i)'
<1>1. /\ Sound(T, U, i) /\ i \in Position /\ heap'[i] = heap[i]
      /\ T \subseteq Position /\ U \subseteq Position
  BY DEF Marks, NodesKept
<1>2. heap[i].symbol \in AllNames \cup {""} /\ (heap[i].op = "identifier" => heap[i].name \in AllNames)
  BY <1>1, NodeTypes DEF Position
<1>3. heap'[i].symbol = "" \/ symbols'[heap'[i].symbol].expr # 0
  BY <1>1, <1>2 DEF Sound, DefinitionsKept
<1>4. CASE heap[i].op = "value"
  BY <1>1, <1>3, <1>4 DEF Sound, Leaf
<1>5. CASE heap[i].op = "identifier"
  <2> DEFINE n == heap[i].name
             e == symbols[n].expr
  <2>1. /\ symbols[n].type \in Resolved /\ e \in T \cup U /\ n \in AllNames
        /\ Fields(i, Settled(symbols[n].type, SymbolValue(n), n))
    BY <1>1, <1>2, <1>5 DEF Sound
  <2>2. e # 0
    BY <2>1, <1>1, HeapLength DEF Position
  <2>3. symbols'[n].expr = e /\ symbols'[n].type = symbols[n].type
    BY <2>1, <2>2 DEF DefinitionsKept
  <2>4. heap'[e] = heap[e]
    BY <2>1 DEF NodesKept
  <2>5. SymbolValue(n)' = SymbolValue(n)
    BY <1>1, <2>3, <2>4 DEF SymbolValue, Low16
  <2>6. Fields(i, Settled(symbols[n].type, SymbolValue(n), n))'
    BY <1>1, <2>1, <2>3, <2>5 DEF Fields
  <2> QED BY <1>1, <1>3, <1>5, <2>1, <2>3, <2>6 DEF Sound, Leaf
<1>6. CASE heap[i].op \notin Leaf
  <2>1. /\ \A k \in 1 .. Arity(heap[i]) : Kid(i, k) \in T
        /\ heap[i].op = "?:" => heap[Kid(i, 1)].type = "ABSOLUTE"
        /\ Again(i).ok /\ Fields(i, Again(i))
    BY <1>1, <1>6 DEF Sound
  <2>2. \A j \in T : heap[j].symbol = "" \/ symbols[heap[j].symbol].expr # 0
    BY DEF Marks, Sound
  <2>3. NodesKept(T)
    BY DEF NodesKept
  <2>4. /\ Arity(heap'[i]) = Arity(heap[i]) /\ \A k : Kid(i, k)' = Kid(i, k)
        /\ Again(i)' = Again(i)
    BY <1>1, <1>6, <2>1, <2>2, <2>3, AgainKept
  <2>5. Kid(i, 1) \in T
    BY <1>1, <1>6, <2>1, KidTypes
  <2>6. heap'[Kid(i, 1)] = heap[Kid(i, 1)]
    BY <2>3, <2>5 DEF NodesKept
  <2>7. Kid(i, 1)' = Kid(i, 1)
    BY <2>4
  <2> HIDE DEF Kid, Again
  <2> QED BY <1>1, <1>3, <1>6, <2>1, <2>4, <2>6, <2>7 DEF Sound, Leaf, Fields
<1> QED BY <1>4, <1>5, <1>6 DEF Leaf

LEMMA UnsoundKept ==
  ASSUME NEW T, NEW U, Marks(T, U), NodesKept(T \cup U), DefinitionsKept, IsHeap(heap), SymbolsOK,
         NEW V, NEW W, T \subseteq V, U \subseteq W,
         NEW i \in U
  PROVE  Unsound(V, W, i)'
<1>1. /\ Unsound(T, U, i) /\ i \in Position /\ heap'[i] = heap[i]
      /\ T \subseteq Position /\ U \subseteq Position
  BY DEF Marks, NodesKept
<1>2. heap[i].symbol \in AllNames \cup {""}
  BY <1>1, NodeTypes DEF Position
<1>3. heap'[i].symbol = "" \/ symbols'[heap'[i].symbol].expr # 0
  BY <1>1, <1>2 DEF Unsound, DefinitionsKept
<1>4. CASE heap[i].op = "value"
  BY <1>1, <1>3, <1>4 DEF Unsound
<1>5. CASE heap[i].op # "value"
  <2>1. heap[i].op \notin Leaf /\ heap[i].op # "?:"
    BY <1>1, <1>5 DEF Unsound, Leaf
  <2>2. PICK d \in 1 .. Arity(heap[i]) :
          /\ \A k \in 1 .. d - 1 : Kid(i, k) \in T
          /\ \/ /\ Kid(i, d) \in U
                /\ heap[i].type = heap[Kid(i, d)].type /\ heap[i].symbol = ""
             \/ /\ d = Arity(heap[i]) /\ Kid(i, d) \in T
                /\ ~Again(i).ok /\ Fields(i, Again(i))
    BY <1>1, <1>5 DEF Unsound
  <2>3. Arity(heap'[i]) = Arity(heap[i]) /\ \A k : Kid(i, k)' = Kid(i, k)
    BY <1>1, <2>1, KidKept
  <2>4. CASE Kid(i, d) \in U /\ heap[i].type = heap[Kid(i, d)].type /\ heap[i].symbol = ""
    <3>1. heap'[Kid(i, d)] = heap[Kid(i, d)]
      BY <2>4 DEF NodesKept
    <3>2. /\ \A k \in 1 .. d - 1 : Kid(i, k)' \in V
          /\ Kid(i, d)' \in W /\ heap'[i].type = heap'[Kid(i, d)'].type /\ heap'[i].symbol = ""
      <4>1. \A k \in 1 .. d - 1 : Kid(i, k)' \in V
        BY <2>2, <2>3
      <4>2. Kid(i, d)' = Kid(i, d) /\ Kid(i, d)' \in W
        BY <2>3, <2>4
      <4>3. heap'[Kid(i, d)'] = heap[Kid(i, d)]
        BY <4>2, <3>1
      <4> QED BY <1>1, <2>4, <4>1, <4>2, <4>3
    <3> QED BY <1>1, <1>3, <1>5, <2>1, <2>3, <3>2 DEF Unsound
  <2>5. CASE d = Arity(heap[i]) /\ Kid(i, d) \in T /\ ~Again(i).ok /\ Fields(i, Again(i))
    <3>1. \A k \in 1 .. Arity(heap[i]) : Kid(i, k) \in T
      <4>1. d \in 1 .. d - 1 \cup {d} /\ \A k \in 1 .. d : k \in 1 .. d - 1 \/ k = d
        OBVIOUS
      <4> QED BY <4>1, <2>2, <2>5
    <3>2. \A j \in T : heap[j].symbol = "" \/ symbols[heap[j].symbol].expr # 0
      BY DEF Marks, Sound
    <3>3. NodesKept(T)
      BY DEF NodesKept
    <3>4. Again(i)' = Again(i)
      BY <1>1, <2>1, <3>1, <3>2, <3>3, AgainKept
    <3>5. /\ \A k \in 1 .. d - 1 : Kid(i, k)' \in V
          /\ d = Arity(heap'[i]) /\ Kid(i, d)' \in V /\ ~Again(i)'.ok /\ Fields(i, Again(i))'
      BY <1>1, <2>2, <2>3, <2>5, <3>4 DEF Fields
    <3> QED BY <1>1, <1>3, <1>5, <2>1, <2>3, <3>5 DEF Unsound
  <2> QED BY <2>2, <2>4, <2>5
<1> QED BY <1>4, <1>5

\* The symbol a call evaluates, or has just evaluated, has no type yet.
StillLazy(i, d, waits) ==
  heap[i].op = "identifier" /\ (d = 1 \/ waits = 1) =>
    \A n \in AllNames : n = heap[i].name => Lazy(n)'

\* The calls made stay those that were made.
LEMMA ReachedKept ==
  ASSUME NEW T, NodesKept(T), DefinitionsKept, IsHeap(heap), NEW V, T \subseteq V,
         NEW i, NEW d, NEW waits \in {0, 1}, Reached(T, i, d, waits),
         StillLazy(i, d, waits)
  PROVE  /\ Reached(V, i, d, waits)' /\ Calls(i)' = Calls(i)
<1>1. /\ i \in Position /\ i \in Position' /\ d \in 0 .. Calls(i)
      /\ heap'[i].op = heap[i].op /\ heap'[i].kids = heap[i].kids
      /\ heap'[i].name = heap[i].name
  BY DEF Reached, NodesKept
<1>2. Arity(heap'[i]) = Arity(heap[i])
  BY <1>1, KidKept
<1>3. Calls(i)' = Calls(i)
  BY <1>1, <1>2 DEF Calls
<1>4. CASE heap[i].op = "identifier"
  <2> DEFINE n == heap[i].name
  <2>1. n \in AllNames /\ Calls(i) = 1
    BY <1>1, <1>4, NodeTypes DEF Position, Calls
  <2>2. d = 1 \/ waits = 1 => Lazy(n) /\ symbols'[n].expr = symbols[n].expr
                          /\ symbols'[n].type = "UNDEFINED" /\ symbols'[n].expr # 0
    BY <1>4, <2>1 DEF Reached, DefinitionsKept, Lazy, StillLazy
  <2> QED BY <1>1, <1>3, <1>4, <2>2 DEF Reached, Leaf, Lazy
<1>5. CASE heap[i].op = "value"
  <2>1. Calls(i) = 0
    BY <1>1, <1>5, CallsType
  <2>2. d = 0 /\ waits # 1
    BY <1>1, <2>1 DEF Reached
  <2> QED BY <1>1, <1>3, <1>5, <2>2 DEF Reached, Leaf
<1>6. CASE heap[i].op \notin Leaf
  <2>1. /\ \A e \in 1 .. d : waits = 1 \/ e < d => Kid(i, e) \in T
        /\ heap[i].op = "?:" /\ (d = 2 \/ (d = 1 /\ waits = 1)) => heap[Kid(i, 1)].type = "ABSOLUTE"
        /\ waits = 1 => d < Calls(i)
    BY <1>6 DEF Reached
  <2>2. Arity(heap[i]) \in {1, 2} /\ Calls(i) = Arity(heap[i])
    BY <1>1, <1>6, KidTypes
  <2>3. d \in {0, 1, 2} /\ (waits = 1 => d \in {0, 1}) 
    BY <1>1, <2>1, <2>2
  <2>4. d = 2 \/ (d = 1 /\ waits = 1) =>
          Kid(i, 1) \in T /\ heap'[Kid(i, 1)] = heap[Kid(i, 1)] /\ \A k : Kid(i, k)' = Kid(i, k)
    <3>1. SUFFICES ASSUME d = 2 \/ (d = 1 /\ waits = 1)
                   PROVE  Kid(i, 1) \in T /\ heap'[Kid(i, 1)] = heap[Kid(i, 1)]
                          /\ \A k : Kid(i, k)' = Kid(i, k)
      OBVIOUS
    <3>2. Kid(i, 1) \in T
      BY <3>1, <2>1
    <3>3. heap'[Kid(i, 1)] = heap[Kid(i, 1)]
      BY <3>2 DEF NodesKept
    <3> QED BY <1>1, <3>2, <3>3, KidKept
  <2>5. Kid(i, 1)' = Kid(i, 1)
    BY <1>1, KidKept
  <2>6. \A e \in 1 .. d : Kid(i, e)' = Kid(i, e)
    BY <2>3, <2>4, <2>5
  <2>7. /\ \A e \in 1 .. d : waits = 1 \/ e < d => Kid(i, e)' \in V
        /\ heap'[i].op = "?:" /\ (d = 2 \/ (d = 1 /\ waits = 1)) => heap'[Kid(i, 1)'].type = "ABSOLUTE"
    BY <1>1, <2>1, <2>4, <2>5, <2>6
  <2> QED BY <1>1, <1>3, <1>6, <2>1, <2>7 DEF Reached, Leaf
<1> QED BY <1>4, <1>5, <1>6 DEF Leaf

\* The call that is waited for is still the one made.
LEMMA ChildKept ==
  ASSUME NEW T, NodesKept(T), DefinitionsKept, IsHeap(heap),
         NEW i, NEW d, Reached(T, i, d, 1), NEW c, c = d + 1
  PROVE  Child(i, c)' = Child(i, c)
<1>1. /\ i \in Position /\ d \in 0 .. Calls(i) /\ d < Calls(i)
      /\ heap'[i].op = heap[i].op /\ heap'[i].kids = heap[i].kids
      /\ heap'[i].name = heap[i].name
  BY DEF Reached, NodesKept
<1>2. d \in {0, 1}
  BY <1>1, CallsType
<1>3. CASE heap[i].op = "identifier"
  <2> DEFINE n == heap[i].name
  <2>1. n \in AllNames
    BY <1>1, <1>3, NodeTypes DEF Position
  <2>2. symbols'[n].expr = symbols[n].expr
    BY <1>3, <2>1 DEF Reached, DefinitionsKept, Lazy
  <2> QED BY <1>1, <1>3, <2>2 DEF Child
<1>4. CASE heap[i].op # "identifier"
  <2>1. Child(i, c) = Kid(i, c) /\ Child(i, c)' = Kid(i, c)'
    BY <1>1, <1>4 DEF Child
  <2>2. CASE d = 0
    <3>1. c = 1
      BY <2>2
    <3> QED BY <1>1, <2>1, <3>1, KidKept
  <2>3. CASE d = 1
    <3>1. heap[i].op \notin Leaf
      BY <1>1, <1>4, <2>3, CallsType DEF Leaf
    <3>2. Kid(i, 1) \in T
      BY <2>3, <3>1 DEF Reached
    <3>3. heap'[Kid(i, 1)].value = heap[Kid(i, 1)].value
      BY <3>2 DEF NodesKept
    <3>4. \A k : Kid(i, k)' = Kid(i, k)
      BY <1>1, <3>3, KidKept
    <3> QED BY <2>1, <3>4
  <2> QED BY <1>2, <2>2, <2>3
<1> QED BY <1>3, <1>4

-----------------------------------------------------------------------------
\* The stack of calls.

LEMMA FrameTypes ==
  ASSUME NEW T, NEW U, Frames(T, U), NEW k \in 1 .. Len(stack)
  PROVE  /\ stack[k].node \in Position /\ stack[k].done \in 0 .. Calls(stack[k].node)
         /\ stack[k].done \in Nat
         /\ k < Len(stack) => /\ Reached(T, stack[k].node, stack[k].done, 1)
                              /\ stack[k + 1].node = Child(stack[k].node, stack[k].done + 1)
         /\ ~(k < Len(stack)) => Reached(T, stack[k].node, stack[k].done, 0)
         /\ stack[k] = [node |-> stack[k].node, done |-> stack[k].done]
         /\ Len(stack) \in Nat /\ DOMAIN stack = 1 .. Len(stack)
<1>1. stack \in Seq(Frame) /\ Len(stack) \in Nat /\ DOMAIN stack = 1 .. Len(stack)
  BY DEF Frames
<1>2. stack[k] \in Frame
  BY <1>1
<1>3. stack[k] = [node |-> stack[k].node, done |-> stack[k].done] /\ stack[k].done \in Nat
  BY <1>2 DEF Frame
<1>4. FrameOK(T, k)
  BY <1>1 DEF Frames
<1> QED BY <1>1, <1>3, <1>4 DEF FrameOK, Reached

LEMMA TopTypes ==
  ASSUME NEW T, NEW U, Frames(T, U), stack # <<>>, IsHeap(heap)
  PROVE  /\ Len(stack) \in 1 .. Len(stack) /\ Len(stack) \in Nat \ {0}
         /\ Top.node \in Position /\ Top.done \in 0 .. Calls(Top.node) /\ Top.done \in Nat
         /\ Reached(T, Top.node, Top.done, 0)
         /\ Running.op \in Operators
         /\ Running.op = "identifier" => Running.name \in AllNames
<1>1. stack \in Seq(Frame)
  BY DEF Frames
<1>2. Len(stack) \in 1 .. Len(stack) /\ Len(stack) \in Nat \ {0}
  BY <1>1
<1>3. /\ Top.node \in Position /\ Top.done \in 0 .. Calls(Top.node) /\ Top.done \in Nat
      /\ ~(Len(stack) < Len(stack)) => Reached(T, Top.node, Top.done, 0)
  BY <1>2, FrameTypes DEF Top
<1>4. ~(Len(stack) < Len(stack))
  BY <1>2
<1>5. Reached(T, Top.node, Top.done, 0)
  BY <1>3, <1>4
<1>6. Running.op \in Operators /\ (Running.op = "identifier" => Running.name \in AllNames)
  BY <1>3, NodeTypes DEF Running, Position
<1> QED BY <1>2, <1>3, <1>5, <1>6

\* A call waits where the last one can go on, or the last one is of another node.
LEMMA WaitingGoesOn ==
  ASSUME NEW T, NEW U, Marks(T, U), Frames(T, U), IsHeap(heap), stack # <<>>,
         NEW k \in 1 .. Len(stack) - 1, stack[k].node = Top.node
  PROVE  NextCall # {}
<1> DEFINE i == Top.node
           d == Top.done
           w == stack[k].done
<1>1. /\ Len(stack) \in 1 .. Len(stack) /\ Len(stack) \in Nat \ {0} /\ i \in Position
      /\ d \in Nat /\ d \in 0 .. Calls(i) /\ Reached(T, i, d, 0)
  BY TopTypes
<1>2. k \in 1 .. Len(stack) /\ k < Len(stack) /\ k \in Nat
  BY <1>1
<1>3. /\ Reached(T, i, w, 1) /\ w \in Nat /\ DOMAIN stack = 1 .. Len(stack)
  BY <1>2, FrameTypes
<1>4. d <= w
  BY <1>1, <1>2, <1>3 DEF Frames, NoneOvertakes, Top
<1>5. Calls(i) \in Nat /\ w < Calls(i)
  <2>1. Calls(i) \in {0, 1, 2}
    BY <1>1, CallsType
  <2> QED BY <1>3, <2>1 DEF Reached
<1>6. d < Calls(i) /\ Running = heap[i]
  BY <1>1, <1>3, <1>4, <1>5 DEF Running
<1>7. CASE heap[i].op = "identifier"
  <2>1. d = 0 /\ w = 0
    BY <1>1, <1>3, <1>4, <1>5, <1>6, <1>7 DEF Calls
  <2>2. Lazy(heap[i].name)
    BY <1>3, <1>7 DEF Reached
  <2> QED BY <1>6, <1>7, <2>1, <2>2 DEF NextCall
<1>8. CASE heap[i].op \notin Leaf
  <2>1. Calls(i) = Arity(heap[i]) /\ Arity(heap[i]) \in {1, 2}
    BY <1>1, <1>8, KidTypes
  <2>2. d > 0 => ok
    <3>1. SUFFICES ASSUME d > 0, ~ok PROVE FALSE
      OBVIOUS
    <3>2. Kid(i, d) \in T
      <4>1. d \in 1 .. w
        BY <1>1, <1>3, <1>4, <3>1
      <4> QED BY <1>3, <1>8, <4>1 DEF Reached
    <3>3. Verdict(T, U, Child(i, d))
      BY <3>1 DEF Frames
    <3>4. Child(i, d) = Kid(i, d)
      BY <1>8 DEF Child, Leaf
    <3>5. Kid(i, d) \in U \/ heap[Kid(i, d)].type = "INVALID"
      BY <3>1, <3>3, <3>4 DEF Verdict
    <3> QED BY <3>2, <3>5 DEF Marks, Sound, Resolved
  <2>3. heap[i].op = "?:" /\ d = 1 => heap[heap[i].kids[1]].type = "ABSOLUTE"
    <3>1. SUFFICES ASSUME heap[i].op = "?:", d = 1
                   PROVE  heap[heap[i].kids[1]].type = "ABSOLUTE"
      OBVIOUS
    <3>2. w = 1
      BY <1>3, <1>4, <1>5, <2>1, <3>1
    <3>3. heap[Kid(i, 1)].type = "ABSOLUTE"
      BY <1>3, <1>8, <3>1, <3>2 DEF Reached
    <3>4. Kid(i, 1) = heap[i].kids[1]
      BY <3>1 DEF Kid, Operand
    <3> QED BY <3>3, <3>4
  <2>4. d < Arity(heap[i]) /\ heap[i].op # "identifier"
    BY <1>6, <1>8, <2>1 DEF Leaf
  <2> QED BY <1>6, <2>2, <2>3, <2>4 DEF NextCall
<1>9. CASE heap[i].op = "value"
  BY <1>1, <1>6, <1>9, CallsType
<1> QED BY <1>7, <1>8, <1>9 DEF Leaf

LEMMA CallMade ==
  ASSUME NEW frame \in Frame
  PROVE  LET f == [frame EXCEPT !.done = @ + 1]
         IN  f \in Frame /\ f.node = frame.node /\ f.done = frame.done + 1
BY DEF Frame

\* The frame below the one that returns counts one call more.
LEMMA Popped ==
  ASSUME stack \in Seq(Frame), stack # <<>>, stack' = PoppedStack
  PROVE  /\ stack' \in Seq(Frame) /\ Len(stack') = Len(stack) - 1
         /\ \A k \in 1 .. Len(stack) - 1 :
              /\ stack'[k].node = stack[k].node
              /\ k < Len(stack) - 1 => stack'[k].done = stack[k].done
              /\ k = Len(stack) - 1 => stack'[k].done = stack[k].done + 1
<1> DEFINE m == Len(stack) - 1
           below == SubSeq(stack, 1, m)
<1>1. m \in Nat /\ Len(stack) = m + 1
  <2>1. Len(stack) \in Nat \ {0}
    OBVIOUS
  <2> QED BY <2>1
<1>2. below \in Seq(Frame) /\ Len(below) = m /\ \A k \in 1 .. m : below[k] = stack[k]
  BY <1>1
<1>3. stack' = IF below = <<>> THEN below ELSE [below EXCEPT ![Len(below)].done = @ + 1]
  BY DEF PoppedStack
<1> HIDE DEF below
<1>4. CASE m = 0
  <2>1. below = <<>> /\ stack' \in Seq(Frame) /\ Len(stack') = m
    BY <1>2, <1>3, <1>4
  <2> HIDE DEF m
  <2>2. 1 .. m = {}
    BY <1>4
  <2> QED BY <2>1, <2>2 DEF m
<1>5. CASE m # 0
  <2>1. below # <<>> /\ m \in 1 .. m
    BY <1>1, <1>2, <1>5
  <2> DEFINE f == [below[m] EXCEPT !.done = @ + 1]
  <2>2. below[m] \in Frame
    BY <1>2, <2>1
  <2>3. f \in Frame /\ f.node = below[m].node /\ f.done = below[m].done + 1
    BY <2>2, CallMade, Zenon
  <2>4. stack' = [below EXCEPT ![m] = f]
    BY <1>2, <1>3, <2>1
  <2> HIDE DEF f
  <2>5. /\ stack' \in Seq(Frame) /\ Len(stack') = m
        /\ stack'[m] = f /\ \A k \in 1 .. m : k # m => stack'[k] = below[k]
    BY <1>2, <2>1, <2>3, <2>4
  <2> HIDE DEF m
  <2>6. \A k \in 1 .. m : k < m => k # m
    BY <1>1
  <2>7. ASSUME NEW k \in 1 .. m
        PROVE  /\ stack'[k].node = stack[k].node
               /\ k < m => stack'[k].done = stack[k].done
               /\ k = m => stack'[k].done = stack[k].done + 1
    BY <1>2, <2>3, <2>5, <2>6
  <2> QED BY <2>5, <2>7 DEF m
<1> QED BY <1>4, <1>5

\* A symbol is given its type by the call that evaluated its expression.
OnlyResolves ==
  \A n \in AllNames :
    Lazy(n) => Lazy(n)' \/ (Running.op = "identifier" /\ Running.name = n /\ Top.done = 1)

LEMMA StaysLazy ==
  ASSUME NEW T, NEW U, Frames(T, U), IsHeap(heap), stack # <<>>, OnlyResolves,
         NEW k \in 1 .. Len(stack) - 1, heap[stack[k].node].op = "identifier",
         NEW n \in AllNames, n = heap[stack[k].node].name
  PROVE  Lazy(n)'
<1>1. Len(stack) \in Nat \ {0} /\ DOMAIN stack = 1 .. Len(stack)
  BY TopTypes DEF Frames
<1>2. k \in 1 .. Len(stack) /\ k < Len(stack) /\ k + 1 \in 1 .. Len(stack)
  BY <1>1
<1>3. /\ Reached(T, stack[k].node, stack[k].done, 1)
      /\ stack[k + 1].node = Child(stack[k].node, stack[k].done + 1)
  BY <1>2, FrameTypes
<1>4. Lazy(n) /\ stack[k + 1].node = symbols[n].expr
  BY <1>3 DEF Reached, Child
<1>5. CASE Running.op = "identifier" /\ Running.name = n /\ Top.done = 1
  <2>1. Child(Top.node, Top.done) = symbols[n].expr
    BY <1>5 DEF Child, Running
  <2>2. Top.done > 0
    BY <1>5
  <2>3. \A j \in 1 .. Len(stack) : stack[j].node # symbols[n].expr
    BY <1>1, <2>1, <2>2 DEF Frames
  <2> QED BY <1>2, <1>4, <2>3
<1> QED BY <1>4, <1>5 DEF OnlyResolves

\* What a call that waits has made and waits for are not disturbed.
LEMMA WaitingKept ==
  ASSUME NEW T, NEW U, Frames(T, U), IsHeap(heap), stack # <<>>,
         NodesKept(T), DefinitionsKept, OnlyResolves,
         NEW V, T \subseteq V, NEW k \in 1 .. Len(stack) - 1,
         NEW i, i = stack[k].node, NEW d, d = stack[k].done
  PROVE  /\ Reached(V, i, d, 1)' /\ Calls(i)' \in {0, 1, 2}
         /\ d \in Nat /\ i \in Position
<1>1. Len(stack) \in Nat \ {0}
  BY TopTypes
<1>2. k \in 1 .. Len(stack) /\ k < Len(stack)
  BY <1>1
<1>3. Reached(T, i, d, 1) /\ i \in Position /\ d \in Nat
  BY <1>2, FrameTypes
<1>4. StillLazy(i, d, 1)
  BY StaysLazy DEF StillLazy
<1>5. Reached(V, i, d, 1)' /\ Calls(i)' = Calls(i)
  BY <1>3, <1>4, ReachedKept
<1> QED BY <1>3, <1>5, CallsType

LEMMA ChildIsNext ==
  ASSUME NEW T, NEW U, Frames(T, U), IsHeap(heap), stack # <<>>,
         NodesKept(T), DefinitionsKept, NEW k \in 1 .. Len(stack) - 1,
         NEW d, d = stack[k].done, NEW c, c = d + 1, NEW i, i = stack[k].node
  PROVE  Child(i, c)' = stack[k + 1].node
<1>1. Len(stack) \in Nat \ {0}
  BY TopTypes
<1>2. k \in 1 .. Len(stack) /\ k < Len(stack)
  BY <1>1
<1>3. Reached(T, i, d, 1) /\ stack[k + 1].node = Child(i, c)
  BY <1>2, FrameTypes
<1> QED BY <1>3, ChildKept

LEMMA ReachedNext ==
  ASSUME NEW V, NEW i, NEW d \in Nat, Reached(V, i, d, 1)', Calls(i)' \in {0, 1, 2}
  PROVE  Reached(V, i, d + 1, 0)'
<1>1. d + 1 \in 0 .. Calls(i)' /\ i \in Position'
  BY DEF Reached
<1>2. \A e \in 1 .. d + 1 : e < d + 1 => e \in 1 .. d
  OBVIOUS
<1>3. d + 1 = 1 => ~(d = 1)
  OBVIOUS
<1>4. (d + 1 = 2 <=> d = 1) /\ (d + 1 = 1 <=> d = 0)
  OBVIOUS
<1> QED BY <1>1, <1>2, <1>4 DEF Reached

\* The calls that wait see the result of the call that returned.
LEMMA FramesAfterReturn ==
  ASSUME NEW T, NEW U, Marks(T, U), Frames(T, U), IsHeap(heap), stack # <<>>, NextCall = {},
         stack' = PoppedStack, NodesKept(T), DefinitionsKept, OnlyResolves,
         NEW V, NEW W, T \subseteq V,
         NEW i, i = Top.node, Verdict(V, W, i)'
  PROVE  Frames(V, W)'
<1> DEFINE m == Len(stack) - 1
<1>1. /\ Len(stack) = m + 1 /\ m \in Nat /\ DOMAIN stack = 1 .. m + 1
      /\ i = stack[m + 1].node
  BY TopTypes DEF Frames, Top
<1>2. \A k \in 1 .. m : stack[k].node # i
  BY WaitingGoesOn
<1>3. /\ stack' \in Seq(Frame) /\ Len(stack') = m /\ DOMAIN stack' = 1 .. m
      /\ \A k \in 1 .. m : /\ stack'[k].node = stack[k].node
                           /\ k < m => stack'[k].done = stack[k].done
                           /\ k = m => stack'[k].done = stack[k].done + 1
  <2>1. stack \in Seq(Frame)
    BY DEF Frames
  <2>2. stack' \in Seq(Frame) /\ Len(stack') = m
    BY <2>1, Popped
  <2>3. \A k \in 1 .. m : /\ stack'[k].node = stack[k].node
                          /\ k < m => stack'[k].done = stack[k].done
                          /\ k = m => stack'[k].done = stack[k].done + 1
    BY <2>1, Popped
  <2> QED BY <2>2, <2>3
<1>4. ASSUME NEW k \in 1 .. m, NEW j, j = stack[k].node, NEW d, d = stack[k].done, NEW c, c = d + 1
      PROVE  /\ Reached(V, j, d, 1)' /\ Calls(j)' \in {0, 1, 2}
             /\ Child(j, c)' = stack[k + 1].node
             /\ d \in Nat /\ j \in Position
  <2>1. /\ i = Top.node /\ k \in 1 .. Len(stack) - 1
        /\ j = stack[k].node /\ d = stack[k].done /\ c = d + 1
    BY <1>4
  <2>2. Reached(V, j, d, 1)'
    BY <2>1, WaitingKept
  <2>3. Calls(j)' \in {0, 1, 2}
    BY <2>1, WaitingKept
  <2>4. Child(j, c)' = stack[k + 1].node
    BY <2>1, ChildIsNext
  <2>5. d \in Nat /\ j \in Position
    BY <2>1, WaitingKept
  <2> QED BY <2>2, <2>3, <2>4, <2>5
<1> HIDE DEF m
<1>5. ASSUME NEW k \in 1 .. m
      PROVE  FrameOK(V, k)'
  <2>1. PICK j, d, c : j = stack[k].node /\ d = stack[k].done /\ c = d + 1
    OBVIOUS
  <2>2. /\ Reached(V, j, d, 1)' /\ Calls(j)' \in {0, 1, 2} /\ d \in Nat
        /\ Child(j, c)' = stack[k + 1].node
    BY <1>4, <2>1
  <2>3. CASE k < m
    <3>1. stack'[k].node = j /\ stack'[k].done = d /\ k < Len(stack')
      BY <1>3, <2>1, <2>3
    <3>2. k + 1 \in 1 .. m
      BY <1>1, <2>3
    <3>3. stack'[k + 1].node = Child(j, c)'
      BY <1>3, <2>2, <3>2
    <3> QED BY <2>1, <2>2, <3>1, <3>3 DEF FrameOK, Reached, Child, Calls, Kid, Operand
  <2>4. CASE k = m
    <3>1. stack'[k].node = j /\ stack'[k].done = d + 1 /\ ~(k < Len(stack'))
      BY <1>1, <1>3, <2>1, <2>4
    <3>2. Reached(V, j, d + 1, 0)'
      BY <2>2, ReachedNext
    <3> QED BY <3>1, <3>2 DEF FrameOK, Reached, Child, Calls, Kid, Operand
  <2> QED BY <1>1, <2>3, <2>4
<1>6. ASSUME NEW j \in 1 .. m, NEW k \in 1 .. m, j < k, stack[j].node = stack[k].node
      PROVE  stack'[k].done <= stack'[j].done
  <2>1. PICK n, b, c, b1, c1 : /\ n = stack[j].node /\ b = stack[j].done /\ c = stack[k].done
                               /\ b1 = b + 1 /\ c1 = c + 1
    OBVIOUS
  <2>2. /\ Child(n, b1)' = stack[j + 1].node /\ b \in Nat
        /\ Child(n, c1)' = stack[k + 1].node /\ c \in Nat
    BY <1>4, <1>6, <2>1
  <2>3. c <= b
    BY <1>1, <1>6, <2>1 DEF Frames, NoneOvertakes
  <2>4. stack'[j].done = b /\ j + 1 \in 1 .. m
    BY <1>1, <1>3, <1>6, <2>1
  <2>5. CASE k < m
    BY <1>3, <2>1, <2>3, <2>4, <2>5
  <2>6. CASE k = m
    <3>1. stack'[k].done = c + 1
      BY <1>3, <2>1, <2>6
    <3>2. b # c
      BY <1>1, <1>2, <2>1, <2>2, <2>4, <2>6
    <3> QED BY <2>2, <2>3, <2>4, <3>1, <3>2
  <2> QED BY <1>1, <2>5, <2>6
<1>7. NoneOvertakes'
  BY <1>3, <1>6 DEF NoneOvertakes
<1>8. ASSUME stack' # <<>>
      PROVE  /\ Child(Top.node, Top.done)' = i
             /\ \A k \in DOMAIN stack' : stack'[k].node # i
  <2>1. m \in 1 .. m /\ Top' = stack'[m]
    BY <1>1, <1>3, <1>8 DEF Top
  <2>2. PICK j, d, c : j = stack[m].node /\ d = stack[m].done /\ c = d + 1
    OBVIOUS
  <2>3. Child(j, c)' = i
    BY <1>1, <1>4, <2>1, <2>2
  <2>4. Top'.node = j /\ Top'.done = c
    BY <1>3, <2>1, <2>2
  <2> QED BY <1>2, <1>3, <2>3, <2>4 DEF Child, Kid, Operand
<1> QED BY <1>3, <1>5, <1>7, <1>8 DEF Frames, Verdict

LEMMA WaitingTypes ==
  ASSUME StatementsOK, ControlOK, pending # "none"
  PROVE  /\ Waiting \in StatementType
         /\ \E j \in 1 .. Len(ast) : /\ Waiting = ast[j]
                                     /\ j = IF pending = "visit" THEN pc ELSE Len(ast)
         /\ Waiting.root \in Position
         /\ pending = "label" => Waiting.op = "label"
         /\ Waiting.op \in {"label", "equ"} => Waiting.name \in AllNames
<1> DEFINE j == IF pending = "visit" THEN pc ELSE Len(ast)
<1>1. ast \in Seq(StatementType) /\ Len(ast) \in Nat
  BY DEF StatementsOK
<1>2. pc \in 1 .. Len(ast) + 1 /\ pending \in {"label", "space", "visit"}
  BY DEF ControlOK
<1>3. j \in 1 .. Len(ast)
  <2>1. CASE pending = "visit"
    <3>1. pc <= Len(ast)
      BY <2>1 DEF ControlOK
    <3> QED BY <1>1, <1>2, <2>1, <3>1
  <2>2. CASE pending # "visit"
    <3>1. ast # <<>>
      BY <1>2, <2>2 DEF ControlOK
    <3>2. Len(ast) \in 1 .. Len(ast)
      BY <1>1, <3>1
    <3> QED BY <2>2, <3>2
  <2> QED BY <2>1, <2>2
<1>4. Waiting = ast[j]
  BY DEF Waiting
<1> HIDE DEF j
<1>5. /\ ast[j] \in StatementType /\ ast[j].root <= Len(heap)
      /\ ast[j].op \in {"label", "equ"} => ast[j].name \in AllNames
  BY <1>1, <1>3 DEF StatementsOK
<1>6. Waiting.root # 0 /\ (pending = "label" => Waiting.op = "label")
  BY DEF ControlOK
<1>7. Waiting.root \in Position
  <2>1. Waiting.root \in Nat
    BY <1>4, <1>5 DEF StatementType
  <2> QED BY <1>4, <1>5, <1>6, <2>1 DEF Position
<1> QED BY <1>3, <1>4, <1>5, <1>6, <1>7 DEF j

\* The statement that waits for the outermost call.
LEMMA PendingAfterReturn ==
  ASSUME NEW T, NEW U, Marks(T, U), Frames(T, U), PendingOK(T, U), IsHeap(heap), StatementsOK,
         ControlOK, stack # <<>>, NextCall = {},
         stack' = PoppedStack, DefinitionsKept, OnlyResolves, UNCHANGED <<ast, pc, pending>>,
         NEW V, NEW W, NEW i, i = Top.node, Verdict(V, W, i)'
  PROVE  PendingOK(V, W)'
<1>1. pending # "none" /\ Waiting' = Waiting /\ stack[1].node = Waiting.root
  BY DEF ControlOK, PendingOK, Waiting
<1>2. /\ stack \in Seq(Frame) /\ Len(stack) \in Nat \ {0} /\ DOMAIN stack = 1 .. Len(stack)
      /\ i = stack[Len(stack)].node
  BY TopTypes DEF Frames, Top
<1>3. /\ stack' \in Seq(Frame) /\ Len(stack') = Len(stack) - 1
      /\ \A k \in 1 .. Len(stack) - 1 : stack'[k].node = stack[k].node
  BY <1>2, Popped
<1>4. IF stack' = <<>> THEN Waiting.root = i ELSE stack'[1].node = Waiting.root
  <2>1. CASE stack' = <<>>
    <3>1. Len(stack') = 0
      BY <2>1
    <3>2. Len(stack) = 1
      <4>1. Len(stack) - 1 = 0 /\ Len(stack) \in Nat
        BY <1>2, <1>3, <3>1, Zenon
      <4> QED BY <4>1
    <3> QED BY <1>1, <1>2, <2>1, <3>2
  <2>2. CASE stack' # <<>>
    <3>1. 1 \in 1 .. Len(stack) - 1
      BY <1>2, <1>3, <2>2
    <3> QED BY <1>1, <1>3, <2>2, <3>1
  <2> QED BY <2>1, <2>2
<1>5. ASSUME pending = "label" \/ (Waiting.op = "equ" /\ Waiting.live)
      PROVE  Lazy(Waiting.name)' /\ symbols'[Waiting.name].expr = Waiting.root
  <2>1. PICK n : n = Waiting.name
    OBVIOUS
  <2>2. Lazy(n) /\ symbols[n].expr = Waiting.root /\ symbols[n].expr # 0
    BY <1>1, <1>5, <2>1 DEF PendingOK, Lazy
  <2>3. n \in AllNames
    BY <1>1, <1>5, <2>1, WaitingTypes
  <2>4. symbols'[n].expr = symbols[n].expr
    BY <2>2, <2>3 DEF DefinitionsKept
  <2>5. ~(Running.op = "identifier" /\ Running.name = n /\ Top.done = 1)
    <3>1. SUFFICES ASSUME Running.op = "identifier", Running.name = n, Top.done = 1
                   PROVE  FALSE
      OBVIOUS
    <3>2. Child(Top.node, Top.done) = symbols[n].expr
      BY <3>1 DEF Child, Running
    <3>3. stack[1].node # symbols[n].expr
      <4>1. 1 \in DOMAIN stack /\ Top.done > 0
        BY <1>2, <3>1
      <4> QED BY <3>2, <4>1 DEF Frames
    <3> QED BY <1>1, <2>2, <3>3
  <2>6. Lazy(n)'
    BY <2>2, <2>3, <2>5 DEF OnlyResolves
  <2> QED BY <1>1, <2>1, <2>2, <2>4, <2>6 DEF Lazy
<1>6. IF stack' = <<>> THEN Verdict(V, W, Waiting.root)' ELSE stack'[1].node = Waiting.root
  BY <1>1, <1>4 DEF Verdict
<1> QED BY <1>1, <1>5, <1>6 DEF PendingOK

\* Sizes that were reserved stay those of their operands.
LEMMA SpacesAfterReturn ==
  ASSUME NEW T, SpacesOK(T), NodesKept(T), NEW V, T \subseteq V,
         UNCHANGED <<ast, phase, pc, pending>>, error_count' = 0 => error_count = 0
  PROVE  SpacesOK(V)'
<1>1. SpaceFillsWhatItReserved'
  BY DEF SpacesOK, SpaceFillsWhatItReserved
<1>2. ASSUME phase \in {"generate", "done"} \/ (phase = "parse" /\ error_count' = 0),
             NEW j \in 1 .. Len(ast), ast[j].op = "space", ~(pending = "space" /\ j = Len(ast))
      PROVE  ast[j].root \in V /\ ast[j].size = Low16(heap[ast[j].root].value)'
  <2>1. ast[j].root \in T /\ ast[j].size = Low16(heap[ast[j].root].value)
    BY <1>2 DEF SpacesOK
  <2>2. heap'[ast[j].root] = heap[ast[j].root]
    BY <2>1 DEF NodesKept
  <2> QED BY <2>1, <2>2 DEF Low16
<1> QED BY <1>1, <1>2 DEF SpacesOK, Low16

LEMMA ReturnConsistent ==
  ASSUME NEW T, NEW U, Consistent(T, U), Typed, stack # <<>>, NextCall = {},
         stack' = PoppedStack, NodesKept(T \cup U), DefinitionsKept, OnlyResolves,
         UNCHANGED <<ast, phase, pc, pending>>, error_count' = 0 => error_count = 0,
         NEW V, NEW W, T \subseteq V, Marks(V, W)',
         NEW i, i = Top.node, Verdict(V, W, i)'
  PROVE  Consistent(V, W)'
<1>1. /\ Marks(T, U) /\ Frames(T, U) /\ PendingOK(T, U) /\ SpacesOK(T)
      /\ IsHeap(heap) /\ StatementsOK /\ ControlOK
  BY DEF Consistent, Typed
<1>2. NodesKept(T)
  BY DEF NodesKept
<1>3. Frames(V, W)'
  BY <1>1, <1>2, FramesAfterReturn
<1>4. PendingOK(V, W)'
  BY <1>1, PendingAfterReturn
<1>5. SpacesOK(V)'
  BY <1>1, <1>2, SpacesAfterReturn
<1> QED BY <1>3, <1>4, <1>5 DEF Consistent

-----------------------------------------------------------------------------
\* Marks after a node is given its result.

LEMMA SoundMore ==
  ASSUME NEW T, NEW U, NEW V, NEW W, T \subseteq V, U \subseteq W, NEW i
  PROVE  /\ Sound(T, U, i)' => Sound(V, W, i)'
         /\ Unsound(T, U, i)' => Unsound(V, W, i)'
<1>1. Sound(T, U, i)' => Sound(V, W, i)'
  BY DEF Sound
<1>2. Unsound(T, U, i)' => Unsound(V, W, i)'
  BY DEF Unsound
<1> QED BY <1>1, <1>2

\* The call of i gave a result that marks can account for.
Resumes(T, i) == \E V, W : T \subseteq V /\ Marks(V, W)' /\ Verdict(V, W, i)'

NewlyResolved(M) ==
  \A n \in AllNames :
    symbols'[n].type \in Resolved => \/ symbols[n].type \in Resolved
                                     \/ symbols[n].expr \in M /\ symbols[n].expr # 0

LEMMA NewMarks ==
  ASSUME NEW T, NEW U, Marks(T, U), NodesKept(T \cup U), DefinitionsKept, IsHeap(heap), SymbolsOK,
         NewlyResolved(T \cup U),
         NEW V, NEW W, T \subseteq V, U \subseteq W, V \subseteq Position', W \subseteq Position',
         V \cap W = {},
         \A i \in V \ T : Sound(V, W, i)', \A i \in W \ U : Unsound(V, W, i)'
  PROVE  Marks(V, W)'
<1>1. \A i \in T : Sound(V, W, i)'
  BY SoundKept
<1>2. \A i \in U : Unsound(V, W, i)'
  BY UnsoundKept
<1>3. ASSUME NEW n \in AllNames, symbols'[n].type \in Resolved
      PROVE  symbols'[n].expr \in V \cup W
  <2>1. symbols[n].expr \in T \cup U
    BY <1>3 DEF NewlyResolved, Marks
  <2>2. symbols[n].expr # 0
    <3>1. T \cup U \subseteq Position
      BY DEF Marks
    <3>2. 0 \notin Position
      BY HeapLength DEF Position
    <3> QED BY <2>1, <3>1, <3>2
  <2>3. symbols'[n].expr = symbols[n].expr
    BY <2>2 DEF DefinitionsKept
  <2> QED BY <2>1, <2>3
<1> QED BY <1>1, <1>2, <1>3 DEF Marks

LEMMA FreshResult ==
  ASSUME NEW T, NEW U, Marks(T, U), NodesKept(T \cup U), DefinitionsKept, IsHeap(heap), SymbolsOK,
         NewlyResolved(T \cup U), NEW i \in Position, i \notin T \cup U, ok' \in BOOLEAN,
         ok' => Sound(T, U, i)',
         ~ok' => heap'[i].type = "INVALID" \/ Unsound(T, U, i)'
  PROVE  Resumes(T, i)
<1>1. /\ i \in Position' /\ T \subseteq Position' /\ U \subseteq Position' /\ T \cap U = {}
  BY DEF NodesKept, Marks
<1>2. CASE ok'
  <2> DEFINE V == T \cup {i}
  <2>1. Sound(V, U, i)'
    BY <1>2, SoundMore
  <2>2. V \cap U = {} /\ V \subseteq Position' /\ T \subseteq V /\ \A j \in V \ T : j = i
    BY <1>1
  <2>3. \A j \in V \ T : Sound(V, U, j)'
    BY <2>1, <2>2
  <2> HIDE DEF V
  <2>4. Marks(V, U)'
    BY <1>1, <2>2, <2>3, NewMarks
  <2>5. Verdict(V, U, i)'
    BY <1>2 DEF Verdict, V
  <2> QED BY <2>2, <2>4, <2>5 DEF Resumes
<1>3. CASE ~ok' /\ heap'[i].type = "INVALID"
  <2>1. Marks(T, U)'
    BY <1>1, NewMarks
  <2>2. Verdict(T, U, i)'
    BY <1>3 DEF Verdict
  <2> QED BY <2>1, <2>2 DEF Resumes
<1>4. CASE ~ok' /\ Unsound(T, U, i)'
  <2> DEFINE W == U \cup {i}
  <2>1. Unsound(T, W, i)'
    BY <1>4, SoundMore
  <2>2. T \cap W = {} /\ W \subseteq Position' /\ U \subseteq W /\ \A j \in W \ U : j = i
    BY <1>1
  <2>3. \A j \in W \ U : Unsound(T, W, j)'
    BY <2>1, <2>2
  <2> HIDE DEF W
  <2>4. Marks(T, W)'
    BY <1>1, <2>2, <2>3, NewMarks
  <2>5. Verdict(T, W, i)'
    BY <1>4 DEF Verdict, W
  <2> QED BY <2>4, <2>5 DEF Resumes
<1> QED BY <1>2, <1>3, <1>4

\* A marked node is given the result it has.
LEMMA SameResult ==
  ASSUME NEW T, NEW U, Marks(T, U), IsHeap(heap), SymbolsOK, UNCHANGED <<heap, symbols>>,
         NEW i \in T \cup U,
         ok' <=> i \in T
  PROVE  Resumes(T, i)
<1>1. NodesKept(T \cup U) /\ DefinitionsKept /\ NewlyResolved(T \cup U)
  BY DEF NodesKept, DefinitionsKept, NewlyResolved, Position
<1>2. T \subseteq Position' /\ U \subseteq Position' /\ T \cap U = {}
  BY DEF Marks, Position
<1>3. Marks(T, U)'
  BY <1>1, <1>2, NewMarks
<1>4. Verdict(T, U, i)'
  BY DEF Verdict
<1> QED BY <1>3, <1>4 DEF Resumes

LEMMA BinaryCases ==
  ASSUME NEW op \in {"+", "-"} \cup WordOps \cup Relational, NEW l, NEW r
  PROVE  \/ \A old : BinaryOutcome(op, l, r, old) = Refused(old)
         \/ \A a, b : BinaryOutcome(op, l, r, a) = BinaryOutcome(op, l, r, b)
<1>1. CASE op \in WordOps
  <2>1. \/ \A old : BinaryOutcome(op, l, r, old) = Refused(old)
        \/ \A old : BinaryOutcome(op, l, r, old) =
                      Checked("ABSOLUTE", WordValue(op, l.value, r.value), "")
    BY <1>1, WordCases, Zenon
  <2> QED BY <2>1, Zenon
<1>2. CASE op = "+"
  <2>1. \/ \A old : BinaryOutcome("+", l, r, old) = Refused(old)
        \/ \E type \in {"ABSOLUTE", "LABEL"} :
             \A old : BinaryOutcome("+", l, r, old) =
                        CheckedSum(type, l.value + r.value, MovedSymbol(l, r))
    BY SumCases, Zenon
  <2> QED BY <1>2, <2>1, Zenon
<1>3. CASE op = "-"
  <2>1. \/ \A old : BinaryOutcome("-", l, r, old) = Refused(old)
        \/ \E type \in {"ABSOLUTE", "LABEL"} :
             \A old : BinaryOutcome("-", l, r, old) =
                        Checked(type, l.value - r.value, MovedSymbol(l, r))
    BY DifferenceCases, Zenon
  <2> QED BY <1>3, <2>1, Zenon
<1>4. CASE op \in Relational
  <2>1. \/ \A old : BinaryOutcome(op, l, r, old) = Refused(old)
        \/ \A old : BinaryOutcome(op, l, r, old) =
                      Settled("ABSOLUTE", RelationalValue(op, l.value, r.value), "")
    BY <1>4, RelationalCases, Zenon
  <2> QED BY <2>1, Zenon
<1> QED BY <1>1, <1>2, <1>3, <1>4

\* A result with a type does not depend on the value the node had.
LEMMA OldIsNotUsed ==
  ASSUME NEW op \in Operators \ {"value", "identifier"}, NEW args, NEW a, NEW b,
         OperationOutcome(op, args, a).type # "INVALID"
  PROVE  /\ OperationOutcome(op, args, b) = OperationOutcome(op, args, a)
         /\ op = "?:" => args[1].type = "ABSOLUTE" /\ OperationOutcome(op, args, a).ok
<1>1. PICK l, r : l = args[1] /\ r = args[2]
  OBVIOUS
<1>2. \A old : Refused(old).type = "INVALID"
  BY DEF Refused, Outcome
<1>3. CASE op = "()"
  BY <1>3 DEF OperationOutcome, Unary
<1>4. CASE op \in Unary
  <2>1. \A old : OperationOutcome(op, args, old) = UnaryOutcome(op, l, old)
    BY <1>1, <1>4 DEF OperationOutcome, Unary
  <2>2. l.type # "LABEL"
    BY <1>2, <2>1 DEF UnaryOutcome
  <2> DEFINE outcome == Checked(l.type, UnaryValue(op, l.value), l.symbol)
  <2>3. ASSUME NEW old
        PROVE  OperationOutcome(op, args, old) = outcome
    BY <2>1, <2>2 DEF UnaryOutcome
  <2> HIDE DEF outcome
  <2>4. OperationOutcome(op, args, b) = OperationOutcome(op, args, a)
    BY <2>3, Zenon
  <2>5. op # "?:"
    BY <1>4 DEF Unary
  <2> QED BY <2>4, <2>5
<1>5. CASE op = "?:"
  <2>1. ASSUME NEW old
        PROVE  OperationOutcome(op, args, old) =
                 IF l.type # "ABSOLUTE" THEN Refused(old) ELSE Settled(r.type, r.value, r.symbol)
    BY <1>1, <1>5 DEF OperationOutcome, Unary
  <2>2. l.type = "ABSOLUTE"
    BY <1>2, <2>1
  <2>3. \A old : OperationOutcome(op, args, old) = Settled(r.type, r.value, r.symbol)
    BY <2>1, <2>2
  <2>4. Settled(r.type, r.value, r.symbol).ok
    BY DEF Settled, Outcome
  <2>5. OperationOutcome(op, args, b) = OperationOutcome(op, args, a)
    BY <2>3, Zenon
  <2>6. OperationOutcome(op, args, a).ok
    BY <2>3, <2>4, Zenon
  <2> QED BY <1>1, <2>2, <2>5, <2>6
<1>6. CASE op \in {"+", "-"} \cup WordOps \cup Relational
  <2>1. op \notin Unary /\ op # "()" /\ op # "?:"
    BY <1>6 DEF Unary, WordOps, Relational
  <2>2. \A old : OperationOutcome(op, args, old) = BinaryOutcome(op, l, r, old)
    BY <1>1, <2>1 DEF OperationOutcome
  <2>3. BinaryOutcome(op, l, r, a).type # "INVALID"
    BY <2>2
  <2>4. ~ \A old : BinaryOutcome(op, l, r, old) = Refused(old)
    BY <1>2, <2>3, Zenon
  <2>5. \A x, y : BinaryOutcome(op, l, r, x) = BinaryOutcome(op, l, r, y)
    BY <1>6, <2>4, BinaryCases
  <2>6. BinaryOutcome(op, l, r, b) = BinaryOutcome(op, l, r, a)
    BY <2>5, Zenon
  <2> QED BY <2>1, <2>2, <2>6
<1> QED BY <1>3, <1>4, <1>5, <1>6 DEF Operators

-----------------------------------------------------------------------------
\* What a return writes.

LEMMA ReturnWrites ==
  ASSUME NEW T, NEW U, Frames(T, U), IsHeap(heap), stack # <<>>,
         NEW outcome, outcome.type \in HeapTypes, outcome.value \in Int,
         outcome.symbol \in AllNames \cup {""}, Return(outcome), NEW i, i = Top.node
  PROVE  /\ IsHeap(heap)' /\ Len(heap') = Len(heap) /\ i \in Position
         /\ NodesKept(Position \ {i})
         /\ heap'[i].type = outcome.type /\ heap'[i].value = outcome.value
         /\ heap'[i].symbol = outcome.symbol
         /\ heap[i].type = outcome.type /\ heap[i].value = outcome.value
            /\ heap[i].symbol = outcome.symbol => heap' = heap
<1>1. i \in 1 .. Len(heap) /\ heap \in Seq(Node) /\ Len(heap) \in Nat
  BY TopTypes, HeapLength DEF Position
<1> DEFINE n == Written(heap[i], outcome.type, outcome.value, outcome.symbol)
<1>2. heap' = Put(heap, i, n)
  BY <1>1 DEF Return, Put, Written
<1>3. /\ IsHeap(heap') /\ IsPut(heap', heap, i, n)
      /\ IsWritten(n, heap[i], outcome.type, outcome.value, outcome.symbol)
  BY <1>1, <1>2, HeapWrite
<1> HIDE DEF n
<1>4. /\ heap'[i] = n /\ Len(heap') = Len(heap)
      /\ \A j \in 1 .. Len(heap) : j # i => heap'[j] = heap[j]
      /\ n = heap[i] => heap' = heap
  BY <1>3 DEF IsPut
<1>5. /\ n.op = heap[i].op /\ n.kids = heap[i].kids /\ n.name = heap[i].name
      /\ n.type = outcome.type /\ n.value = outcome.value /\ n.symbol = outcome.symbol
      /\ outcome.type = heap[i].type /\ outcome.value = heap[i].value
         /\ outcome.symbol = heap[i].symbol => n = heap[i]
  BY <1>3 DEF IsWritten
<1>6. NodesKept(Position \ {i})
  BY <1>1, <1>4, <1>5 DEF NodesKept, Position
<1> QED BY <1>1, <1>3, <1>4, <1>5, <1>6 DEF Position, IsHeap, IsNode

\* A symbol with an expression and no type is given one.
Resolves(n, type) ==
  /\ n \in AllNames /\ Lazy(n) /\ type \in Resolved \cup {"INVALID"}
  /\ symbols' = [symbols EXCEPT ![n].type = type]

LEMMA ResolveSymbol ==
  ASSUME SymbolsOK, NEW n, NEW type, Resolves(n, type)
  PROVE  /\ symbols' \in [AllNames -> Entries]
         /\ \A m \in AllNames : m # n => symbols'[m] = symbols[m]
         /\ symbols'[n].type = type /\ symbols'[n].expr = symbols[n].expr
         /\ symbols'[n].section = symbols[n].section
         /\ DefinitionsKept
<1>1. n \in AllNames /\ symbols \in [AllNames -> Entries] /\ symbols[n].type = "UNDEFINED"
      /\ type \in SymbolTypes
  BY DEF Resolves, SymbolsOK, Lazy, SymbolTypes
<1>2. symbols[n] \in Entries
  BY <1>1
<1> DEFINE e == [symbols[n] EXCEPT !.type = type]
<1>3. e \in Entries /\ e.type = type /\ e.expr = symbols[n].expr /\ e.section = symbols[n].section
  BY <1>1, <1>2 DEF Entries
<1>4. symbols' = [symbols EXCEPT ![n] = e]
  BY <1>1 DEF Resolves
<1> HIDE DEF e
<1>5. /\ symbols' \in [AllNames -> Entries] /\ symbols'[n] = e
      /\ \A m \in AllNames : m # n => symbols'[m] = symbols[m]
  BY <1>1, <1>3, <1>4
<1>6. "UNDEFINED" \notin Resolved
  BY DEF Resolved
<1>7. DefinitionsKept
  BY <1>1, <1>3, <1>5, <1>6 DEF DefinitionsKept
<1> QED BY <1>3, <1>5, <1>7

LEMMA LineNameTypes ==
  /\ MaxLines \in Nat
  /\ \A k \in 1 .. MaxLines :
       /\ LineNames[k] \in AllNames /\ LineNames[k] \notin SymbolNames /\ LineNames[k] # ""
       /\ LineNames[k] # "."
       /\ \A j \in 1 .. MaxLines : LineNames[j] = LineNames[k] => j = k
<1>1. MaxLines \in Nat /\ AreLineNames(LineNames)
  BY LineNamesAssumption
<1>2. LineNames \in Seq(STRING) /\ Len(LineNames) >= MaxLines
  BY <1>1 DEF AreLineNames
<1>3. \A k \in 1 .. MaxLines : k \in DOMAIN LineNames
  BY <1>1, <1>2
<1> QED BY <1>1, <1>3 DEF AreLineNames, AllNames

LEMMA SymbolsAfterReturn ==
  ASSUME SymbolsOK, IsHeap(heap), Len(heap') = Len(heap), NodesKept({}),
         table' = table, Len(ast) \in Nat, Len(ast') = Len(ast),
         symbols' = symbols \/ \E n, type : Resolves(n, type)
  PROVE  SymbolsOK' /\ DefinitionsKept
<1>1. \A i \in Position' : i \in Position /\ heap'[i].op = heap[i].op /\ heap'[i].name = heap[i].name
  BY DEF NodesKept, Position
<1>2. Entries' = Entries
  BY DEF Entries
<1>3. CASE symbols' = symbols
  <2>1. DefinitionsKept
    BY <1>3 DEF DefinitionsKept
  <2>2. SymbolsOK'
    BY <1>1, <1>2, <1>3 DEF SymbolsOK
  <2> QED BY <2>1, <2>2
<1>4. ASSUME NEW n, NEW type, Resolves(n, type)
      PROVE  SymbolsOK' /\ DefinitionsKept
  <2>1. /\ symbols' \in [AllNames -> Entries] /\ DefinitionsKept
        /\ \A m \in AllNames : m # n => symbols'[m] = symbols[m]
        /\ symbols'[n].type = type /\ symbols'[n].expr = symbols[n].expr
    BY <1>4, ResolveSymbol
  <2>2. /\ n \in AllNames /\ symbols[n].type = "UNDEFINED" /\ symbols[n].expr # 0
        /\ type # "absent" /\ symbols[n] # Absent
    BY <1>4 DEF Resolves, Lazy, Resolved, Absent
  <2>3. \A m \in AllNames :
          /\ symbols'[m].expr = 0 => symbols'[m].type \in {"absent", "UNDEFINED"}
          /\ symbols'[m].type = "absent" => symbols'[m] = Absent
          /\ symbols[m].type # "absent" => symbols'[m].type # "absent"
          /\ symbols[m] = Absent => symbols'[m] = Absent
    BY <2>1, <2>2 DEF SymbolsOK
  <2>4. \A i \in Position' : heap'[i].op = "identifier" => symbols'[heap'[i].name].type # "absent"
    <3>1. \A i \in Position : heap[i].op = "identifier" => heap[i].name \in AllNames
      BY NodeTypes DEF Position
    <3> QED BY <1>1, <2>3, <3>1 DEF SymbolsOK
  <2>5. \A k \in Len(ast') + 1 .. MaxLines : symbols'[LineNames[k]] = Absent
    <3>1. ASSUME NEW k \in Len(ast) + 1 .. MaxLines, symbols[LineNames[k]] = Absent
          PROVE  symbols'[LineNames[k]] = Absent
      <4>1. k \in 1 .. MaxLines
        BY <3>1
      <4>2. LineNames[k] \in AllNames
        BY <4>1, LineNameTypes
      <4> QED BY <2>3, <3>1, <4>2
    <3> QED BY <3>1 DEF SymbolsOK
  <2>6. Absent' = Absent
    BY DEF Absent
  <2> QED BY <1>2, <2>1, <2>3, <2>4, <2>5, <2>6 DEF SymbolsOK
<1> QED BY <1>3, <1>4

LEMMA LengthIsNat ==
  ASSUME NEW X, NEW s \in Seq(X)
  PROVE  Len(s) \in Nat
OBVIOUS

LEMMA NatSum ==
  ASSUME NEW a \in Nat, NEW b \in Nat
  PROVE  a + b \in Nat /\ (a + b = 0 => a = 0 /\ b = 0)
OBVIOUS

LEMMA TypedAfterReturn ==
  ASSUME NEW T, NEW U, Typed, Frames(T, U), stack # <<>>,
         NEW outcome, outcome.type \in HeapTypes, outcome.value \in Int,
         outcome.symbol \in AllNames \cup {""}, outcome.ok \in BOOLEAN,
         outcome.errors \in Nat, outcome.warnings \in Nat, Return(outcome),
         symbols' = symbols \/ \E n, type : Resolves(n, type)
  PROVE  Typed' /\ DefinitionsKept
<1>1. /\ UNCHANGED <<table, current_section, ast, phase, pc, pending, garbage>>
      /\ ok' = outcome.ok /\ error_count' = error_count + outcome.errors
      /\ warning_count' = warning_count + outcome.warnings
  BY DEF Return, sectionVars
<1>2. PICK i : i = Top.node
  OBVIOUS
<1>3. IsHeap(heap)' /\ Len(heap') = Len(heap) /\ NodesKept(Position \ {i})
  BY <1>2, ReturnWrites DEF Typed
<1>4. NodesKept({}) /\ Len(ast) \in Nat
  <2>1. NodesKept({})
    BY <1>3 DEF NodesKept
  <2>2. Len(ast) \in Nat
    <3>1. StatementsOK
      BY DEF Typed
    <3>2. ast \in Seq(StatementType)
      BY <3>1 DEF StatementsOK
    <3> QED BY <3>2, LengthIsNat, Zenon
  <2> QED BY <2>1, <2>2
<1>5. SymbolsOK' /\ DefinitionsKept
  BY <1>1, <1>3, <1>4, SymbolsAfterReturn DEF Typed
<1>6. S!TypeOK' /\ S!TableWellFormed'
  BY <1>1 DEF Typed, S!TypeOK, S!TableWellFormed
<1>7. StatementsOK'
  <2>1. ASSUME NEW j \in 1 .. Len(ast), ast[j].op = "equ", ast[j].live
        PROVE  symbols'[ast[j].name].expr = ast[j].root
    <3>1. /\ ast[j].name \in AllNames /\ ast[j].root # 0
          /\ symbols[ast[j].name].expr = ast[j].root
      BY <2>1 DEF Typed, StatementsOK, Evaluating
    <3> QED BY <1>5, <3>1 DEF DefinitionsKept
  <2>2. StatementsOK
    BY DEF Typed
  <2> QED BY <1>1, <1>3, <2>1, <2>2 DEF StatementsOK
<1>8. ControlOK'
  <2>1. ControlOK
    BY DEF Typed
  <2>2. Waiting' = Waiting /\ pending # "none"
    BY <1>1, <2>1 DEF Waiting, ControlOK
  <2>3. error_count' \in Nat /\ warning_count' \in Nat
    <3>1. PICK e, w : e = outcome.errors /\ w = outcome.warnings
      OBVIOUS
    <3>2. error_count \in Nat /\ warning_count \in Nat /\ e \in Nat /\ w \in Nat
      BY <2>1, <3>1 DEF ControlOK
    <3>3. error_count' = error_count + e /\ warning_count' = warning_count + w
      BY <1>1, <3>1
    <3> QED BY <3>2, <3>3, NatSum
  <2> QED BY <1>1, <2>1, <2>2, <2>3 DEF ControlOK
<1> QED BY <1>3, <1>5, <1>6, <1>7, <1>8 DEF Typed

\* What a return may give, to a node that has a mark and to one that has none.
TypedOutcome(outcome) ==
  /\ outcome.type \in HeapTypes /\ outcome.value \in Int
  /\ outcome.symbol \in AllNames \cup {""} /\ outcome.ok \in BOOLEAN
  /\ outcome.errors \in Nat /\ outcome.warnings \in Nat

MarkedOutcome(T, U, i, outcome) ==
  i \in T \cup U =>
    /\ heap[i].type = outcome.type /\ heap[i].value = outcome.value
    /\ heap[i].symbol = outcome.symbol
    /\ symbols' = symbols /\ (outcome.ok <=> i \in T)

FreshOutcome(T, U, i, outcome) ==
  i \notin T \cup U =>
    /\ NewlyResolved(T \cup U)
    /\ outcome.ok => Sound(T, U, i)'
    /\ ~outcome.ok => outcome.type = "INVALID" \/ Unsound(T, U, i)'

SymbolsMove ==
  \/ symbols' = symbols
  \/ /\ Running.op = "identifier" /\ Top.done = 1
     /\ \E type : Resolves(Running.name, type)

LEMMA ReturnKeeps ==
  ASSUME NEW T, NEW U, Typed, Consistent(T, U), stack # <<>>, NextCall = {}, SymbolsMove,
         NEW outcome, TypedOutcome(outcome), Return(outcome), NEW i, i = Top.node,
         MarkedOutcome(T, U, i, outcome), FreshOutcome(T, U, i, outcome)
  PROVE  Typed' /\ \E V, W : Consistent(V, W)'
<1>0. /\ outcome.type \in HeapTypes /\ outcome.value \in Int
      /\ outcome.symbol \in AllNames \cup {""} /\ outcome.ok \in BOOLEAN
      /\ outcome.errors \in Nat /\ outcome.warnings \in Nat
  BY DEF TypedOutcome
<1>1. /\ UNCHANGED <<ast, phase, pc, pending>> /\ stack' = PoppedStack
      /\ ok' = outcome.ok /\ error_count' = error_count + outcome.errors
  BY DEF Return
<1>2. /\ Marks(T, U) /\ Frames(T, U) /\ IsHeap(heap) /\ SymbolsOK /\ error_count \in Nat
  BY DEF Consistent, Typed, ControlOK
<1>3. symbols' = symbols \/ \E n, type : Resolves(n, type)
  BY DEF SymbolsMove
<1>4. Typed' /\ DefinitionsKept
  BY <1>0, <1>2, <1>3, TypedAfterReturn
<1>5. /\ Len(heap') = Len(heap) /\ i \in Position /\ NodesKept(Position \ {i})
      /\ heap'[i].type = outcome.type
      /\ heap[i].type = outcome.type /\ heap[i].value = outcome.value
         /\ heap[i].symbol = outcome.symbol => heap' = heap
  BY <1>0, <1>2, ReturnWrites
<1>6. T \subseteq Position /\ U \subseteq Position
  BY <1>2 DEF Marks
<1>7. NodesKept(T \cup U)
  <2>1. CASE i \in T \cup U
    <3>1. heap' = heap
      BY <1>5, <2>1 DEF MarkedOutcome
    <3> QED BY <1>6, <3>1 DEF NodesKept, Position
  <2>2. CASE i \notin T \cup U
    <3>1. T \cup U \subseteq Position \ {i}
      BY <1>6, <2>2
    <3> QED BY <1>5, <3>1 DEF NodesKept
  <2> QED BY <2>1, <2>2
<1>8. OnlyResolves
  <2>1. CASE symbols' = symbols
    BY <2>1 DEF OnlyResolves, Lazy
  <2>2. ASSUME Running.op = "identifier", Top.done = 1,
               NEW type, Resolves(Running.name, type)
        PROVE  OnlyResolves
    <3>1. PICK n : n = Running.name
      OBVIOUS
    <3>2. Resolves(n, type)
      BY <2>2, <3>1
    <3>3. \A m \in AllNames : m # n => symbols'[m] = symbols[m]
      BY <1>2, <3>2, ResolveSymbol
    <3> QED BY <2>2, <3>1, <3>3 DEF OnlyResolves, Lazy
  <2> QED BY <2>1, <2>2 DEF SymbolsMove
<1>9. Resumes(T, i)
  <2>1. CASE i \in T \cup U
    <3>1. UNCHANGED <<heap, symbols>> /\ (ok' <=> i \in T)
      BY <1>1, <1>5, <2>1 DEF MarkedOutcome
    <3> QED BY <1>2, <2>1, <3>1, SameResult
  <2>2. CASE i \notin T \cup U
    <3>1. /\ ok' \in BOOLEAN /\ NewlyResolved(T \cup U)
          /\ ok' => Sound(T, U, i)'
          /\ ~ok' => heap'[i].type = "INVALID" \/ Unsound(T, U, i)'
      BY <1>0, <1>1, <1>5, <2>2 DEF FreshOutcome
    <3> QED BY <1>2, <1>4, <1>5, <1>7, <2>2, <3>1, FreshResult
  <2> QED BY <2>1, <2>2
<1>10. PICK V, W : T \subseteq V /\ Marks(V, W)' /\ Verdict(V, W, i)'
  BY <1>9 DEF Resumes
<1>11. error_count' = 0 => error_count = 0
  <2>1. PICK e : e = outcome.errors
    OBVIOUS
  <2>2. error_count' = error_count + e /\ error_count \in Nat /\ e \in Nat
    BY <1>0, <1>1, <1>2, <2>1
  <2> QED BY <2>2, NatSum
<1>12. Consistent(V, W)'
  BY <1>1, <1>4, <1>7, <1>8, <1>10, <1>11, ReturnConsistent
<1> QED BY <1>4, <1>12

LEMMA ReportNumbers ==
  ASSUME NEW e \in {0, 1}, NEW w \in {0, 1}
  PROVE  e \in Nat /\ w \in Nat /\ (e + w = 0 => e = 0 /\ w = 0)
OBVIOUS

LEMMA OutcomeFields ==
  ASSUME NEW types, types \subseteq HeapTypes, NEW names, names \subseteq AllNames \cup {""},
         NEW outcome, IsOutcome(outcome, types, names)
  PROVE  /\ TypedOutcome(outcome) /\ outcome.symbol \in names
         /\ outcome.type \in types \cup {"INVALID"} /\ (outcome.ok => outcome.type \in types)
         /\ outcome.ok \/ outcome.errors + outcome.warnings # 0
<1>1. /\ outcome.ok \in BOOLEAN /\ outcome.type \in types \cup {"INVALID"}
      /\ outcome.value \in Int /\ outcome.symbol \in names
      /\ outcome.errors \in {0, 1} /\ outcome.warnings \in {0, 1}
      /\ outcome.ok <=> outcome.errors = 0 /\ outcome.warnings = 0
      /\ outcome.ok => outcome.type \in types
  BY DEF IsOutcome
<1>2. "INVALID" \in HeapTypes
  BY DEF HeapTypes
<1>3. TypedOutcome(outcome)
  <2>1. outcome.type \in HeapTypes
    BY <1>1, <1>2
  <2>2. outcome.symbol \in AllNames \cup {""}
    BY <1>1
  <2>4. outcome.errors \in Nat /\ outcome.warnings \in Nat
    BY <1>1, ReportNumbers, Zenon
  <2> QED BY <1>1, <2>1, <2>2, <2>4 DEF TypedOutcome
<1>5. outcome.ok \/ outcome.errors + outcome.warnings # 0
  <2>1. PICK e, w : e = outcome.errors /\ w = outcome.warnings
    OBVIOUS
  <2>2. outcome.ok \/ e # 0 \/ w # 0
    BY <1>1, <2>1
  <2>3. e + w = 0 => e = 0 /\ w = 0
    BY <1>1, <2>1, ReportNumbers, Zenon
  <2> QED BY <2>1, <2>2, <2>3, Zenon
<1> QED BY <1>1, <1>3, <1>5

\* Nothing has changed but node i.
LEMMA NothingResolved ==
  ASSUME NEW T, NEW U, Marks(T, U), IsHeap(heap), symbols' = symbols
  PROVE  NewlyResolved(T \cup U)
BY DEF NewlyResolved

LEMMA EvaluateValueKeeps ==
  ASSUME NEW T, NEW U, Typed, Consistent(T, U), EvaluateValue
  PROVE  Typed' /\ \E V, W : Consistent(V, W)'
<1>1. PICK i, outcome : i = Top.node /\ outcome = Checked("ABSOLUTE", heap[i].value, "")
  OBVIOUS
<1>2. /\ stack # <<>> /\ NextCall = {} /\ Return(outcome) /\ symbols' = symbols
      /\ heap[i].op = "value"
  BY <1>1 DEF EvaluateValue, Return, InCall, Running
<1>3. /\ Marks(T, U) /\ Frames(T, U) /\ IsHeap(heap)
  BY DEF Consistent, Typed
<1>4. i \in Position /\ heap[i].value \in Int
  BY <1>1, <1>2, <1>3, TopTypes, NodeTypes DEF Position
<1>5. IsOutcome(outcome, {"ABSOLUTE"}, {""})
  BY <1>1, <1>4, OutcomeTypes
<1>6. TypedOutcome(outcome)
  <2>1. {"ABSOLUTE"} \subseteq HeapTypes /\ {""} \subseteq AllNames \cup {""}
    BY DEF HeapTypes
  <2> QED BY <1>5, <2>1, OutcomeFields
<1>7. PICK v : v = heap[i].value
  OBVIOUS
<1>8. /\ outcome.type = "ABSOLUTE" /\ outcome.value = v /\ outcome.symbol = ""
      /\ outcome.ok <=> Fits(v)
  BY <1>1, <1>7 DEF Checked, Settled, Outcome
<1>9. MarkedOutcome(T, U, i, outcome)
  <2>1. /\ i \in T => Fits(v) /\ heap[i].type = "ABSOLUTE" /\ heap[i].symbol = ""
        /\ i \in U => ~Fits(v) /\ heap[i].type = "ABSOLUTE" /\ heap[i].symbol = ""
    BY <1>2, <1>3, <1>7 DEF Marks, Sound, Unsound
  <2>2. i \notin T \cap U
    BY <1>3 DEF Marks
  <2> QED BY <1>2, <1>7, <1>8, <2>1, <2>2 DEF MarkedOutcome
<1>10. FreshOutcome(T, U, i, outcome)
  <2>1. /\ NodesKept(Position \ {i}) /\ heap'[i].type = outcome.type
        /\ heap'[i].value = outcome.value /\ heap'[i].symbol = outcome.symbol
    BY <1>1, <1>2, <1>3, <1>6, ReturnWrites DEF TypedOutcome
  <2>2. heap'[i].op = "value"
    BY <1>2, <1>4, <2>1 DEF NodesKept
  <2>3. "value" \in Leaf /\ "ABSOLUTE" \in Resolved
    BY DEF Leaf, Resolved
  <2> DEFINE node == heap'[i]
  <2>7. node.op = "value" /\ node.type = "ABSOLUTE" /\ node.symbol = "" /\ node.value = v
    BY <1>8, <2>1, <2>2, Zenon
  <2>8. Fits(heap[i].value)' <=> Fits(v)
    <3>1. heap'[i].value = v
      BY <2>7
    <3> QED BY <3>1 DEF Fits
  <2>4. ASSUME Fits(v)
        PROVE  Sound(T, U, i)'
    BY <2>3, <2>4, <2>7, <2>8 DEF Sound
  <2>5. ASSUME ~Fits(v)
        PROVE  Unsound(T, U, i)'
    BY <2>3, <2>5, <2>7, <2>8 DEF Unsound
  <2>6. NewlyResolved(T \cup U)
    BY <1>2, <1>3, NothingResolved
  <2> QED BY <1>8, <2>4, <2>5, <2>6 DEF FreshOutcome
<1>11. SymbolsMove
  BY <1>2 DEF SymbolsMove
<1> QED BY <1>1, <1>2, <1>6, <1>9, <1>10, <1>11, ReturnKeeps, Zenon

\* The fields of an outcome.
LEMMA SettledParts ==
  ASSUME NEW type, NEW value, NEW symbol
  PROVE  /\ Settled(type, value, symbol).ok = TRUE
         /\ Settled(type, value, symbol).type = type
         /\ Settled(type, value, symbol).value = value
         /\ Settled(type, value, symbol).symbol = symbol
         /\ Settled(type, value, symbol).errors = 0
         /\ Settled(type, value, symbol).warnings = 0
BY DEF Settled, Outcome

LEMMA FailedParts ==
  ASSUME NEW type, NEW value
  PROVE  /\ Failed(type, value).ok = FALSE
         /\ Failed(type, value).type = type
         /\ Failed(type, value).value = value
         /\ Failed(type, value).symbol = ""
         /\ Failed(type, value).errors = 0
         /\ Failed(type, value).warnings = 0
BY Zenon DEF Failed, Outcome

LEMMA RefusedParts ==
  ASSUME NEW value
  PROVE  /\ Refused(value).ok = FALSE
         /\ Refused(value).type = "INVALID"
         /\ Refused(value).value = value
         /\ Refused(value).symbol = ""
         /\ Refused(value).errors = 1
         /\ Refused(value).warnings = 0
BY Zenon DEF Refused, Outcome

LEMMA ZeroOne ==
  /\ 0 \in Nat /\ 1 \in Nat /\ TRUE \in BOOLEAN /\ FALSE \in BOOLEAN
OBVIOUS

LEMMA TypedOutcomes ==
  ASSUME NEW type \in HeapTypes, NEW value \in Int, NEW symbol \in AllNames \cup {""}
  PROVE  /\ TypedOutcome(Settled(type, value, symbol)) /\ TypedOutcome(Failed(type, value))
         /\ TypedOutcome(Refused(value))
<1>1. "INVALID" \in HeapTypes /\ "" \in AllNames \cup {""}
  BY Zenon DEF HeapTypes
<1>4. TypedOutcome(Settled(type, value, symbol))
  BY ZeroOne, Zenon DEF TypedOutcome, Settled, Outcome
<1>5. TypedOutcome(Failed(type, value))
  BY <1>1, ZeroOne, Zenon DEF TypedOutcome, Failed, Outcome
<1>6. TypedOutcome(Refused(value))
  BY <1>1, ZeroOne, Zenon DEF TypedOutcome, Refused, Outcome
<1> QED BY <1>4, <1>5, <1>6, Zenon

\* An identifier whose symbol has a type and a marked expression.
LEMMA IdentifierSound ==
  ASSUME NEW T, NEW U, NEW i \in Position, i \notin T \cup U, T \cup U \subseteq Position,
         NodesKept(Position \ {i}), heap[i].op = "identifier",
         NEW name, name = heap[i].name, NEW type \in Resolved, NEW e \in T \cup U, e # 0,
         symbols[name].expr = e, symbols'[name].expr = e, symbols'[name].type = type,
         heap'[i].type = type, heap'[i].value = SymbolValue(name), heap'[i].symbol = name
  PROVE  Sound(T, U, i)'
<1>1. heap'[i].op = "identifier" /\ heap'[i].name = name
  BY DEF NodesKept
<1>2. heap'[e] = heap[e]
  BY DEF NodesKept
<1>3. SymbolValue(name)' = SymbolValue(name)
  BY <1>2 DEF SymbolValue, Low16
<1>4. Fields(i, Settled(symbols[name].type, SymbolValue(name), name))'
  BY <1>1, <1>3 DEF Fields, Settled, Outcome
<1> QED BY <1>1, <1>4 DEF Sound, Leaf

\* An identifier whose symbol has no type has no mark.
LEMMA UntypedIdentifier ==
  ASSUME NEW T, NEW U, Marks(T, U), NEW i, heap[i].op = "identifier",
         symbols[heap[i].name].type \notin Resolved
  PROVE  i \notin T \cup U
BY DEF Marks, Sound, Unsound

\* What the return of an identifier sees and gives.
IdentifierOutcome(type, old, name) ==
  CASE type = "UNDEFINED" -> Refused(old)
    [] type = "INVALID" -> Failed("INVALID", old)
    [] OTHER -> Settled(type, SymbolValue(name), name)

LEMMA IdentifierCases ==
  ASSUME NEW type, NEW old, NEW name
  PROVE  /\ type = "UNDEFINED" => IdentifierOutcome(type, old, name) = Refused(old)
         /\ type = "INVALID" => IdentifierOutcome(type, old, name) = Failed("INVALID", old)
         /\ type \in Resolved =>
              IdentifierOutcome(type, old, name) = Settled(type, SymbolValue(name), name)
BY DEF IdentifierOutcome, Resolved

LEMMA SymbolValueType ==
  ASSUME IsHeap(heap), NEW name, symbols[name].expr \in Position
  PROVE  SymbolValue(name) \in Int
<1> DEFINE e == symbols[name].expr
<1>1. heap[e].value \in Int
  BY NodeTypes DEF Position
<1>2. Low16(heap[e].value) \in Int
  <2>1. Low16(heap[e].value) \in Word
    BY <1>1, Low16Type
  <2> QED BY <2>1, WordIsNumber
<1> QED BY <1>2 DEF SymbolValue

\* A symbol that was given its type, or one that will never have one, is left as
\* it is; one that has been evaluated takes the type of its expression.
LEMMA TypeOfSymbol ==
  ASSUME NEW T, NEW U, Typed, Consistent(T, U), EvaluateIdentifier,
         NEW i, i = Top.node, NEW name, name = heap[i].name, NEW type, type = TypeNow(name)
  PROVE  /\ name \in AllNames /\ i \in Position
         /\ type \in Resolved \cup {"INVALID", "UNDEFINED"}
         /\ type \in Resolved => symbols[name].expr \in T \cup U
         /\ \/ symbols' = symbols /\ type = symbols[name].type
            \/ Top.done = 1 /\ Resolves(name, type) /\ symbols[name].type = "UNDEFINED"
<1>1. /\ stack # <<>> /\ NextCall = {} /\ Running = heap[i]
      /\ heap[i].op = "identifier"
      /\ symbols' = [symbols EXCEPT ![name].type = type]
  BY DEF EvaluateIdentifier, Return, InCall, Running
<1>2. Marks(T, U) /\ Frames(T, U) /\ IsHeap(heap) /\ SymbolsOK
  BY DEF Consistent, Typed
<1>3. i \in Position /\ name \in AllNames /\ Top.done \in 0 .. Calls(i) /\ Top.done \in Nat
  BY <1>1, <1>2, TopTypes
<1>4. symbols \in [AllNames -> Entries] /\ symbols[name] \in Entries
      /\ symbols[name].type # "absent"
  BY <1>1, <1>2, <1>3 DEF SymbolsOK
<1>5. CASE ~Lazy(name)
  <2>1. type = symbols[name].type
    BY <1>5 DEF TypeNow
  <2>2. symbols' = symbols
    <3> DEFINE e == [symbols[name] EXCEPT !.type = type]
    <3>1. e = symbols[name]
      BY <1>4, <2>1 DEF Entries
    <3>2. symbols' = [symbols EXCEPT ![name] = e]
      BY <1>1
    <3> HIDE DEF e
    <3> QED BY <1>4, <3>1, <3>2
  <2>3. type \in Resolved \cup {"INVALID", "UNDEFINED"}
    BY <1>4, <2>1 DEF Entries, SymbolTypes
  <2>4. type \in Resolved => symbols[name].expr \in T \cup U
    BY <1>2, <1>3, <2>1 DEF Marks
  <2> QED BY <1>3, <2>1, <2>2, <2>3, <2>4
<1>6. CASE Lazy(name)
  <2> DEFINE e == symbols[name].expr
  <2>1. Calls(i) = 1 /\ Top.done # 0
    BY <1>1, <1>3, <1>2, <1>6, CallsType DEF NextCall
  <2>2. Top.done = 1
    BY <1>3, <2>1
  <2>3. Child(i, Top.done) = e
    BY <1>1 DEF Child
  <2>4. Verdict(T, U, e)
    <3>1. Top.done > 0
      BY <2>2
    <3> QED BY <1>1, <1>2, <2>3, <3>1 DEF Frames
  <2>5. type = heap[e].type
    BY <1>6 DEF TypeNow
  <2>6. \/ e \in T \cup U /\ type \in Resolved
        \/ type = "INVALID"
    BY <1>2, <2>4, <2>5 DEF Verdict, Marks, Sound, Unsound
  <2>7. symbols[name].type = "UNDEFINED" /\ "INVALID" \notin Resolved
    BY <1>6 DEF Lazy, Resolved
  <2>8. Resolves(name, type)
    BY <1>1, <1>3, <1>6, <2>6 DEF Resolves
  <2> QED BY <1>3, <2>2, <2>6, <2>7, <2>8
<1> QED BY <1>5, <1>6

LEMMA EvaluateIdentifierKeeps ==
  ASSUME NEW T, NEW U, Typed, Consistent(T, U), EvaluateIdentifier
  PROVE  Typed' /\ \E V, W : Consistent(V, W)'
<1>1. PICK i, name, type, old : /\ i = Top.node /\ name = heap[i].name /\ type = TypeNow(name)
                                /\ old = heap[i].value
  OBVIOUS
<1>2. PICK outcome : outcome = IdentifierOutcome(type, old, name)
  OBVIOUS
<1>3. /\ stack # <<>> /\ NextCall = {} /\ Running = heap[i] /\ heap[i].op = "identifier"
  BY <1>1 DEF EvaluateIdentifier, Return, InCall, Running
<1>4. Return(outcome)
  BY <1>1, <1>2, <1>3 DEF EvaluateIdentifier, IdentifierOutcome
<1>5. Marks(T, U) /\ IsHeap(heap) /\ SymbolsOK /\ T \cup U \subseteq Position /\ Frames(T, U)
  BY DEF Consistent, Typed, Marks
<1>6. /\ name \in AllNames /\ i \in Position
      /\ type \in Resolved \cup {"INVALID", "UNDEFINED"}
      /\ type \in Resolved => symbols[name].expr \in T \cup U
      /\ \/ symbols' = symbols /\ type = symbols[name].type
         \/ Top.done = 1 /\ Resolves(name, type) /\ symbols[name].type = "UNDEFINED"
  BY <1>1, TypeOfSymbol
<1>7. PICK value : value = SymbolValue(name)
  OBVIOUS
<1>8. /\ type = "UNDEFINED" => outcome = Refused(old)
      /\ type = "INVALID" => outcome = Failed("INVALID", old)
      /\ type \in Resolved => outcome = Settled(type, value, name)
  BY <1>2, <1>7, IdentifierCases
<1>9. TypedOutcome(outcome)
  <2>1. old \in Int
    BY <1>1, <1>5, <1>6, NodeTypes DEF Position
  <2>2. name \in AllNames \cup {""} /\ "" \in AllNames \cup {""}
    BY <1>6, Zenon
  <2>3. CASE type \in Resolved
    <3>1. value \in Int
      BY <1>5, <1>6, <1>7, <2>3, SymbolValueType
    <3>2. type \in HeapTypes
      BY <2>3 DEF HeapTypes, Resolved
    <3> QED BY <1>8, <2>2, <2>3, <3>1, <3>2, TypedOutcomes, Zenon
  <2>4. CASE type \in {"UNDEFINED", "INVALID"}
    <3>1. "INVALID" \in HeapTypes
      BY DEF HeapTypes
    <3>2. TypedOutcome(Refused(old)) /\ TypedOutcome(Failed("INVALID", old))
      BY <2>1, <2>2, <3>1, TypedOutcomes, Zenon
    <3> QED BY <1>8, <2>4, <3>2
  <2> QED BY <1>6, <2>3, <2>4
<1>10. SymbolsMove
  BY <1>1, <1>3, <1>6 DEF SymbolsMove
<1>11. MarkedOutcome(T, U, i, outcome)
  <2>1. SUFFICES ASSUME i \in T \cup U
                 PROVE  /\ heap[i].type = outcome.type /\ heap[i].value = outcome.value
                        /\ heap[i].symbol = outcome.symbol
                        /\ symbols' = symbols /\ (outcome.ok <=> i \in T)
    BY DEF MarkedOutcome
  <2>2. i \in T
    BY <1>3, <1>5, <2>1 DEF Marks, Unsound
  <2>3. /\ symbols[name].type \in Resolved
        /\ Fields(i, Settled(symbols[name].type, SymbolValue(name), name))
    BY <1>1, <1>3, <1>5, <2>2 DEF Marks, Sound
  <2>4. symbols' = symbols /\ type = symbols[name].type
    <3>1. "UNDEFINED" \notin Resolved
      BY DEF Resolved
    <3> QED BY <1>6, <2>3, <3>1
  <2>5. outcome = Settled(symbols[name].type, SymbolValue(name), name) /\ outcome.ok = TRUE
    <3>1. outcome = Settled(symbols[name].type, SymbolValue(name), name)
      BY <1>7, <1>8, <2>3, <2>4
    <3>2. outcome.ok = TRUE
      BY <3>1, Zenon DEF Settled, Outcome
    <3> QED BY <3>1, <3>2
  <2> QED BY <2>2, <2>3, <2>4, <2>5 DEF Fields
<1>12. FreshOutcome(T, U, i, outcome)
  <2>1. SUFFICES ASSUME i \notin T \cup U
                 PROVE  /\ NewlyResolved(T \cup U)
                        /\ outcome.ok => Sound(T, U, i)'
                        /\ ~outcome.ok => outcome.type = "INVALID" \/ Unsound(T, U, i)'
    BY DEF FreshOutcome
  <2>2. /\ NodesKept(Position \ {i}) /\ heap'[i].type = outcome.type
        /\ heap'[i].value = outcome.value /\ heap'[i].symbol = outcome.symbol
    BY <1>1, <1>3, <1>4, <1>5, <1>9, ReturnWrites DEF TypedOutcome
  <2>3. symbols'[name].expr = symbols[name].expr /\ (type \in Resolved => symbols'[name].type = type)
    BY <1>5, <1>6, ResolveSymbol
  <2>4. 0 \notin T \cup U
    BY <1>5, HeapLength DEF Position
  <2>5. NewlyResolved(T \cup U)
    <3>1. CASE symbols' = symbols
      BY <1>5, <3>1, NothingResolved
    <3>2. CASE Resolves(name, type)
      <4>1. \A m \in AllNames : m # name => symbols'[m] = symbols[m]
        BY <1>5, <3>2, ResolveSymbol
      <4>2. symbols'[name].type = type
        BY <1>5, <3>2, ResolveSymbol
      <4> QED BY <1>6, <2>4, <4>1, <4>2 DEF NewlyResolved
    <3> QED BY <1>6, <3>1, <3>2
  <2>6. CASE type \in Resolved
    <3>1. outcome.ok = TRUE /\ outcome.type = type /\ outcome.value = SymbolValue(name)
          /\ outcome.symbol = name
      <4>1. outcome = Settled(type, SymbolValue(name), name)
        BY <1>7, <1>8, <2>6
      <4> QED BY <4>1, Zenon DEF Settled, Outcome
    <3>2. PICK e : e = symbols[name].expr /\ e \in T \cup U /\ e # 0
      BY <1>6, <2>4, <2>6
    <3>3. Sound(T, U, i)'
      BY <1>1, <1>3, <1>5, <1>6, <2>1, <2>2, <2>3, <2>6, <3>1, <3>2, IdentifierSound
    <3> QED BY <2>5, <3>1, <3>3
  <2>7. CASE type \in {"UNDEFINED", "INVALID"}
    <3>1. outcome.ok = FALSE /\ outcome.type = "INVALID"
      <4>1. CASE outcome = Refused(old)
        BY <4>1, Zenon DEF Refused, Outcome
      <4>2. CASE outcome = Failed("INVALID", old)
        BY <4>2, Zenon DEF Failed, Outcome
      <4> QED BY <1>8, <2>7, <4>1, <4>2
    <3> QED BY <2>5, <3>1
  <2> QED BY <1>6, <2>6, <2>7
<1> QED BY <1>1, <1>3, <1>4, <1>9, <1>10, <1>11, <1>12, ReturnKeeps, Zenon

\* A call of an operation whose last operand has returned.
LEMMA OperationTypes ==
  ASSUME NEW T, NEW U, Typed, Consistent(T, U), stack # <<>>, Operation,
         NEW i, i = Top.node, NEW d, d = Top.done, d > 0
  PROVE  /\ Marks(T, U) /\ Frames(T, U) /\ IsHeap(heap) /\ SymbolsOK
         /\ T \subseteq Position /\ U \subseteq Position
         /\ i \in Position /\ Running = heap[i] /\ heap[i].op \notin Leaf
         /\ heap[i].op \in Operators \ {"value", "identifier"}
         /\ Arity(heap[i]) \in {1, 2} /\ d \in Nat /\ d \in 1 .. Arity(heap[i])
         /\ \A e \in 1 .. d : e < d => Kid(i, e) \in T
         /\ \A e \in 1 .. Arity(heap[i]) : Kid(i, e) \in Position
         /\ Verdict(T, U, Kid(i, d))
<1>1. Marks(T, U) /\ Frames(T, U) /\ IsHeap(heap) /\ SymbolsOK
  BY DEF Consistent, Typed
<1>2. /\ i \in Position /\ d \in 0 .. Calls(i) /\ d \in Nat /\ Reached(T, i, d, 0)
  BY <1>1, TopTypes
<1>3. Running = heap[i] /\ heap[i].op \notin Leaf
  BY DEF Running, Operation, Leaf
<1>4. /\ Arity(heap[i]) \in {1, 2} /\ Calls(i) = Arity(heap[i])
      /\ heap[i].op \in Operators \ {"value", "identifier"}
      /\ \A k \in 1 .. Arity(heap[i]) : Kid(i, k) \in 1 .. i - 1
  BY <1>1, <1>2, <1>3, KidTypes
<1>5. d \in 1 .. Arity(heap[i])
  BY <1>2, <1>4
<1>6. \A e \in 1 .. d : e < d => Kid(i, e) \in T
  BY <1>2, <1>3 DEF Reached
<1>7. Verdict(T, U, Kid(i, d))
  <2>1. Child(i, d) = Kid(i, d)
    BY <1>3 DEF Child, Leaf
  <2> QED BY <1>1, <2>1 DEF Frames
<1>8. T \subseteq Position /\ U \subseteq Position
  BY <1>1 DEF Marks
<1>9. \A e \in 1 .. Arity(heap[i]) : Kid(i, e) \in Position
  <2>1. Len(heap) \in Nat /\ i \in 1 .. Len(heap)
    BY <1>1, <1>2, HeapLength DEF Position
  <2>2. \A k \in 1 .. i - 1 : k \in 1 .. Len(heap)
    BY <2>1
  <2> QED BY <1>4, <2>2 DEF Position
<1> QED BY <1>1, <1>2, <1>3, <1>4, <1>5, <1>6, <1>7, <1>8, <1>9

LEMMA Order ==
  ASSUME NEW a \in {1, 2}, NEW d \in 1 .. a, NEW e \in 1 .. a
  PROVE  /\ e < d \/ e = d \/ d < e
         /\ e < d => e \in 1 .. d /\ e \in 1 .. d - 1
         /\ d < e => d \in 1 .. e - 1 /\ d # a
         /\ e \in 1 .. d => e < d \/ e = d
         /\ \A k \in 1 .. d - 1 : k \in 1 .. d /\ k < d /\ k \in 1 .. a
         /\ d = a => e \in 1 .. d
OBVIOUS

\* A node that failed at an operand and was marked failed at the same one.
FailedAt(T, i, d) ==
  /\ heap[i].op \notin Leaf /\ Arity(heap[i]) \in {1, 2} /\ d \in 1 .. Arity(heap[i])
  /\ \A e \in 1 .. d : e < d => Kid(i, e) \in T
  /\ Kid(i, d) \notin T

FailsAs(i, j) == heap[i].type = heap[j].type /\ heap[i].symbol = ""

LEMMA FailsAgain ==
  ASSUME NEW T, NEW U, Marks(T, U), NEW i, NEW d, FailedAt(T, i, d), i \in T \cup U
  PROVE  i \in U /\ i \notin T /\ heap[i].op # "?:" /\ FailsAs(i, Kid(i, d))
<1>0. /\ heap[i].op \notin Leaf /\ Arity(heap[i]) \in {1, 2} /\ d \in 1 .. Arity(heap[i])
      /\ \A e \in 1 .. d : e < d => Kid(i, e) \in T
      /\ Kid(i, d) \notin T
  BY DEF FailedAt
<1>1. i \notin T
  BY <1>0 DEF Marks, Sound
<1>2. i \in U /\ Unsound(T, U, i) /\ T \cap U = {}
  BY <1>1 DEF Marks
<1>3. PICK e \in 1 .. Arity(heap[i]) :
         /\ \A k \in 1 .. e - 1 : Kid(i, k) \in T
         /\ \/ /\ Kid(i, e) \in U
               /\ heap[i].type = heap[Kid(i, e)].type /\ heap[i].symbol = ""
            \/ e = Arity(heap[i]) /\ Kid(i, e) \in T
  BY <1>0, <1>2 DEF Unsound, Leaf
<1>4. e = d
  <2>1. ~(e < d)
    <3>1. SUFFICES ASSUME e < d PROVE FALSE
      OBVIOUS
    <3>2. e \in 1 .. d /\ e # Arity(heap[i])
      BY <1>0, <3>1, Order
    <3>3. Kid(i, e) \in T
      BY <1>0, <3>1, <3>2
    <3> QED BY <1>2, <1>3, <3>2, <3>3
  <2>2. ~(d < e)
    <3>1. SUFFICES ASSUME d < e PROVE FALSE
      OBVIOUS
    <3>2. d \in 1 .. e - 1
      BY <1>0, <3>1, Order
    <3> QED BY <1>0, <1>3, <3>2
  <2> QED BY <1>0, <2>1, <2>2, Order
<1> QED BY <1>0, <1>1, <1>2, <1>3, <1>4 DEF Unsound, FailsAs

LEMMA FailWithOperandKeeps ==
  ASSUME NEW T, NEW U, Typed, Consistent(T, U), FailWithOperand
  PROVE  Typed' /\ \E V, W : Consistent(V, W)'
<1>1. PICK i, d, j, old : /\ i = Top.node /\ d = Top.done /\ j = Kid(i, d)
                          /\ old = heap[i].value
  OBVIOUS
<1>2. PICK type : type = IF heap[i].op = "?:" THEN "INVALID" ELSE heap[j].type
  OBVIOUS
<1>3. /\ stack # <<>> /\ NextCall = {} /\ Operation /\ d > 0 /\ ~ok /\ symbols' = symbols
  BY <1>1 DEF FailWithOperand, Return, InCall
<1>4. /\ Marks(T, U) /\ Frames(T, U) /\ IsHeap(heap)
      /\ T \subseteq Position /\ U \subseteq Position
      /\ i \in Position /\ Running = heap[i] /\ heap[i].op \notin Leaf
      /\ Arity(heap[i]) \in {1, 2} /\ d \in 1 .. Arity(heap[i])
      /\ \A e \in 1 .. d : e < d => Kid(i, e) \in T
      /\ j \in Position /\ Verdict(T, U, j)
  BY <1>1, <1>3, OperationTypes
<1>5. Return(Failed(type, old))
  BY <1>1, <1>2, <1>4 DEF FailWithOperand, Kid
<1>6. PICK outcome : outcome = Failed(type, old)
  OBVIOUS
<1>7. /\ outcome.ok = FALSE /\ outcome.type = type /\ outcome.value = old /\ outcome.symbol = ""
  BY <1>6, Zenon DEF Failed, Outcome
<1>8. TypedOutcome(outcome)
  <2>1. heap[j].type \in HeapTypes /\ old \in Int
    BY <1>1, <1>4, NodeTypes DEF Position
  <2>2. "INVALID" \in HeapTypes
    BY DEF HeapTypes
  <2>3. type \in HeapTypes
    BY <1>2, <2>1, <2>2
  <2>4. "" \in AllNames \cup {""}
    BY Zenon
  <2> QED BY <1>6, <2>1, <2>3, <2>4, TypedOutcomes, Zenon
<1>9. j \notin T /\ (j \in U \/ heap[j].type = "INVALID")
  <2>1. "INVALID" \notin Resolved
    BY DEF Resolved
  <2>2. \A k \in T : k \notin U /\ heap[k].type \in Resolved
    BY <1>4 DEF Marks, Sound
  <2> QED BY <1>3, <1>4, <2>1, <2>2 DEF Verdict
<1>10. SymbolsMove
  BY <1>3 DEF SymbolsMove
<1>11. MarkedOutcome(T, U, i, outcome)
  <2>1. SUFFICES ASSUME i \in T \cup U
                 PROVE  /\ heap[i].type = outcome.type /\ heap[i].value = outcome.value
                        /\ heap[i].symbol = outcome.symbol
                        /\ symbols' = symbols /\ (outcome.ok <=> i \in T)
    BY DEF MarkedOutcome
  <2>2. /\ i \in U /\ i \notin T /\ heap[i].op # "?:"
        /\ heap[i].type = heap[j].type /\ heap[i].symbol = ""
    <3>1. FailedAt(T, i, d)
      BY <1>1, <1>4, <1>9 DEF FailedAt
    <3>2. i \in U /\ i \notin T /\ heap[i].op # "?:" /\ FailsAs(i, j)
      BY <1>1, <1>4, <2>1, <3>1, FailsAgain
    <3> QED BY <3>2, Zenon DEF FailsAs
  <2> QED BY <1>1, <1>2, <1>3, <1>7, <2>2, Zenon
<1>12. FreshOutcome(T, U, i, outcome)
  <2>1. SUFFICES ASSUME i \notin T \cup U
                 PROVE  /\ NewlyResolved(T \cup U)
                        /\ outcome.type = "INVALID" \/ Unsound(T, U, i)'
    BY <1>7 DEF FreshOutcome
  <2>2. /\ NodesKept(Position \ {i}) /\ heap'[i].type = type /\ heap'[i].symbol = ""
    BY <1>1, <1>3, <1>4, <1>5, <1>6, <1>7, <1>8, ReturnWrites,
       ZenonT(40) DEF TypedOutcome
  <2>3. NewlyResolved(T \cup U)
    BY <1>3, <1>4, NothingResolved
  <2>4. ASSUME type # "INVALID"
        PROVE  Unsound(T, U, i)'
    <3>1. heap[i].op # "?:" /\ type = heap[j].type /\ j \in U
      BY <1>2, <1>9, <2>4
    <3>2. heap'[i].op = heap[i].op /\ heap'[i].kids = heap[i].kids /\ heap'[j] = heap[j]
      BY <1>4, <2>1, <2>2, <3>1 DEF NodesKept
    <3>3. Arity(heap'[i]) = Arity(heap[i]) /\ \A k : Kid(i, k)' = Kid(i, k)
      BY <3>1, <3>2, KidKept
    <3>4. type \in Resolved
      BY <1>4, <3>1 DEF Marks, Unsound
    <3>5. \A k \in 1 .. d - 1 : Kid(i, k) \in T
      BY <1>4, Order
    <3>6. heap'[i].op # "value" /\ heap'[i].op # "identifier" /\ heap'[i].op # "?:"
      BY <1>4, <3>1, <3>2 DEF Leaf
    <3>7. /\ \A k \in 1 .. d - 1 : Kid(i, k)' \in T
          /\ Kid(i, d)' \in U /\ heap'[i].type = heap'[Kid(i, d)'].type
      <4>1. Kid(i, d)' = j /\ \A k \in 1 .. d - 1 : Kid(i, k)' \in T
        BY <1>1, <3>3, <3>5
      <4> QED BY <2>2, <3>1, <3>2, <4>1
    <3>8. d \in 1 .. Arity(heap'[i])
      BY <1>4, <3>3
    <3> HIDE DEF Kid
    <3> QED BY <2>2, <3>4, <3>6, <3>7, <3>8 DEF Unsound
  <2> QED BY <1>7, <2>3, <2>4
<1> QED BY <1>1, <1>3, <1>5, <1>6, <1>8, <1>10, <1>11, <1>12, ReturnKeeps, Zenon

\* Symbols that have an expression, and none.
DefinedNames == {n \in AllNames \cup {""} : n = "" \/ symbols[n].expr # 0}

LEMMA NamesOfSound ==
  ASSUME NEW T, NEW U, Marks(T, U), IsHeap(heap), NEW j \in T
  PROVE  heap[j].type \in Resolved /\ heap[j].symbol \in DefinedNames /\ j \in Position
<1>1. j \in Position /\ Sound(T, U, j)
  BY DEF Marks
<1>2. heap[j].symbol \in AllNames \cup {""}
  BY <1>1, NodeTypes DEF Position
<1> QED BY <1>1, <1>2, Zenon DEF Sound, DefinedNames

LEMMA SoundArgument ==
  ASSUME NEW T, NEW U, Marks(T, U), IsHeap(heap), SymbolsOK, Len(table) \in Nat, NEW j \in T
  PROVE  Result(j) \in Argument(Resolved, DefinedNames)
<1>1. j \in Position /\ heap[j].type \in Resolved /\ heap[j].symbol \in DefinedNames
  BY NamesOfSound
<1>2. Result(j) \in Argument(Resolved, AllNames \cup {""})
  BY <1>1, ResultType
<1>3. Result(j).symbol = heap[j].symbol
  BY DEF Result
<1> DEFINE r == Result(j)
           N == AllNames \cup {""}
<1>4. r \in Argument(Resolved, N) /\ r.symbol \in DefinedNames
  BY <1>1, <1>2, <1>3
<1> HIDE DEF r, N
<1>5. r \in Argument(Resolved, DefinedNames)
  BY <1>4 DEF Argument
<1> QED BY <1>5 DEF r

\* The operands an operation is computed from.
Arguments(i, d) == [k \in 1 .. d |-> Result(Kid(i, k))]

\* The operands that were evaluated are all there are, or the test of a
\* conditional that has no branch.
AllThere(T, i, d) ==
  /\ Arity(heap[i]) \in {1, 2} /\ d \in 1 .. Arity(heap[i])
  /\ \A k \in 1 .. d : Kid(i, k) \in T
  /\ d = Arity(heap[i]) \/ (heap[i].op = "?:" /\ heap[Kid(i, 1)].type # "ABSOLUTE")

LEMMA ArgumentsOfSound ==
  ASSUME NEW T, NEW U, Marks(T, U), IsHeap(heap), SymbolsOK, Len(table) \in Nat,
         NEW i \in Position, heap[i].op \notin Leaf,
         NEW d, AllThere(T, i, d), NEW args, args = Arguments(i, d)
  PROVE  /\ args[1] \in Argument(Resolved, DefinedNames)
         /\ args[1].type = heap[Kid(i, 1)].type
         /\ Operands(heap[i].op) = 2 => args[2] \in Argument(Resolved, DefinedNames)
         /\ heap[i].op = "?:" /\ args[1].type = "ABSOLUTE" =>
              d = Arity(heap[i]) /\ args[2] \in Argument(Resolved, DefinedNames)
<1>1. /\ Arity(heap[i]) \in {1, 2} /\ d \in 1 .. Arity(heap[i])
      /\ \A k \in 1 .. d : Kid(i, k) \in T
      /\ d = Arity(heap[i]) \/ (heap[i].op = "?:" /\ heap[Kid(i, 1)].type # "ABSOLUTE")
  BY DEF AllThere
<1>2. 1 \in 1 .. d /\ (d = 2 => 2 \in 1 .. d) /\ d \in {1, 2}
  BY <1>1
<1>3. args[1] = Result(Kid(i, 1)) /\ (d = 2 => args[2] = Result(Kid(i, 2)))
  BY <1>2 DEF Arguments
<1>4. /\ args[1] \in Argument(Resolved, DefinedNames)
      /\ d = 2 => args[2] \in Argument(Resolved, DefinedNames)
  BY <1>1, <1>2, <1>3, SoundArgument
<1>5. args[1].type = heap[Kid(i, 1)].type
  BY <1>3 DEF Result
<1>6. Operands(heap[i].op) = 2 => d = 2
  <2>1. SUFFICES ASSUME Operands(heap[i].op) = 2 PROVE d = 2
    OBVIOUS
  <2>2. heap[i].op \in Operators /\ Len(heap[i].kids) = 2
    BY <2>1, NodeTypes DEF Position
  <2>3. heap[i].op # "?:"
    <3>1. heap[i].op = "?:" => Operands(heap[i].op) = 3
      BY <2>2, OperandCounts
    <3> QED BY <2>1, <3>1
  <2> QED BY <1>1, <2>2, <2>3 DEF Arity
<1>7. heap[i].op = "?:" => Arity(heap[i]) = 2
  BY DEF Arity
<1> QED BY <1>1, <1>2, <1>4, <1>5, <1>6, <1>7

LEMMA NamesContain == "" \in DefinedNames /\ DefinedNames \subseteq AllNames \cup {""}
BY Zenon DEF DefinedNames

LEMMA OperationResult ==
  ASSUME NEW T, NEW U, Marks(T, U), IsHeap(heap), SymbolsOK, Len(table) \in Nat,
         NEW i \in Position, heap[i].op \notin Leaf,
         NEW d, AllThere(T, i, d), NEW args, args = Arguments(i, d), NEW old \in Int
  PROVE  IsOutcome(OperationOutcome(heap[i].op, args, old), Resolved, DefinedNames)
<1>1. PICK op : op = heap[i].op
  OBVIOUS
<1>2. op \in Operators \ {"value", "identifier"}
  BY <1>1, KidTypes
<1>3. /\ args[1] \in Argument(Resolved, DefinedNames)
      /\ Operands(op) = 2 => args[2] \in Argument(Resolved, DefinedNames)
      /\ op = "?:" /\ args[1].type = "ABSOLUTE" => args[2] \in Argument(Resolved, DefinedNames)
  BY <1>1, ArgumentsOfSound
<1>4. {"ABSOLUTE", "LABEL"} \subseteq Resolved
  BY DEF Resolved
<1>5. IsOutcome(OperationOutcome(op, args, old), Resolved, DefinedNames)
  BY <1>2, <1>3, <1>4, NamesContain, OperationOutcomeType, Zenon
<1> QED BY <1>1, <1>5

\* A node that was marked and is computed again is given what it had.
LEMMA OperationAgain ==
  ASSUME NEW T, NEW U, Marks(T, U), NEW i \in T \cup U, heap[i].op \notin Leaf,
         NEW d, AllThere(T, i, d)
  PROVE  /\ d = Arity(heap[i]) /\ Fields(i, Again(i)) /\ (Again(i).ok <=> i \in T)
<1>1. /\ Arity(heap[i]) \in {1, 2} /\ d \in 1 .. Arity(heap[i])
      /\ \A k \in 1 .. d : Kid(i, k) \in T
      /\ d = Arity(heap[i]) \/ (heap[i].op = "?:" /\ heap[Kid(i, 1)].type # "ABSOLUTE")
  BY DEF AllThere
<1>2. T \cap U = {}
  BY DEF Marks
<1>3. CASE i \in T
  BY <1>1, <1>3 DEF Marks, Sound
<1>4. CASE i \in U
  <2>1. Unsound(T, U, i) /\ heap[i].op # "?:"
    BY <1>4 DEF Marks, Unsound
  <2>2. d = Arity(heap[i])
    BY <1>1, <2>1
  <2>3. PICK e \in 1 .. Arity(heap[i]) :
          \/ Kid(i, e) \in U
          \/ e = Arity(heap[i]) /\ ~Again(i).ok /\ Fields(i, Again(i))
    BY <2>1 DEF Unsound, Leaf
  <2>4. Kid(i, e) \in T
    BY <1>1, <2>2
  <2> QED BY <1>2, <1>4, <2>2, <2>3, <2>4
<1> QED BY <1>3, <1>4

\* What an operation gives a node that had no mark earns it one.
LEMMA OperationFresh ==
  ASSUME NEW T, NEW U, Typed, Marks(T, U), NEW i \in Position, heap[i].op \notin Leaf,
         i \notin T \cup U, symbols' = symbols, NodesKept(Position \ {i}),
         NEW d, AllThere(T, i, d), NEW outcome,
         outcome = OperationOutcome(heap[i].op, Arguments(i, d), heap[i].value),
         IsOutcome(outcome, Resolved, DefinedNames),
         heap'[i].type = outcome.type, heap'[i].value = outcome.value,
         heap'[i].symbol = outcome.symbol, outcome.type # "INVALID"
  PROVE  /\ outcome.ok => Sound(T, U, i)'
         /\ ~outcome.ok => Unsound(T, U, i)'
<1>1. PICK op, args, old : op = heap[i].op /\ args = Arguments(i, d) /\ old = heap[i].value
  OBVIOUS
<1>2. /\ IsHeap(heap) /\ SymbolsOK /\ Len(table) \in Nat /\ op \in Operators \ {"value", "identifier"}
      /\ T \subseteq Position
  <2>1. IsHeap(heap) /\ SymbolsOK /\ T \subseteq Position
    BY DEF Typed, Marks
  <2>2. Len(table) \in Nat
    BY DEF Typed, S!TypeOK
  <2> QED BY <1>1, <2>1, <2>2, KidTypes
<1>3. /\ Arity(heap[i]) \in {1, 2} /\ d \in 1 .. Arity(heap[i])
      /\ \A k \in 1 .. d : Kid(i, k) \in T
  BY DEF AllThere
<1>4. /\ \A b : OperationOutcome(op, args, b) = outcome
      /\ op = "?:" => args[1].type = "ABSOLUTE" /\ outcome.ok
  <2>1. outcome = OperationOutcome(op, args, old)
    BY <1>1
  <2>2. OperationOutcome(op, args, old).type # "INVALID"
    BY <2>1
  <2>3. ASSUME NEW b
        PROVE  /\ OperationOutcome(op, args, b) = OperationOutcome(op, args, old)
               /\ op = "?:" => args[1].type = "ABSOLUTE" /\ OperationOutcome(op, args, old).ok
    BY <1>2, <2>2, OldIsNotUsed
  <2>4. \A b : OperationOutcome(op, args, b) = outcome
    BY <2>1, <2>3, Zenon
  <2> QED BY <2>1, <2>3, <2>4
<1>5. args[1].type = heap[Kid(i, 1)].type
  BY <1>1, <1>2, ArgumentsOfSound
<1>6. d = Arity(heap[i]) /\ (op = "?:" => heap[Kid(i, 1)].type = "ABSOLUTE")
  BY <1>1, <1>4, <1>5 DEF AllThere
<1>7. /\ heap'[i].op = op /\ NodesKept(T) /\ DefinitionsKept
  <2>1. T \subseteq Position \ {i}
    BY <1>2
  <2>2. NodesKept(T)
    BY <2>1 DEF NodesKept
  <2>3. heap'[i].op = op
    BY <1>1 DEF NodesKept
  <2>4. DefinitionsKept
    BY DEF DefinitionsKept
  <2> QED BY <2>2, <2>3, <2>4
<1>8. /\ Arity(heap'[i]) = Arity(heap[i])
      /\ \A k : Kid(i, k)' = Kid(i, k)
      /\ \A k \in 1 .. Arity(heap[i]) : Result(Kid(i, k))' = Result(Kid(i, k))
  <2>1. \A j \in T : heap[j].symbol = "" \/ symbols[heap[j].symbol].expr # 0
    BY Zenon DEF Marks, Sound
  <2>2. \A k \in 1 .. Arity(heap[i]) : Kid(i, k) \in T
    BY <1>3, <1>6
  <2> QED BY <1>2, <1>7, <2>1, <2>2, AgainKept, Zenon
<1>9. Again(i)' = outcome
  <2>1. Again(i)' = OperationOutcome(op, args, heap'[i].value)
    BY <1>1, <1>6, <1>7, <1>8 DEF Again, Arguments
  <2> QED BY <1>4, <2>1, Zenon
<1>10. /\ outcome.type \in Resolved /\ outcome.symbol \in DefinedNames
       /\ outcome.ok \in BOOLEAN
  <2>1. outcome.type \in Resolved \cup {"INVALID"} /\ outcome.symbol \in DefinedNames
        /\ outcome.ok \in BOOLEAN
    BY DEF IsOutcome
  <2> QED BY <2>1
<1>11. heap'[i].symbol = "" \/ symbols'[heap'[i].symbol].expr # 0
  BY <1>10, Zenon DEF DefinedNames
<1>12. /\ heap'[i].type \in Resolved /\ heap'[i].op \notin Leaf
       /\ heap'[i].op # "value" /\ heap'[i].op # "identifier"
       /\ Fields(i, Again(i))'
  <2>1. Fields(i, Again(i))'
    BY <1>9 DEF Fields
  <2> QED BY <1>1, <1>7, <1>10, <2>1 DEF Leaf
<1>13. \A k \in 1 .. Arity(heap[i]) : Kid(i, k)' \in T
  BY <1>3, <1>6, <1>8
<1> HIDE DEF Kid, Again
<1>14. ASSUME outcome.ok
       PROVE  Sound(T, U, i)'
  <2>1. heap'[i].op = "?:" => heap'[Kid(i, 1)'].type = "ABSOLUTE"
    <3>1. 1 \in 1 .. d
      BY <1>3
    <3>2. Kid(i, 1)' = Kid(i, 1) /\ heap'[Kid(i, 1)] = heap[Kid(i, 1)]
      BY <1>3, <1>7, <1>8, <3>1 DEF NodesKept
    <3> QED BY <1>6, <1>7, <3>2
  <2>2. Again(i)'.ok
    BY <1>9, <1>14
  <2>3. /\ \A k \in 1 .. Arity(heap'[i]) : Kid(i, k)' \in T
        /\ heap'[i].op = "?:" => heap'[Kid(i, 1)'].type = "ABSOLUTE"
        /\ Again(i)'.ok /\ Fields(i, Again(i))'
    BY <1>8, <1>12, <1>13, <2>1, <2>2
  <2> QED BY <1>11, <1>12, <2>3, Zenon DEF Sound
<1>15. ASSUME ~outcome.ok
       PROVE  Unsound(T, U, i)'
  <2>1. op # "?:"
    BY <1>4, <1>15
  <2>2. heap'[i].op \notin {"identifier", "?:"}
    BY <1>7, <1>12, <2>1
  <2>3. ~Again(i)'.ok
    BY <1>9, <1>15
  <2>4. d \in 1 .. Arity(heap'[i]) /\ d = Arity(heap'[i])
    BY <1>3, <1>6, <1>8
  <2>5. Kid(i, d)' \in T /\ \A k \in 1 .. d - 1 : Kid(i, k)' \in T
    <3>1. \A k \in 1 .. d - 1 : k \in 1 .. d
      BY <1>3
    <3> QED BY <1>3, <1>6, <1>13, <3>1
  <2>6. \E e \in 1 .. Arity(heap'[i]) :
          /\ \A k \in 1 .. e - 1 : Kid(i, k)' \in T
          /\ e = Arity(heap'[i]) /\ Kid(i, e)' \in T /\ ~Again(i)'.ok /\ Fields(i, Again(i))'
    BY <1>12, <2>3, <2>4, <2>5
  <2> QED BY <1>11, <1>12, <2>2, <2>6, Zenon DEF Unsound
<1> QED BY <1>14, <1>15

\* The result of an operation whose operands have all returned.
LEMMA OperationReturns ==
  ASSUME NEW T, NEW U, Typed, Consistent(T, U), EvaluateOperation,
         NEW i, i = Top.node, NEW d, d = Top.done, NEW args, args = Arguments(i, d),
         NEW old, old = heap[i].value,
         NEW outcome, outcome = OperationOutcome(heap[i].op, args, old)
  PROVE  /\ stack # <<>> /\ NextCall = {} /\ ok /\ symbols' = symbols
         /\ Marks(T, U) /\ Frames(T, U) /\ IsHeap(heap) /\ i \in Position /\ heap[i].op \notin Leaf
         /\ Return(outcome) /\ AllThere(T, i, d)
         /\ IsOutcome(outcome, Resolved, DefinedNames)
<1>3. /\ stack # <<>> /\ NextCall = {} /\ Operation /\ d > 0 /\ ok /\ symbols' = symbols
  BY DEF EvaluateOperation, Return, InCall
<1>4. /\ Marks(T, U) /\ Frames(T, U) /\ IsHeap(heap) /\ SymbolsOK
      /\ i \in Position /\ Running = heap[i] /\ heap[i].op \notin Leaf
      /\ Arity(heap[i]) \in {1, 2} /\ d \in Nat /\ d \in 1 .. Arity(heap[i])
      /\ \A e \in 1 .. d : e < d => Kid(i, e) \in T
      /\ Verdict(T, U, Kid(i, d))
  BY <1>3, OperationTypes
<1>5. Return(outcome)
  BY <1>4 DEF EvaluateOperation, Kid, Arguments
<1>6. AllThere(T, i, d)
  <2>1. Kid(i, d) \in T
    BY <1>3, <1>4 DEF Verdict
  <2>2. \A k \in 1 .. d : Kid(i, k) \in T
    <3>1. \A k \in 1 .. d : k < d \/ k = d
      BY <1>4
    <3> QED BY <1>4, <2>1, <3>1
  <2>3. d = Arity(heap[i]) \/ (heap[i].op = "?:" /\ heap[Kid(i, 1)].type # "ABSOLUTE")
    <3>1. SUFFICES ASSUME d # Arity(heap[i])
                   PROVE  heap[i].op = "?:" /\ heap[Kid(i, 1)].type # "ABSOLUTE"
      OBVIOUS
    <3>2. d < Arity(heap[i]) /\ heap[i].op # "identifier"
      BY <1>4, <3>1 DEF Leaf
    <3>3. heap[i].op = "?:" /\ heap[heap[i].kids[1]].type # "ABSOLUTE"
      BY <1>3, <1>4, <3>2 DEF NextCall
    <3>4. Kid(i, 1) = heap[i].kids[1]
      BY DEF Kid, Operand
    <3> QED BY <3>3, <3>4
  <2> QED BY <1>4, <2>2, <2>3 DEF AllThere
<1>7. Len(table) \in Nat /\ old \in Int
  <2>1. Len(table) \in Nat
    BY DEF Typed, S!TypeOK
  <2>2. old \in Int
    BY <1>4, NodeTypes DEF Position
  <2> QED BY <2>1, <2>2
<1>8. IsOutcome(outcome, Resolved, DefinedNames)
  BY <1>4, <1>6, <1>7, OperationResult
<1> QED BY <1>3, <1>4, <1>5, <1>6, <1>8

LEMMA EvaluateOperationKeeps ==
  ASSUME NEW T, NEW U, Typed, Consistent(T, U), EvaluateOperation
  PROVE  Typed' /\ \E V, W : Consistent(V, W)'
<1>1. PICK i, d, args, old : /\ i = Top.node /\ d = Top.done /\ args = Arguments(i, d)
                             /\ old = heap[i].value
  OBVIOUS
<1>2. PICK outcome : outcome = OperationOutcome(heap[i].op, args, old)
  OBVIOUS
<1>3. /\ stack # <<>> /\ NextCall = {} /\ ok /\ symbols' = symbols
      /\ Marks(T, U) /\ Frames(T, U) /\ IsHeap(heap) /\ i \in Position /\ heap[i].op \notin Leaf
      /\ Return(outcome) /\ AllThere(T, i, d)
      /\ IsOutcome(outcome, Resolved, DefinedNames)
  BY <1>1, <1>2, OperationReturns
<1>9. TypedOutcome(outcome) /\ (outcome.ok => outcome.type \in Resolved)
  <2>1. Resolved \subseteq HeapTypes
    BY DEF HeapTypes, Resolved
  <2> QED BY <1>3, <2>1, NamesContain, OutcomeFields, Zenon
<1>10. SymbolsMove
  BY <1>3 DEF SymbolsMove
<1>11. MarkedOutcome(T, U, i, outcome)
  <2>1. SUFFICES ASSUME i \in T \cup U
                 PROVE  /\ heap[i].type = outcome.type /\ heap[i].value = outcome.value
                        /\ heap[i].symbol = outcome.symbol
                        /\ symbols' = symbols /\ (outcome.ok <=> i \in T)
    BY DEF MarkedOutcome
  <2>2. d = Arity(heap[i]) /\ Fields(i, Again(i)) /\ (Again(i).ok <=> i \in T)
    BY <1>3, <2>1, OperationAgain
  <2>3. Again(i) = outcome
    BY <1>1, <1>2, <2>2 DEF Again, Arguments
  <2> QED BY <1>3, <2>2, <2>3 DEF Fields
<1>12. FreshOutcome(T, U, i, outcome)
  <2>1. SUFFICES ASSUME i \notin T \cup U
                 PROVE  /\ NewlyResolved(T \cup U)
                        /\ outcome.ok => Sound(T, U, i)'
                        /\ ~outcome.ok => outcome.type = "INVALID" \/ Unsound(T, U, i)'
    BY DEF FreshOutcome
  <2>2. /\ NodesKept(Position \ {i}) /\ heap'[i].type = outcome.type
        /\ heap'[i].value = outcome.value /\ heap'[i].symbol = outcome.symbol
    BY <1>1, <1>3, <1>9, ReturnWrites DEF TypedOutcome
  <2>3. NewlyResolved(T \cup U)
    BY <1>3, NothingResolved
  <2>4. CASE outcome.type = "INVALID"
    <3>1. ~outcome.ok
      BY <1>9, <2>4 DEF Resolved
    <3> QED BY <2>3, <2>4, <3>1
  <2>5. CASE outcome.type # "INVALID"
    <3>1. outcome = OperationOutcome(heap[i].op, Arguments(i, d), heap[i].value)
      BY <1>1, <1>2
    <3> QED BY <1>3, <2>1, <2>2, <2>3, <2>5, <3>1, OperationFresh
  <2> QED BY <2>4, <2>5
<1> QED BY <1>1, <1>3, <1>9, <1>10, <1>11, <1>12, ReturnKeeps, Zenon

-----------------------------------------------------------------------------
\* A call of an operand, of the expression of a symbol or of a statement.

LEMMA SameReached ==
  ASSUME heap' = heap, symbols' = symbols, NEW T, NEW i, NEW d, NEW waits
  PROVE  /\ Reached(T, i, d, waits)' <=> Reached(T, i, d, waits)
         /\ Child(i, d)' = Child(i, d)
BY DEF Reached, Child, Calls, Kid, Operand, Arity, Lazy, Position, Low16

LEMMA ZeroCalls ==
  ASSUME IsHeap(heap), NEW i \in Position, NEW T
  PROVE  Reached(T, i, 0, 0)
<1>1. Calls(i) \in {0, 1, 2}
  BY CallsType
<1>2. 0 \in 0 .. Calls(i)
  BY <1>1
<1>3. \A e \in 1 .. 0 : FALSE
  OBVIOUS
<1> QED BY <1>2, <1>3 DEF Reached

\* A call has no operand to show yet.
NewFrame(n) == [node |-> n, done |-> 0]

LEMMA Pushed ==
  ASSUME stack \in Seq(Frame), NEW n \in Nat \ {0}, stack' = Append(stack, NewFrame(n))
  PROVE  /\ stack' \in Seq(Frame) /\ stack' # <<>> /\ Len(stack') = Len(stack) + 1
         /\ Len(stack) \in Nat /\ DOMAIN stack = 1 .. Len(stack)
         /\ DOMAIN stack' = 1 .. Len(stack) + 1
         /\ stack'[Len(stack) + 1].node = n /\ stack'[Len(stack) + 1].done = 0
         /\ \A k \in 1 .. Len(stack) : stack'[k] = stack[k]
<1>1. NewFrame(n) \in Frame /\ NewFrame(n).node = n /\ NewFrame(n).done = 0
  BY DEF NewFrame, Frame
<1> HIDE DEF NewFrame
<1>2. /\ stack' \in Seq(Frame) /\ stack' # <<>> /\ Len(stack') = Len(stack) + 1
      /\ Len(stack) \in Nat /\ DOMAIN stack = 1 .. Len(stack)
      /\ DOMAIN stack' = 1 .. Len(stack) + 1
      /\ stack'[Len(stack) + 1] = NewFrame(n)
      /\ \A k \in 1 .. Len(stack) : stack'[k] = stack[k]
  BY <1>1
<1> QED BY <1>1, <1>2

\* The call that has just returned gave what the next one needs.
LEMMA NextIsChild ==
  ASSUME NEW T, NEW U, Marks(T, U), Frames(T, U), IsHeap(heap), SymbolsOK, stack # <<>>,
         NEW n \in NextCall, NEW i, i = Top.node, NEW d, d = Top.done, NEW c, c = d + 1
  PROVE  n = Child(i, c) /\ n \in Position /\ Reached(T, i, d, 1) /\ d \in Nat
<1>1. /\ i \in Position /\ d \in 0 .. Calls(i) /\ d \in Nat /\ Reached(T, i, d, 0)
      /\ Running = heap[i]
  BY TopTypes DEF Running
<1>2. CASE heap[i].op = "identifier"
  <2> DEFINE name == heap[i].name
  <2>1. d = 0 /\ Lazy(name) /\ n = symbols[name].expr
    BY <1>1, <1>2 DEF NextCall
  <2>2. Calls(i) = 1
    BY <1>1, <1>2, CallsType
  <2>3. n \in Position
    <3>1. name \in AllNames
      BY <1>1, <1>2, NodeTypes DEF Position
    <3>2. n \in 0 .. Len(heap) /\ n # 0
      BY <2>1, <3>1 DEF SymbolsOK, Entries, Lazy
    <3>3. Len(heap) \in Nat
      BY HeapLength
    <3> QED BY <3>2, <3>3 DEF Position
  <2>4. n = Child(i, c)
    BY <1>2, <2>1 DEF Child
  <2>5. Reached(T, i, d, 1)
    BY <1>1, <1>2, <2>1, <2>2 DEF Reached, Leaf
  <2> QED BY <1>1, <2>3, <2>4, <2>5
<1>3. CASE heap[i].op # "identifier"
  <2>1. /\ d < Arity(heap[i]) /\ (d > 0 => ok) /\ n = Kid(i, c)
        /\ heap[i].op = "?:" /\ d = 1 => heap[heap[i].kids[1]].type = "ABSOLUTE"
    BY <1>1, <1>3 DEF NextCall, Kid
  <2>2. heap[i].op \notin Leaf
    <3>1. SUFFICES ASSUME heap[i].op = "value" PROVE FALSE
      BY <1>3 DEF Leaf
    <3>2. Calls(i) = 0 /\ Calls(i) = Arity(heap[i])
      BY <1>1, <3>1, CallsType DEF Calls
    <3> QED BY <1>1, <2>1, <3>2
  <2>3. /\ Arity(heap[i]) \in {1, 2} /\ Calls(i) = Arity(heap[i])
        /\ \A k \in 1 .. Arity(heap[i]) : Kid(i, k) \in 1 .. i - 1
    BY <1>1, <2>2, KidTypes
  <2>4. n \in Position
    <3>1. c \in 1 .. Arity(heap[i])
      BY <1>1, <2>1, <2>3
    <3>2. Kid(i, c) \in 1 .. i - 1
      BY <2>3, <3>1
    <3>3. i \in 1 .. Len(heap) /\ Len(heap) \in Nat
      BY <1>1, HeapLength DEF Position
    <3>4. \A k \in 1 .. i - 1 : k \in 1 .. Len(heap)
      BY <3>3
    <3> QED BY <2>1, <3>2, <3>4 DEF Position
  <2>5. n = Child(i, c)
    BY <1>3, <2>1 DEF Child
  <2>6. \A e \in 1 .. d : Kid(i, e) \in T
    <3>1. d > 0 => Kid(i, d) \in T
      <4>1. d > 0 => Verdict(T, U, Child(i, d))
        BY DEF Frames
      <4>2. Child(i, d) = Kid(i, d)
        BY <1>3 DEF Child
      <4> QED BY <2>1, <4>1, <4>2 DEF Verdict
    <3>2. \A e \in 1 .. d : e < d => Kid(i, e) \in T
      BY <1>1, <2>2 DEF Reached
    <3>3. \A e \in 1 .. d : d > 0 /\ (e < d \/ e = d)
      BY <1>1
    <3> QED BY <3>1, <3>2, <3>3
  <2>7. heap[i].op = "?:" /\ (d = 2 \/ d = 1) => heap[Kid(i, 1)].type = "ABSOLUTE"
    <3>1. Kid(i, 1) = heap[i].kids[1]
      BY DEF Kid, Operand
    <3>2. d # 2
      BY <1>1, <2>1, <2>3
    <3> QED BY <2>1, <3>1, <3>2
  <2>8. Reached(T, i, d, 1)
    BY <1>1, <1>3, <2>1, <2>2, <2>3, <2>6, <2>7 DEF Reached
  <2> QED BY <1>1, <2>4, <2>5, <2>8
<1> QED BY <1>2, <1>3

LEMMA SameMarks ==
  ASSUME heap' = heap, symbols' = symbols, NEW T, NEW U, Marks(T, U), IsHeap(heap), SymbolsOK
  PROVE  Marks(T, U)'
<1>1. NodesKept(T \cup U) /\ DefinitionsKept /\ NewlyResolved(T \cup U)
  BY DEF NodesKept, DefinitionsKept, NewlyResolved, Position
<1>2. T \subseteq Position' /\ U \subseteq Position' /\ T \cap U = {}
  BY DEF Marks, Position
<1> QED BY <1>1, <1>2, NewMarks

LEMMA DescendFrames ==
  ASSUME NEW T, NEW U, Marks(T, U), Frames(T, U), IsHeap(heap), SymbolsOK, stack # <<>>,
         NEW n \in NextCall, stack' = Append(stack, NewFrame(n)), heap' = heap, symbols' = symbols
  PROVE  Frames(T, U)' /\ stack' # <<>> /\ stack'[1].node = stack[1].node
<1> DEFINE m == Len(stack)
<1>1. PICK i, d, c : i = Top.node /\ d = Top.done /\ c = d + 1
  OBVIOUS
<1>2. n = Child(i, c) /\ n \in Position /\ Reached(T, i, d, 1) /\ d \in Nat
  BY <1>1, NextIsChild
<1>3. n \in Nat \ {0} /\ stack \in Seq(Frame)
  <2>1. stack \in Seq(Frame) /\ Len(heap) \in Nat
    BY HeapLength DEF Frames
  <2> QED BY <1>2, <2>1 DEF Position
<1>4. /\ stack' \in Seq(Frame) /\ stack' # <<>> /\ Len(stack') = m + 1
      /\ m \in Nat /\ DOMAIN stack = 1 .. m /\ DOMAIN stack' = 1 .. m + 1
      /\ stack'[m + 1].node = n /\ stack'[m + 1].done = 0
      /\ \A k \in 1 .. m : stack'[k] = stack[k]
  BY <1>3, Pushed
<1>5. m # 0 /\ i = stack[m].node /\ d = stack[m].done
  BY <1>1, <1>3 DEF Top
<1> HIDE DEF m
<1>6. ASSUME NEW k \in 1 .. m + 1
      PROVE  FrameOK(T, k)'
  <2>1. CASE k = m + 1
    <3>1. Reached(T, n, 0, 0)
      BY <1>2, ZeroCalls
    <3>2. Reached(T, n, 0, 0)'
      BY <3>1, SameReached
    <3>3. ~(k < Len(stack'))
      BY <1>4, <2>1
    <3> QED BY <1>4, <2>1, <3>2, <3>3 DEF FrameOK, Reached, Child, Calls, Kid, Operand
  <2>2. CASE k = m
    <3>1. k < Len(stack') /\ stack'[k] = stack[k] /\ k + 1 = m + 1
      BY <1>4, <1>5, <2>2
    <3>2. Reached(T, i, d, 1)' /\ Child(i, c)' = n
      BY <1>2, SameReached
    <3>3. stack'[k].node = i /\ stack'[k].done = d /\ stack'[k + 1].node = n
      BY <1>4, <1>5, <2>2, <3>1
    <3>4. FrameOK(T, k)'
      <4>1. /\ k < Len(stack') /\ c = d + 1 /\ stack'[k].node = i /\ stack'[k].done = d
            /\ Reached(T, i, d, 1)' /\ stack'[k + 1].node = Child(i, c)'
        BY <1>1, <3>1, <3>2, <3>3
      <4> QED BY <4>1, ZenonT(60) DEF FrameOK, Reached, Child, Calls, Kid, Operand
    <3> QED BY <3>4
  <2>3. CASE k < m
    <3>1. /\ k \in 1 .. Len(stack) /\ k < Len(stack) /\ k < Len(stack') /\ k + 1 \in 1 .. m
          /\ k \in 1 .. m
      BY <1>4, <2>3 DEF m
    <3>2. PICK j, b, a : j = stack[k].node /\ b = stack[k].done /\ a = b + 1
      OBVIOUS
    <3>3. Reached(T, j, b, 1) /\ stack[k + 1].node = Child(j, a)
      BY <3>1, <3>2, FrameTypes
    <3>4. Reached(T, j, b, 1)' /\ Child(j, a)' = stack[k + 1].node
      BY <3>3, SameReached
    <3>5. stack'[k].node = j /\ stack'[k].done = b /\ stack'[k + 1] = stack[k + 1]
      BY <1>4, <3>1, <3>2
    <3> QED BY <3>1, <3>2, <3>4, <3>5 DEF FrameOK, Reached, Child, Calls, Kid, Operand
  <2> QED BY <1>4, <2>1, <2>2, <2>3
<1>7. NoneOvertakes'
  <2>1. ASSUME NEW j \in 1 .. m + 1, NEW k \in 1 .. m + 1, j < k, stack'[j].node = stack'[k].node
        PROVE  stack'[k].done <= stack'[j].done
    <3>1. j \in 1 .. m /\ stack'[j] = stack[j]
      BY <1>4, <2>1
    <3>2. stack[j].done \in Nat
      BY <3>1, FrameTypes DEF m
    <3>3. CASE k = m + 1
      BY <1>4, <3>1, <3>2, <3>3
    <3>4. CASE k # m + 1
      <4>1. k \in 1 .. m /\ stack'[k] = stack[k]
        BY <1>4, <3>4
      <4> QED BY <1>4, <2>1, <3>1, <4>1 DEF Frames, NoneOvertakes
    <3> QED BY <3>3, <3>4
  <2> QED BY <1>4, <2>1 DEF NoneOvertakes
<1>8. Top'.done = 0
  BY <1>4 DEF Top
<1>9. stack'[1].node = stack[1].node
  BY <1>4, <1>5
<1> QED BY <1>4, <1>6, <1>7, <1>8, <1>9 DEF Frames

LEMMA DescendKeeps ==
  ASSUME NEW T, NEW U, Typed, Consistent(T, U), Descend
  PROVE  Typed' /\ \E V, W : Consistent(V, W)'
<1>1. PICK n \in NextCall : stack' = Append(stack, NewFrame(n))
  BY DEF Descend, Call, NewFrame
<1>2. /\ stack # <<>>
      /\ UNCHANGED <<table, current_section, heap, symbols, ok, ast, phase, pc, pending,
                     error_count, warning_count, garbage>>
  BY DEF Descend, InCall, sectionVars, reports
<1>3. Marks(T, U) /\ Frames(T, U) /\ IsHeap(heap) /\ SymbolsOK
  BY DEF Consistent, Typed
<1>4. Frames(T, U)' /\ stack' # <<>> /\ stack'[1].node = stack[1].node
  BY <1>1, <1>2, <1>3, DescendFrames
<1>5. Marks(T, U)'
  BY <1>2, <1>3, SameMarks
<1>6. PendingOK(T, U)'
  BY <1>2, <1>4 DEF Consistent, PendingOK, Waiting, Lazy
<1>7. SpacesOK(T)'
  BY <1>2 DEF Consistent, SpacesOK, SpaceFillsWhatItReserved, Low16
<1>8. Typed'
  <2>1. S!TypeOK' /\ S!TableWellFormed'
    BY <1>2 DEF Typed, S!TypeOK, S!TableWellFormed
  <2>2. IsHeap(heap)' /\ SymbolsOK'
    BY <1>2, <1>3 DEF IsHeap, IsNode, SymbolsOK, Entries, Position
  <2>3. StatementsOK'
    BY <1>2 DEF Typed, StatementsOK
  <2>4. ControlOK'
    BY <1>2 DEF Typed, ControlOK, Waiting
  <2> QED BY <2>1, <2>2, <2>3, <2>4 DEF Typed
<1> QED BY <1>4, <1>5, <1>6, <1>7, <1>8 DEF Consistent

LEMMA SameFrames ==
  ASSUME NEW T, NEW U, Frames(T, U), heap' = heap, symbols' = symbols, stack' = stack, ok' = ok
  PROVE  Frames(T, U)'
<1>1. stack \in Seq(Frame) /\ DOMAIN stack = 1 .. Len(stack)
  BY DEF Frames
<1>2. ASSUME NEW k \in 1 .. Len(stack)
      PROVE  FrameOK(T, k)'
  <2>1. PICK j, b, a : j = stack[k].node /\ b = stack[k].done /\ a = b + 1
    OBVIOUS
  <2>2. /\ k < Len(stack) => Reached(T, j, b, 1) /\ stack[k + 1].node = Child(j, a)
        /\ ~(k < Len(stack)) => Reached(T, j, b, 0)
    BY <2>1, FrameTypes
  <2>3. /\ k < Len(stack) => Reached(T, j, b, 1)' /\ stack[k + 1].node = Child(j, a)'
        /\ ~(k < Len(stack)) => Reached(T, j, b, 0)'
    BY <2>2, SameReached
  <2>4. CASE k < Len(stack)
    BY <2>1, <2>3, <2>4, ZenonT(60) DEF FrameOK, Reached, Child, Calls, Kid, Operand
  <2>5. CASE ~(k < Len(stack))
    BY <2>1, <2>3, <2>5, ZenonT(60) DEF FrameOK, Reached, Child, Calls, Kid, Operand
  <2> QED BY <2>4, <2>5
<1>3. NoneOvertakes'
  BY DEF Frames, NoneOvertakes
<1>4. ASSUME stack # <<>>, Top.done > 0
      PROVE  /\ Verdict(T, U, Child(Top.node, Top.done))'
             /\ \A k \in DOMAIN stack : stack[k].node # Child(Top.node, Top.done)'
  <2>1. PICK i, d, last : i = Top.node /\ d = Top.done /\ last = Child(i, d)
    OBVIOUS
  <2>2. Verdict(T, U, last) /\ \A k \in DOMAIN stack : stack[k].node # last
    BY <1>4, <2>1 DEF Frames
  <2>3. Verdict(T, U, last)'
    BY <2>2 DEF Verdict
  <2>4. Child(i, d)' = last
    BY <2>1, SameReached
  <2>5. Child(Top.node, Top.done)' = last
    BY <2>1, <2>4 DEF Child, Kid, Operand, Top
  <2> QED BY <2>2, <2>3, <2>5 DEF Verdict
<1>5. Top' = Top
  BY DEF Top
<1> QED BY <1>1, <1>2, <1>3, <1>4, <1>5 DEF Frames

LEMMA StackOverflowKeeps ==
  ASSUME NEW T, NEW U, Typed, Consistent(T, U), StackOverflow
  PROVE  Typed' /\ \E V, W : Consistent(V, W)'
<1>1. /\ stack # <<>> /\ phase \in {"parse", "generate"} /\ phase' = "crashed"
      /\ UNCHANGED <<table, current_section, heap, symbols, stack, ok, ast, pc, pending,
                     error_count, warning_count, garbage>>
  BY DEF StackOverflow, InCall, sectionVars, machine, reports
<1>2. Marks(T, U) /\ Frames(T, U) /\ IsHeap(heap) /\ SymbolsOK
  BY DEF Consistent, Typed
<1>3. Marks(T, U)'
  BY <1>1, <1>2, SameMarks
<1>4. Frames(T, U)'
  BY <1>1, <1>2, SameFrames
<1>5. PendingOK(T, U)'
  BY <1>1 DEF Consistent, PendingOK, Waiting, Lazy
<1>6. SpacesOK(T)'
  BY <1>1 DEF Consistent, SpacesOK, SpaceFillsWhatItReserved
<1>7. Typed'
  <2>1. S!TypeOK' /\ S!TableWellFormed'
    BY <1>1 DEF Typed, S!TypeOK, S!TableWellFormed
  <2>2. IsHeap(heap)' /\ SymbolsOK'
    BY <1>1, <1>2 DEF IsHeap, IsNode, SymbolsOK, Entries, Position
  <2>3. StatementsOK'
    BY <1>1 DEF Typed, StatementsOK
  <2>4. ControlOK'
    BY <1>1 DEF Typed, ControlOK, Waiting
  <2> QED BY <2>1, <2>2, <2>3, <2>4 DEF Typed
<1> QED BY <1>3, <1>4, <1>5, <1>6, <1>7 DEF Consistent

-----------------------------------------------------------------------------
\* The section table while lines are parsed.

\* The lemmas about the section table, for the table of this module.
SP == INSTANCE SectionsProofs WITH Blocks <- {}, Sizes <- {}, MaxSize <- 0

TableOK == S!TypeOK /\ S!TableWellFormed

LEMMA SectionsAssumptions ==
  /\ ".text" \in Names
  /\ {} \subseteq Seq(SP!Byte) /\ {} \subseteq Nat /\ 0 \in Nat
BY NamesAssumption

LEMMA SameTable ==
  /\ SP!IInv <=> TableOK
  /\ SP!IInv' <=> TableOK'
  /\ SP!Init <=> S!Init
  /\ \A name : SP!SetSection(name) <=> S!SetSection(name)
  /\ \A b : SP!AppendBlock(b) <=> S!AppendBlock(b)
  /\ \A n : SP!Repeat(SP!Filler, n) = S!Repeat(S!Filler, n)
<1>1. (SP!IInv <=> TableOK) /\ (SP!IInv' <=> TableOK')
  BY DEF SP!IInv, TableOK, S!TypeOK, SP!TypeOK, S!TableWellFormed, SP!TableWellFormed,
         S!Section, SP!Section, S!Byte, SP!Byte, S!FlagsOf, SP!FlagsOf, S!Flags, SP!Flags
<1>2. SP!Init <=> S!Init
  BY DEF SP!Init, S!Init, SP!NewSection, S!NewSection, SP!FlagsOf, S!FlagsOf
<1>3. \A name : SP!SetSection(name) <=> S!SetSection(name)
  BY DEF SP!SetSection, S!SetSection, S!RenameFirst, SP!RenameFirst, S!Reenter,
         SP!Reenter, S!Create, SP!Create, S!NewSection, SP!NewSection,
         S!OnlyAnEmptySection, SP!OnlyAnEmptySection, S!FlagsOf, SP!FlagsOf
<1>4. \A b : SP!AppendBlock(b) <=> S!AppendBlock(b)
  BY DEF S!WriteBlock, SP!WriteBlock, S!AppendBlock, SP!AppendBlock, S!WriteAt, SP!WriteAt,
         S!Larger, SP!Larger
<1>5. \A n : SP!Repeat(SP!Filler, n) = S!Repeat(S!Filler, n)
  BY DEF SP!Repeat, S!Repeat, SP!Filler, S!Filler
<1> QED BY <1>1, <1>2, <1>3, <1>4, <1>5

LEMMA TableTypes ==
  ASSUME TableOK
  PROVE  /\ DOMAIN table = 1 .. Len(table) /\ Len(table) \in Nat
         /\ current_section \in 1 .. Len(table) /\ CurrentSize \in Nat
<1>1. table \in Seq(S!Section) /\ current_section \in DOMAIN table
  BY DEF TableOK, S!TypeOK
<1>2. DOMAIN table = 1 .. Len(table) /\ Len(table) \in Nat /\ table[current_section] \in S!Section
  BY <1>1
<1>3. table[current_section].contents \in Seq(S!Byte)
  BY <1>2 DEF S!Section
<1> QED BY <1>1, <1>2, <1>3, LengthIsNat DEF CurrentSize

\* Sections are never removed.
LEMMA SetSectionTable ==
  ASSUME TableOK, NEW name \in Names, S!SetSection(name)
  PROVE  TableOK' /\ Len(table) <= Len(table')
<1>1. TableOK'
  BY SameTable, SectionsAssumptions, SP!SetSectionInv
<1>2. table \in Seq(S!Section) /\ Len(table) \in Nat
  BY TableTypes DEF TableOK, S!TypeOK
<1>3. CASE S!RenameFirst(name)
  BY <1>1, <1>2, <1>3 DEF S!RenameFirst
<1>4. CASE S!Reenter(name)
  BY <1>1, <1>2, <1>4 DEF S!Reenter
<1>5. CASE S!Create(name)
  <2>1. table' = Append(table, S!NewSection(name))
    BY <1>5 DEF S!Create
  <2>2. Len(table') = Len(table) + 1
    BY <1>2, <2>1
  <2> QED BY <1>1, <1>2, <2>2
<1> QED BY <1>3, <1>4, <1>5 DEF S!SetSection

LEMMA IncreaseTable ==
  ASSUME TableOK, NEW size \in Nat, S!Increase(size)
  PROVE  TableOK' /\ Len(table) <= Len(table')
<1> DEFINE b == S!Repeat(S!Filler, size)
           o == Len(table[current_section].contents)
<1>1. S!AppendBlock(b)
  BY DEF S!Increase
<1>2. b \in Seq(SP!Byte)
  <2>1. SP!Repeat(SP!Filler, size) \in Seq(SP!Byte)
    BY SectionsAssumptions, SP!RepeatType
  <2> QED BY <2>1, SameTable
<1>3. o \in Nat /\ current_section \in DOMAIN table
  BY TableTypes DEF CurrentSize
<1> HIDE DEF b
<1>4. SP!AppendBlock(b)
  BY <1>1, SameTable
<1>5. SP!WriteBlock(current_section, o, b)
  BY <1>4 DEF SP!AppendBlock
<1>6. SP!IInv
  BY SameTable
<1> HIDE DEF o
<1>7. SP!IInv' /\ DOMAIN table' = DOMAIN table
  BY <1>2, <1>3, <1>5, <1>6, SectionsAssumptions, SP!WriteBlockInv
<1>8. TableOK'
  BY <1>7, SameTable
<1>9. table \in Seq(S!Section) /\ table' \in Seq(S!Section)
  BY <1>8 DEF TableOK, S!TypeOK
<1>10. Len(table') = Len(table)
  BY <1>7, <1>9
<1>11. Len(table) \in Nat
  BY TableTypes
<1> QED BY <1>8, <1>10, <1>11

LEMMA AlignmentGap ==
  ASSUME NEW n \in Int, NEW o \in Nat
  PROVE  AlignUp(o, n) - o \in Nat
<1> DEFINE e == n % 32
           d == 2^e
           q == (o + d - 1) \div d
           r == (o + d - 1) % d
<1>0. e \in 0 .. 31
  OBVIOUS
<1> HIDE DEF e
<1>1. d \in Nat \ {0}
  BY <1>0, PowersArePositive
<1> HIDE DEF d
<1>2. q \in Int /\ r \in 0 .. d - 1 /\ o + d - 1 = q * d + r
  <2>1. o + d - 1 \in Int
    BY <1>1
  <2> QED BY <1>1, <2>1, QuotientAndRest, Zenon
<1>3. AlignUp(o, n) = q * d
  BY DEF AlignUp, d, e
<1> HIDE DEF q, r
<1>4. q * d \in Int
  BY <1>1, <1>2
<1>5. q * d - o \in Nat
  BY <1>1, <1>2, <1>4
<1> QED BY <1>3, <1>5

-----------------------------------------------------------------------------
\* A line of the source.

\* The value node of a label, made as the label is defined.
IsLabelNode(i) == heap[i].op = "value" /\ heap[i].type = "ABSOLUTE" /\ heap[i].symbol = ""

LEMMA LabelNodeMarks ==
  ASSUME NEW T, NEW U, NEW i, IsLabelNode(i)'
  PROVE  /\ Fits(heap[i].value)' => Sound(T, U, i)'
         /\ ~Fits(heap[i].value)' => Unsound(T, U, i)'
<1>1. heap'[i].op = "value" /\ heap'[i].type = "ABSOLUTE" /\ heap'[i].symbol = ""
  BY DEF IsLabelNode
<1>2. "value" \in Leaf /\ "ABSOLUTE" \in Resolved
  BY DEF Leaf, Resolved
<1>3. ASSUME Fits(heap[i].value)'
      PROVE  Sound(T, U, i)'
  BY <1>1, <1>2, <1>3 DEF Sound
<1>4. ASSUME ~Fits(heap[i].value)'
      PROVE  Unsound(T, U, i)'
  BY <1>1, <1>2, <1>4 DEF Unsound
<1> QED BY <1>3, <1>4

\* The symbols a line resolves are labels, whose nodes it makes.
ResolvedByLabels(F) ==
  \A n \in AllNames :
    symbols'[n].type \in Resolved =>
      \/ symbols[n].type \in Resolved
      \/ symbols'[n].expr \in F

\* The label nodes a line makes, for the symbols it resolves.
LabelsMade ==
  \E F : /\ F \subseteq Position' /\ F \cap Position = {}
         /\ \A i \in F : IsLabelNode(i)'
         /\ ResolvedByLabels(F)

LEMMA LineMarks ==
  ASSUME NEW T, NEW U, Marks(T, U), NodesKept(Position), DefinitionsKept, IsHeap(heap), SymbolsOK,
         NEW F, F \subseteq Position', F \cap Position = {}, \A i \in F : IsLabelNode(i)',
         ResolvedByLabels(F)
  PROVE  \E V, W : T \subseteq V /\ Marks(V, W)'
<1>0. PICK G, H : /\ G = {i \in F : Fits(heap[i].value)'}
                  /\ H = {i \in F : ~Fits(heap[i].value)'}
  OBVIOUS
<1> DEFINE V == T \cup G
           W == U \cup H
<1>1. /\ T \subseteq Position /\ U \subseteq Position /\ T \cap U = {}
      /\ Position \subseteq Position'
  BY DEF Marks, NodesKept
<1>2. /\ T \subseteq V /\ U \subseteq W /\ V \cap W = {}
      /\ V \subseteq Position' /\ W \subseteq Position' /\ V \cup W = T \cup U \cup F
      /\ \A i \in V : i \in T \/ (i \in F /\ Fits(heap[i].value)')
      /\ \A i \in W : i \in U \/ (i \in F /\ ~Fits(heap[i].value)')
  BY <1>0, <1>1
<1> HIDE DEF V, W
<1>3. NodesKept(T \cup U)
  BY <1>1 DEF NodesKept
<1>4. \A i \in V : Sound(V, W, i)'
  <2>1. \A i \in T : Sound(V, W, i)'
    BY <1>2, <1>3, SoundKept
  <2>2. \A i \in F : Fits(heap[i].value)' => Sound(V, W, i)'
    BY LabelNodeMarks
  <2> QED BY <1>2, <2>1, <2>2
<1>5. \A i \in W : Unsound(V, W, i)'
  <2>1. \A i \in U : Unsound(V, W, i)'
    BY <1>2, <1>3, UnsoundKept
  <2>2. \A i \in F : ~Fits(heap[i].value)' => Unsound(V, W, i)'
    BY LabelNodeMarks
  <2> QED BY <1>2, <2>1, <2>2
<1>6. ASSUME NEW n \in AllNames, symbols'[n].type \in Resolved
      PROVE  symbols'[n].expr \in V \cup W
  <2>1. CASE symbols[n].type \in Resolved
    <3>1. symbols[n].expr \in T \cup U
      BY <2>1 DEF Marks
    <3>2. symbols[n].expr # 0
      <4>1. 0 \notin Position
        BY HeapLength DEF Position
      <4> QED BY <1>1, <3>1, <4>1
    <3>3. symbols'[n].expr = symbols[n].expr
      BY <3>2 DEF DefinitionsKept
    <3> QED BY <1>2, <3>1, <3>3
  <2>2. CASE symbols'[n].expr \in F
    BY <1>2, <2>2
  <2> QED BY <1>6, <2>1, <2>2 DEF ResolvedByLabels
<1>7. Marks(V, W)'
  BY <1>2, <1>4, <1>5, <1>6 DEF Marks
<1> QED BY <1>2, <1>7

\* What a line does to a symbol, if anything: it is a label whose node is in F,
\* is mentioned for the first time or takes an expression.
LineMoves(n, F, root) ==
  \/ symbols'[n] = symbols[n]
  \/ /\ symbols[n].expr = 0
     /\ \E v \in F : symbols'[n] = [type |-> "LABEL", section |-> current_section, expr |-> v]
  \/ /\ symbols[n] = Absent
     /\ symbols'[n] = [type |-> "UNDEFINED", section |-> 1, expr |-> 0]
  \/ /\ symbols[n].expr = 0
     /\ symbols'[n] = [type |-> "UNDEFINED", section |-> current_section, expr |-> root]

LEMMA NewEntry ==
  ASSUME NEW type \in SymbolTypes, NEW section \in 1 .. Len(table'), NEW expr \in 0 .. Len(heap'),
         Len(table') \in Nat
  PROVE  [type |-> type, section |-> section, expr |-> expr] \in Entries'
BY DEF Entries

LEMMA EntryKept ==
  ASSUME SymbolsOK, NEW n \in AllNames, Len(table) \in Nat, Len(table') \in Nat,
         Len(table) <= Len(table'), Len(heap) \in Nat, Len(heap') \in Nat,
         Len(heap) <= Len(heap')
  PROVE  symbols[n] \in Entries'
<1>1. symbols[n] \in Entries
  BY DEF SymbolsOK
<1>2. 0 .. Len(table) \subseteq 0 .. Len(table') /\ 0 .. Len(heap) \subseteq 0 .. Len(heap')
  OBVIOUS
<1> QED BY <1>1, <1>2 DEF Entries

LEMMA LineMoveTypes ==
  ASSUME SymbolsOK, Len(table) \in Nat, Len(table') \in Nat, Len(table) <= Len(table'),
         current_section \in 1 .. Len(table), Len(heap) \in Nat, Len(heap') \in Nat,
         Len(heap) <= Len(heap'), NEW F, F \subseteq Position', NEW root \in 0 .. Len(heap'),
         NEW n \in AllNames, LineMoves(n, F, root)
  PROVE  /\ symbols'[n] \in Entries'
         /\ symbols'[n].expr = 0 => symbols'[n].type \in {"absent", "UNDEFINED"}
         /\ symbols'[n].type = "absent" => symbols'[n] = Absent /\ symbols[n] = Absent
         /\ symbols[n].expr # 0 => symbols'[n] = symbols[n]
         /\ symbols[n].type \in Resolved => symbols'[n] = symbols[n]
         /\ symbols'[n].type \in Resolved => symbols[n].type \in Resolved \/ symbols'[n].expr \in F
<1>1. /\ symbols[n].expr = 0 => symbols[n].type \in {"absent", "UNDEFINED"}
      /\ symbols[n].type = "absent" => symbols[n] = Absent
  BY DEF SymbolsOK
<1>2. symbols[n].type \in Resolved => symbols[n].expr # 0
  BY <1>1 DEF Resolved
<1>3. current_section \in 1 .. Len(table') /\ 1 \in 1 .. Len(table') /\ 0 \in 0 .. Len(heap')
  OBVIOUS
<1>4. "LABEL" \in SymbolTypes /\ "UNDEFINED" \in SymbolTypes /\ "LABEL" \in Resolved
      /\ "UNDEFINED" \notin Resolved
  BY DEF SymbolTypes, Resolved
<1>5. CASE symbols'[n] = symbols[n]
  <2>1. symbols'[n] \in Entries'
    BY <1>5, EntryKept
  <2> QED BY <1>1, <1>5, <2>1
<1>6. ASSUME symbols[n].expr = 0, NEW v \in F,
             symbols'[n] = [type |-> "LABEL", section |-> current_section, expr |-> v]
      PROVE  /\ symbols'[n] \in Entries' /\ symbols'[n].type = "LABEL" /\ symbols'[n].expr = v
             /\ v # 0
  <2>1. v \in 0 .. Len(heap') /\ v # 0
    BY DEF Position
  <2>2. symbols'[n] \in Entries'
    BY <1>3, <1>4, <1>6, <2>1, NewEntry
  <2> QED BY <1>6, <2>1, <2>2
<1>7. CASE /\ symbols[n] = Absent
           /\ symbols'[n] = [type |-> "UNDEFINED", section |-> 1, expr |-> 0]
  <2>1. symbols'[n] \in Entries'
    BY <1>3, <1>4, <1>7, NewEntry
  <2>2. symbols[n].expr = 0
    BY <1>7 DEF Absent
  <2> QED BY <1>2, <1>4, <1>7, <2>1, <2>2
<1>8. CASE /\ symbols[n].expr = 0
           /\ symbols'[n] = [type |-> "UNDEFINED", section |-> current_section, expr |-> root]
  <2>1. symbols'[n] \in Entries'
    BY <1>3, <1>4, <1>8, NewEntry
  <2> QED BY <1>2, <1>4, <1>8, <2>1
<1>9. CASE /\ symbols[n].expr = 0
           /\ \E v \in F : symbols'[n] = [type |-> "LABEL", section |-> current_section, expr |-> v]
  <2>1. PICK v \in F : /\ symbols'[n] \in Entries' /\ symbols'[n].type = "LABEL"
                       /\ symbols'[n].expr = v /\ v # 0
    BY <1>6, <1>9
  <2> QED BY <1>2, <1>4, <1>9, <2>1
<1> QED BY <1>5, <1>7, <1>8, <1>9 DEF LineMoves

LEMMA SymbolsAfterLine ==
  ASSUME SymbolsOK, Len(table) \in Nat, Len(table') \in Nat, Len(table) <= Len(table'),
         current_section \in 1 .. Len(table), Len(heap) \in Nat, Len(heap') \in Nat,
         Len(heap) <= Len(heap'), NEW F, F \subseteq Position', NEW root \in 0 .. Len(heap'),
         NEW s, symbols' = [n \in AllNames |-> s[n]],
         \A n \in AllNames : LineMoves(n, F, root),
         IsHeap(heap), NodesKept(Position),
         \A i \in Position' : heap'[i].op = "identifier" =>
            i \in Position \/ symbols'[heap'[i].name].type # "absent",
         NEW m, m = Len(ast'),
         \A k \in m + 1 .. MaxLines : symbols'[LineNames[k]] = Absent
  PROVE  SymbolsOK' /\ DefinitionsKept /\ ResolvedByLabels(F)
<1>1. \A n \in AllNames :
        /\ symbols'[n] \in Entries'
        /\ symbols'[n].expr = 0 => symbols'[n].type \in {"absent", "UNDEFINED"}
        /\ symbols'[n].type = "absent" => symbols'[n] = Absent /\ symbols[n] = Absent
        /\ symbols[n].expr # 0 => symbols'[n] = symbols[n]
        /\ symbols[n].type \in Resolved => symbols'[n] = symbols[n]
        /\ symbols'[n].type \in Resolved => symbols[n].type \in Resolved \/ symbols'[n].expr \in F
  BY LineMoveTypes
<1>2. symbols' \in [AllNames -> Entries']
  BY <1>1
<1>3. \A i \in Position' : heap'[i].op = "identifier" => symbols'[heap'[i].name].type # "absent"
  <2>1. ASSUME NEW i \in Position, heap'[i].op = "identifier"
        PROVE  symbols'[heap'[i].name].type # "absent"
    <3>1. heap[i].op = "identifier" /\ heap'[i].name = heap[i].name
      BY <2>1 DEF NodesKept
    <3>2. heap[i].name \in AllNames /\ symbols[heap[i].name].type # "absent"
      BY <3>1, NodeTypes DEF SymbolsOK, Position
    <3>3. Absent.type = "absent"
      BY DEF Absent
    <3> QED BY <1>1, <3>1, <3>2, <3>3
  <2> QED BY <2>1
<1>4. SymbolsOK'
  <2>1. Absent' = Absent
    BY DEF Absent
  <2> QED BY <1>1, <1>2, <1>3, <2>1 DEF SymbolsOK
<1>5. DefinitionsKept /\ ResolvedByLabels(F)
  BY <1>1 DEF DefinitionsKept, ResolvedByLabels
<1> QED BY <1>4, <1>5

\* A statement that refers to nodes and symbols there are.
GoodStatement(st) ==
  /\ st \in StatementType /\ st.root <= Len(heap)
  /\ st.op \in Evaluating => st.root # 0
  /\ st.op \in {"label", "equ"} => st.name \in AllNames
  /\ st.op = "equ" /\ st.live => symbols[st.name].expr = st.root

LEMMA OneMore ==
  ASSUME NEW X, NEW s \in Seq(X), NEW e \in X, NEW t, t = Append(s, e)
  PROVE  /\ t \in Seq(X) /\ Len(t) = Len(s) + 1 /\ Len(s) \in Nat /\ t # <<>>
         /\ t[Len(s) + 1] = e /\ \A j \in 1 .. Len(s) : t[j] = s[j]
OBVIOUS

LEMMA LineStatements ==
  ASSUME StatementsOK, DefinitionsKept, Len(heap) \in Nat, Len(heap') \in Nat,
         Len(heap) <= Len(heap'), NEW st, GoodStatement(st)', ast' = Append(ast, st)
  PROVE  /\ StatementsOK' /\ Len(ast) \in Nat /\ Len(ast') = Len(ast) + 1 /\ ast' # <<>>
         /\ ast'[Len(ast')] = st /\ \A j \in 1 .. Len(ast) : ast'[j] = ast[j]
<1>1. ast \in Seq(StatementType)
  BY DEF StatementsOK
<1>2. st \in StatementType
  BY DEF GoodStatement
<1>3. /\ ast' \in Seq(StatementType) /\ Len(ast') = Len(ast) + 1 /\ Len(ast) \in Nat
      /\ ast' # <<>>
      /\ ast'[Len(ast) + 1] = st /\ \A j \in 1 .. Len(ast) : ast'[j] = ast[j]
  BY <1>1, <1>2, OneMore
<1>4. ASSUME NEW j \in 1 .. Len(ast')
      PROVE  /\ ast'[j].root <= Len(heap')
             /\ ast'[j].op \in Evaluating => ast'[j].root # 0
             /\ ast'[j].op \in {"label", "equ"} => ast'[j].name \in AllNames
             /\ ast'[j].op = "equ" /\ ast'[j].live => symbols'[ast'[j].name].expr = ast'[j].root
  <2>1. CASE j = Len(ast) + 1
    BY <1>3, <2>1 DEF GoodStatement
  <2>2. CASE j # Len(ast) + 1
    <3>1. j \in 1 .. Len(ast) /\ ast'[j] = ast[j]
      BY <1>3, <2>2
    <3>2. /\ ast[j].root <= Len(heap)
          /\ ast[j].op \in Evaluating => ast[j].root # 0
          /\ ast[j].op \in {"label", "equ"} => ast[j].name \in AllNames
          /\ ast[j].op = "equ" /\ ast[j].live => symbols[ast[j].name].expr = ast[j].root
      BY <3>1 DEF StatementsOK
    <3>3. ast[j].root \in Nat
      <4>1. ast[j] \in StatementType
        BY <1>1, <3>1
      <4> QED BY <4>1, Zenon DEF StatementType
    <3>4. ast[j].root <= Len(heap')
      BY <3>2, <3>3
    <3>5. ast[j].op = "equ" => ast[j].op \in Evaluating
      BY DEF Evaluating
    <3>6. ast[j].op = "equ" /\ ast[j].live => symbols'[ast[j].name].expr = ast[j].root
      BY <3>2, <3>5 DEF DefinitionsKept
    <3> QED BY <3>1, <3>2, <3>4, <3>6
  <2> QED BY <2>1, <2>2
<1>5. StatementsOK'
  BY <1>3, <1>4 DEF StatementsOK
<1> QED BY <1>3, <1>5

\* What a line leaves to be done: nothing, or a call.
NoCall(st) == stack' = stack /\ pending' = "none" /\ st.op # "space"

FirstCall(st) ==
  /\ stack' = Append(stack, NewFrame(st.root)) /\ st.root # 0
  /\ pending' \in {"label", "space"} /\ st.op = pending'
  /\ pending' = "label" => \A n \in AllNames : n = st.name => Lazy(n)' /\ symbols'[n].expr = st.root

LEMMA FirstFrame ==
  ASSUME stack = <<>>, NEW n \in Nat \ {0}, stack' = Append(stack, NewFrame(n))
  PROVE  /\ stack' \in Seq(Frame) /\ stack' # <<>> /\ Len(stack') = 1 /\ DOMAIN stack' = {1}
         /\ stack'[1].node = n /\ stack'[1].done = 0
<1>1. stack \in Seq(Frame) /\ Len(stack) = 0
  OBVIOUS
<1>2. /\ stack' \in Seq(Frame) /\ stack' # <<>> /\ Len(stack') = Len(stack) + 1
      /\ DOMAIN stack' = 1 .. Len(stack) + 1
      /\ stack'[Len(stack) + 1].node = n /\ stack'[Len(stack) + 1].done = 0
  BY <1>1, Pushed
<1> QED BY <1>1, <1>2

LEMMA ZeroCallsNext ==
  ASSUME NEW i, NEW T
  PROVE  (IsHeap(heap) /\ i \in Position => Reached(T, i, 0, 0))'
<1>1. IsHeap(heap) /\ i \in Position => Reached(T, i, 0, 0)
  BY ZeroCalls
<1> QED BY <1>1, PTL

LEMMA FirstCallFrames ==
  ASSUME stack = <<>>, NEW n, stack' = Append(stack, NewFrame(n)), IsHeap(heap)', n \in Position',
         NEW V, NEW W
  PROVE  Frames(V, W)' /\ stack' # <<>> /\ stack'[1].node = n
<1>1. n \in Nat \ {0}
  <2>1. Len(heap') \in Nat
    BY HeapLength
  <2> QED BY <2>1 DEF Position
<1>2. /\ stack' \in Seq(Frame) /\ stack' # <<>> /\ Len(stack') = 1 /\ DOMAIN stack' = {1}
      /\ stack'[1].node = n /\ stack'[1].done = 0
  BY <1>1, FirstFrame
<1>3. Reached(V, n, 0, 0)'
  BY ZeroCallsNext
<1>4. FrameOK(V, 1)'
  BY <1>2, <1>3 DEF FrameOK, Reached, Child, Calls, Kid, Operand
<1>5. Top'.done = 0
  BY <1>2 DEF Top
<1>6. NoneOvertakes'
  BY <1>2 DEF NoneOvertakes
<1> QED BY <1>2, <1>4, <1>5, <1>6 DEF Frames

LEMMA EmptyFrames ==
  ASSUME stack = <<>>, stack' = stack, NEW V, NEW W
  PROVE  Frames(V, W)'
<1>1. stack' \in Seq(Frame) /\ stack' = <<>> /\ DOMAIN stack' = {}
  OBVIOUS
<1> QED BY <1>1 DEF Frames, NoneOvertakes

LEMMA LineControl ==
  ASSUME ControlOK, StatementsOK, Reading, UNCHANGED <<phase, pc, ok, warning_count, garbage>>,
         error_count' \in Nat, Len(ast) \in Nat, Len(ast') = Len(ast) + 1, ast' # <<>>,
         NEW st, ast'[Len(ast')] = st, NoCall(st) \/ FirstCall(st)
  PROVE  ControlOK'
<1>1. /\ phase = "parse" /\ pending = "none" /\ pc = 1 /\ ok \in BOOLEAN
      /\ warning_count \in Nat /\ garbage \in Word /\ stack = <<>>
  BY DEF Reading, ControlOK
<1>2. pc' \in 1 .. Len(ast') + 1
  BY <1>1
<1>3. CASE NoCall(st)
  BY <1>1, <1>2, <1>3 DEF NoCall, ControlOK
<1>4. CASE FirstCall(st)
  <2>1. pending' \in {"label", "space"} /\ st.op = pending' /\ st.root # 0
    BY <1>4 DEF FirstCall
  <2>2. Waiting' = st
    BY <2>1 DEF Waiting
  <2> QED BY <1>1, <1>2, <2>1, <2>2 DEF ControlOK
<1> QED BY <1>3, <1>4

LEMMA LinePending ==
  ASSUME stack = <<>>, NEW st, NoCall(st) \/ FirstCall(st), GoodStatement(st)',
         ast'[Len(ast')] = st, NEW V, NEW W, IsHeap(heap)'
  PROVE  Frames(V, W)' /\ PendingOK(V, W)'
<1>1. CASE NoCall(st)
  <2>1. pending' = "none" /\ stack' = stack
    BY <1>1 DEF NoCall
  <2> QED BY <2>1, EmptyFrames DEF PendingOK
<1>2. CASE FirstCall(st)
  <2>1. /\ stack' = Append(stack, NewFrame(st.root)) /\ st.root # 0
        /\ pending' \in {"label", "space"} /\ st.op = pending'
        /\ pending' = "label" =>
             \A n \in AllNames : n = st.name => Lazy(n)' /\ symbols'[n].expr = st.root
    BY <1>2 DEF FirstCall
  <2>2. PICK n : n = st.root
    OBVIOUS
  <2>3. n \in Position'
    <3>1. st.root \in Nat
      <4>1. st \in StatementType
        BY DEF GoodStatement
      <4> QED BY <4>1, Zenon DEF StatementType
    <3>2. n <= Len(heap') /\ Len(heap') \in Nat
      BY <2>2, HeapLength DEF GoodStatement
    <3> QED BY <2>1, <2>2, <3>1, <3>2 DEF Position
  <2>4. Frames(V, W)' /\ stack' # <<>> /\ stack'[1].node = n
    BY <2>1, <2>2, <2>3, FirstCallFrames
  <2>5. Waiting' = st
    BY <2>1 DEF Waiting
  <2>6. ASSUME pending' = "label"
        PROVE  Lazy(Waiting.name)' /\ symbols'[st.name].expr = st.root
    <3>1. PICK m : m = st.name
      OBVIOUS
    <3>2. m \in AllNames
      BY <2>1, <2>6, <3>1 DEF GoodStatement
    <3>3. Lazy(m)' /\ symbols'[m].expr = st.root
      BY <2>1, <2>6, <3>1, <3>2
    <3> QED BY <2>5, <3>1, <3>3 DEF Lazy
  <2>7. Waiting'.op # "equ"
    BY <2>1, <2>5
  <2> QED BY <2>2, <2>4, <2>5, <2>6, <2>7 DEF PendingOK
<1> QED BY <1>1, <1>2

LEMMA LineSpaces ==
  ASSUME NEW T, NEW V, T \subseteq V, SpacesOK(T), Reading, phase' = phase,
         NodesKept(T), error_count' = 0 => error_count = 0,
         Len(ast) \in Nat, Len(ast') = Len(ast) + 1,
         NEW st, ast'[Len(ast')] = st, \A j \in 1 .. Len(ast) : ast'[j] = ast[j],
         NoCall(st) \/ FirstCall(st)
  PROVE  SpacesOK(V)'
<1>1. phase = "parse" /\ pending = "none" /\ phase' = "parse"
  BY DEF Reading
<1>2. SpaceFillsWhatItReserved'
  BY <1>1 DEF SpaceFillsWhatItReserved
<1>3. ASSUME error_count' = 0, NEW j \in 1 .. Len(ast'), ast'[j].op = "space",
             ~(pending' = "space" /\ j = Len(ast'))
      PROVE  ast'[j].root \in V /\ ast'[j].size = Low16(heap'[ast'[j].root].value)
  <2>1. CASE j = Len(ast')
    <3>1. st.op = "space"
      BY <1>3, <2>1
    <3> QED BY <1>3, <2>1, <3>1 DEF NoCall, FirstCall
  <2>2. CASE j # Len(ast')
    <3>1. j \in 1 .. Len(ast) /\ ast'[j] = ast[j]
      BY <2>2
    <3>2. ast[j].root \in T /\ ast[j].size = Low16(heap[ast[j].root].value)
      BY <1>1, <1>3, <3>1 DEF SpacesOK
    <3>3. heap'[ast[j].root] = heap[ast[j].root]
      BY <3>2 DEF NodesKept
    <3> QED BY <3>1, <3>2, <3>3 DEF Low16
  <2> QED BY <2>1, <2>2
<1> QED BY <1>1, <1>2, <1>3 DEF SpacesOK, Low16

\* What is common to all lines.
LEMMA LineKeeps ==
  ASSUME NEW T, NEW U, Typed, Consistent(T, U), Reading,
         UNCHANGED <<phase, pc, ok, warning_count, garbage>>,
         error_count' \in Nat, error_count' = 0 => error_count = 0,
         TableOK', IsHeap(heap)', NodesKept(Position), SymbolsOK', DefinitionsKept,
         LabelsMade, NEW st, GoodStatement(st)', ast' = Append(ast, st),
         NoCall(st) \/ FirstCall(st)
  PROVE  Typed' /\ \E V, W : Consistent(V, W)'
<1>1. /\ Marks(T, U) /\ SpacesOK(T) /\ IsHeap(heap) /\ SymbolsOK /\ StatementsOK /\ ControlOK
  BY DEF Consistent, Typed
<1>2. Len(heap) \in Nat /\ Len(heap') \in Nat /\ Len(heap) <= Len(heap')
  <2>1. Len(heap) \in Nat /\ Len(heap') \in Nat
    BY <1>1, HeapLength
  <2>2. 1 .. Len(heap) \subseteq 1 .. Len(heap')
    BY DEF NodesKept, Position
  <2> QED BY <2>1, <2>2
<1>3. /\ StatementsOK' /\ Len(ast) \in Nat /\ Len(ast') = Len(ast) + 1 /\ ast' # <<>>
      /\ ast'[Len(ast')] = st /\ \A j \in 1 .. Len(ast) : ast'[j] = ast[j]
  BY <1>1, <1>2, LineStatements
<1>4. ControlOK'
  BY <1>1, <1>3, LineControl
<1>5. Typed'
  BY <1>3, <1>4 DEF Typed, TableOK
<1>6. PICK V, W : T \subseteq V /\ Marks(V, W)'
  <2>1. PICK F : /\ F \subseteq Position' /\ F \cap Position = {}
                 /\ \A i \in F : IsLabelNode(i)'
                 /\ ResolvedByLabels(F)
    BY DEF LabelsMade
  <2> QED BY <1>1, <2>1, LineMarks
<1>7. stack = <<>>
  BY <1>1 DEF Reading, ControlOK
<1>8. Frames(V, W)' /\ PendingOK(V, W)'
  BY <1>3, <1>7, LinePending
<1>9. NodesKept(T)
  BY <1>1 DEF NodesKept, Marks
<1>10. SpacesOK(V)'
  BY <1>1, <1>3, <1>6, <1>9, LineSpaces
<1> QED BY <1>5, <1>6, <1>8, <1>10 DEF Consistent

-----------------------------------------------------------------------------
\* The nodes and the symbols of an expression.

LEMMA ExpressionNodes ==
  ASSUME NEW expr, IsExpression(expr)
  PROVE  /\ Len(expr) \in Nat \ {0} /\ DOMAIN expr = 1 .. Len(expr)
         /\ \A k \in 1 .. Len(expr) :
              /\ expr[k].op \in Operators /\ expr[k].kids \in Seq(Nat)
              /\ expr[k].name \in STRING /\ expr[k].value \in Int
              /\ Len(expr[k].kids) = Operands(expr[k].op)
              /\ \A j \in DOMAIN expr[k].kids : expr[k].kids[j] \in 1 .. k - 1
<1>1. expr \in Seq(ExpressionNode) /\ expr # <<>>
  BY Zenon DEF IsExpression
<1>2. Len(expr) \in Nat \ {0} /\ DOMAIN expr = 1 .. Len(expr)
  BY <1>1
<1>3. \A k \in 1 .. Len(expr) : expr[k] \in ExpressionNode
  BY <1>1
<1>4. \A k \in 1 .. Len(expr) :
        /\ expr[k].op \in Operators /\ expr[k].kids \in Seq(Nat)
        /\ expr[k].name \in STRING /\ expr[k].value \in Int
  BY <1>3, Zenon DEF ExpressionNode
<1>5. \A k \in DOMAIN expr :
        /\ Len(expr[k].kids) = Operands(expr[k].op)
        /\ \A j \in DOMAIN expr[k].kids : expr[k].kids[j] \in 1 .. k - 1
  BY Zenon DEF IsExpression
<1> QED BY <1>2, <1>4, <1>5

LEMMA NoSuchName ==
  /\ "" \notin AllNames /\ "." \notin AllNames /\ "" # "."
  /\ \A n \in SymbolNames : n \in AllNames /\ \A k \in 1 .. MaxLines : n # LineNames[k]
<1>1. /\ "" \notin SymbolNames /\ "." \notin SymbolNames
  BY SymbolNamesAssumption, Zenon
<1>2. \A k \in 1 .. MaxLines : LineNames[k] \notin SymbolNames /\ LineNames[k] # "" /\ LineNames[k] # "."
  BY LineNameTypes, Zenon
<1>3. \A n \in AllNames : n \in SymbolNames \/ \E k \in 1 .. MaxLines : n = LineNames[k]
  BY Zenon DEF AllNames
<1>4. "" # "."
  OBVIOUS
<1>5. \A n \in SymbolNames : n \in AllNames
  BY Zenon DEF AllNames
<1> QED BY <1>1, <1>2, <1>3, <1>4, <1>5, Zenon

\* Only identifiers have a name.
LEMMA ExpressionNames ==
  ASSUME NEW expr, IsExpression(expr), NEW k \in 1 .. Len(expr)
  PROVE  /\ expr[k].op = "identifier" =>
              \/ expr[k].name \in SymbolNames /\ expr[k].name # "."
              \/ expr[k].name = "."
         /\ expr[k].op # "identifier" => expr[k].name = ""
         /\ expr[k].name \in AllNames \cup {"."} => expr[k].op = "identifier"
         /\ expr[k].name \in AllNames => expr[k].name \in SymbolNames
<1>1. k \in DOMAIN expr
  BY ExpressionNodes
<1>2. /\ expr[k].op = "identifier" => expr[k].name \in SymbolNames \cup {"."}
      /\ expr[k].op # "identifier" => expr[k].name = ""
  BY <1>1, Zenon DEF IsExpression
<1> QED BY <1>2, NoSuchName, Zenon

LEMMA MovedKids ==
  ASSUME NEW kids \in Seq(Nat), NEW h \in Nat, NEW k \in Nat,
         \A j \in DOMAIN kids : kids[j] \in 1 .. k - 1
  PROVE  LET moved == [j \in DOMAIN kids |-> h + kids[j]]
         IN  /\ moved \in Seq(Nat) /\ Len(moved) = Len(kids)
             /\ \A j \in 1 .. Len(kids) : moved[j] \in 1 .. h + k - 1
<1> DEFINE moved == [j \in DOMAIN kids |-> h + kids[j]]
<1>1. DOMAIN kids = 1 .. Len(kids) /\ Len(kids) \in Nat
  OBVIOUS
<1>2. ASSUME NEW j \in 1 .. Len(kids)
      PROVE  moved[j] \in Nat /\ moved[j] \in 1 .. h + k - 1
  <2>1. kids[j] \in 1 .. k - 1 /\ moved[j] = h + kids[j]
    BY <1>1
  <2> HIDE DEF moved
  <2> QED BY <2>1
<1>3. moved = [j \in 1 .. Len(kids) |-> moved[j]]
  BY <1>1
<1> HIDE DEF moved
<1>4. moved \in Seq(Nat) /\ Len(moved) = Len(kids)
  BY <1>1, <1>2, <1>3
<1> QED BY <1>2, <1>4 DEF moved

LEMMA NodeOf ==
  ASSUME NEW op \in Operators, NEW kids \in Seq(Nat), NEW name \in AllNames \cup {""},
         NEW type \in HeapTypes, NEW value \in Int, NEW symbol \in AllNames \cup {""}
  PROVE  [op |-> op, kids |-> kids, name |-> name, type |-> type, value |-> value,
          symbol |-> symbol] \in Node
BY Zenon DEF Node

LEMMA AllocatedNode ==
  ASSUME NEW expr, IsExpression(expr), NEW k \in 1 .. Len(expr), Len(heap) \in Nat,
         garbage \in Word, HereName \in AllNames
  PROVE  /\ IsNode(Allocate(expr)[k], Len(heap) + k)
         /\ Allocate(expr)[k].op = expr[k].op
         /\ Allocate(expr)[k].name = IF expr[k].name = "." THEN HereName ELSE expr[k].name
<1> DEFINE node == Allocate(expr)[k]
           moved == [j \in DOMAIN expr[k].kids |-> Len(heap) + expr[k].kids[j]]
           name == IF expr[k].name = "." THEN HereName ELSE expr[k].name
           type == IF expr[k].op = "value" THEN "ABSOLUTE" ELSE "unset"
           value == IF expr[k].op = "value" THEN expr[k].value ELSE garbage
<1>1. /\ k \in DOMAIN expr /\ expr[k].op \in Operators /\ expr[k].kids \in Seq(Nat)
      /\ expr[k].name \in STRING /\ expr[k].value \in Int
      /\ Len(expr[k].kids) = Operands(expr[k].op)
      /\ \A j \in DOMAIN expr[k].kids : expr[k].kids[j] \in 1 .. k - 1
  BY ExpressionNodes
<1>2. k \in Nat /\ garbage \in Int
  <2>1. Len(expr) \in Nat
    BY ExpressionNodes
  <2> HIDE DEF node, moved, name, type, value
  <2> QED BY <2>1, WordIsNumber
<1>3. /\ moved \in Seq(Nat) /\ Len(moved) = Operands(expr[k].op)
      /\ \A j \in 1 .. Operands(expr[k].op) : moved[j] \in 1 .. Len(heap) + k - 1
  BY <1>1, <1>2, MovedKids
<1>4. name \in AllNames \cup {""} /\ type \in HeapTypes /\ value \in Int
  <2>1. type \in HeapTypes /\ value \in Int
    BY <1>1, <1>2 DEF HeapTypes
  <2>2. \/ expr[k].name \in SymbolNames
        \/ expr[k].name = "."
        \/ expr[k].name = ""
    BY ExpressionNames, Zenon
  <2>3. name \in AllNames \cup {""}
    BY <2>2, NoSuchName, Zenon
  <2> QED BY <2>1, <2>3, Zenon
<1>5. node = [op |-> expr[k].op, kids |-> moved, name |-> name, type |-> type,
              value |-> value, symbol |-> ""]
  BY <1>1, Zenon DEF Allocate
<1>6. "" \in AllNames \cup {""}
  OBVIOUS
<1> HIDE DEF node, moved, name, type, value
<1>7. node \in Node
  BY <1>1, <1>3, <1>4, <1>5, <1>6, NodeOf, Zenon
<1>8. node.op = expr[k].op /\ node.kids = moved /\ node.name = name
  BY <1>5, Zenon
<1>9. node.op = "identifier" => node.name \in AllNames
  <2>1. SUFFICES ASSUME node.op = "identifier"
                 PROVE  name \in AllNames
    BY <1>8
  <2>2. (expr[k].name \in SymbolNames /\ expr[k].name # ".") \/ expr[k].name = "."
    BY <1>8, <2>1, ExpressionNames
  <2> QED BY <2>2, NoSuchName, Zenon DEF name
<1>10. IsNode(node, Len(heap) + k)
  <2>1. PICK i : i = Len(heap) + k
    OBVIOUS
  <2>2. \A j \in 1 .. Operands(expr[k].op) : moved[j] \in 1 .. i - 1
    BY <1>3, <2>1
  <2>3. IsNode(node, i)
    BY <1>3, <1>7, <1>8, <1>9, <2>2 DEF IsNode
  <2> QED BY <2>1, <2>3
<1> QED BY <1>8, <1>10 DEF node, name

LEMMA ValueNodeType ==
  ASSUME NEW v \in Int, NEW i
  PROVE  /\ ValueNode(v) \in Node /\ IsNode(ValueNode(v), i)
         /\ ValueNode(v).op = "value" /\ ValueNode(v).type = "ABSOLUTE"
         /\ ValueNode(v).symbol = ""
<1>1. <<>> \in Seq(Nat) /\ Len(<<>>) = 0
  OBVIOUS
<1>2. "value" \in Operators /\ Operands("value") = 0 /\ "ABSOLUTE" \in HeapTypes
  <2>1. "value" \in Operators /\ "value" \in Leaf /\ "ABSOLUTE" \in HeapTypes
    BY DEF Operators, HeapTypes, Leaf
  <2> QED BY <2>1, OperandCounts, Zenon
<1>3. "" \in AllNames \cup {""}
  BY Zenon
<1>4. ValueNode(v) = [op |-> "value", kids |-> <<>>, name |-> "", type |-> "ABSOLUTE",
                      value |-> v, symbol |-> ""]
  BY Zenon DEF ValueNode
<1>5. ValueNode(v) \in Node
  BY <1>1, <1>2, <1>3, <1>4, NodeOf, Zenon
<1>6. /\ ValueNode(v).op = "value" /\ ValueNode(v).type = "ABSOLUTE"
      /\ ValueNode(v).symbol = "" /\ ValueNode(v).kids = <<>>
  <2>1. PICK n : n = ValueNode(v)
    OBVIOUS
  <2>2. n = [op |-> "value", kids |-> <<>>, name |-> "", type |-> "ABSOLUTE",
             value |-> v, symbol |-> ""]
    BY <1>4, <2>1, Zenon
  <2>3. n.op = "value" /\ n.type = "ABSOLUTE" /\ n.symbol = "" /\ n.kids = <<>>
    BY <2>2, Zenon
  <2> QED BY <2>1, <2>3, Zenon
<1>7. \A k \in 1 .. 0 : FALSE
  OBVIOUS
<1>8. IsNode(ValueNode(v), i)
  <2>1. PICK n : n = ValueNode(v)
    OBVIOUS
  <2>2. n \in Node /\ n.op = "value" /\ n.kids = <<>>
    BY <1>5, <1>6, <2>1, Zenon
  <2>3. Len(n.kids) = Operands(n.op) /\ Operands(n.op) = 0
    BY <1>1, <1>2, <2>2, Zenon
  <2>4. "value" # "identifier"
    OBVIOUS
  <2>5. \A k \in 1 .. Operands(n.op) : n.kids[k] \in 1 .. i - 1
    BY <1>7, <2>3
  <2>6. IsNode(n, i)
    BY <2>2, <2>3, <2>4, <2>5, Zenon DEF IsNode
  <2> QED BY <2>1, <2>6, Zenon
<1> QED BY <1>5, <1>6, <1>8, Zenon

LEMMA HereNameTypes ==
  ASSUME Len(ast) \in Nat, Len(ast) < MaxLines
  PROVE  HereName \in AllNames /\ HereName \notin SymbolNames
         /\ HereName # "."
<1>1. MaxLines \in Nat /\ LineNames \in Seq(STRING) /\ Len(LineNames) >= MaxLines
  BY LineNamesAssumption DEF AreLineNames
<1>2. Len(ast) + 1 \in 1 .. MaxLines
  BY <1>1
<1>3. /\ LineNames[Len(ast) + 1] \in AllNames /\ LineNames[Len(ast) + 1] \notin SymbolNames
      /\ LineNames[Len(ast) + 1] # "."
  BY <1>2, LineNameTypes, Zenon
<1> QED BY <1>3 DEF HereName

LEMMA Joined ==
  ASSUME NEW X, NEW a \in Seq(X), NEW e \in X
  PROVE  /\ a \o <<e>> \in Seq(X) /\ Len(a \o <<e>>) = Len(a) + 1
         /\ (a \o <<e>>)[Len(a) + 1] = e
         /\ \A k \in 1 .. Len(a) : (a \o <<e>>)[k] = a[k]
         /\ a \o <<>> = a
OBVIOUS

LEMMA NodesOfType ==
  ASSUME NEW expr, IsExpression(expr), Len(heap) \in Nat, garbage \in Word,
         HereName \in AllNames, CurrentSize \in Nat,
         NEW new, new = NodesOf(expr)
  PROVE  /\ new \in Seq(Node) /\ \A k \in 1 .. Len(new) : IsNode(new[k], Len(heap) + k)
         /\ Len(new) = IF Mentions(expr, ".") THEN Len(expr) + 1 ELSE Len(expr)
         /\ \A k \in 1 .. Len(expr) : new[k] = Allocate(expr)[k]
         /\ Mentions(expr, ".") => new[Len(expr) + 1] = ValueNode(CurrentSize)
<1> DEFINE a == Allocate(expr)
           e == ValueNode(CurrentSize)
<1>1. Len(expr) \in Nat /\ DOMAIN expr = 1 .. Len(expr)
  BY ExpressionNodes
<1>2. \A k \in 1 .. Len(expr) : IsNode(a[k], Len(heap) + k)
  BY AllocatedNode
<1>3. e \in Node /\ \A i : IsNode(e, i)
  <2>1. CurrentSize \in Int
    OBVIOUS
  <2> QED BY <2>1, ValueNodeType, Zenon
<1>4. a = [k \in 1 .. Len(expr) |-> a[k]]
  BY <1>1, Zenon DEF Allocate
<1>5. new = a \o (IF Mentions(expr, ".") THEN <<e>> ELSE <<>>)
  BY DEF NodesOf
<1> HIDE DEF a, e
<1>6. a \in Seq(Node) /\ Len(a) = Len(expr)
  <2>1. \A k \in 1 .. Len(expr) : a[k] \in Node
    BY <1>2 DEF IsNode
  <2> QED BY <1>1, <1>4, <2>1
<1>7. CASE Mentions(expr, ".")
  <2>1. new = a \o <<e>>
    BY <1>5, <1>7
  <2>2. /\ new \in Seq(Node) /\ Len(new) = Len(expr) + 1 /\ new[Len(expr) + 1] = e
        /\ \A k \in 1 .. Len(expr) : new[k] = a[k]
    <3>0. a \in Seq(Node) /\ e \in Node
      BY <1>3, <1>6, Zenon
    <3>1. /\ a \o <<e>> \in Seq(Node) /\ Len(a \o <<e>>) = Len(a) + 1
          /\ (a \o <<e>>)[Len(a) + 1] = e
          /\ \A k \in 1 .. Len(a) : (a \o <<e>>)[k] = a[k]
      BY <3>0, Joined, ZenonT(90)
    <3> QED BY <1>6, <2>1, <3>1
  <2>3. \A k \in 1 .. Len(new) : k \in 1 .. Len(expr) \/ k = Len(expr) + 1
    BY <1>1, <2>2
  <2>4. \A k \in 1 .. Len(new) : IsNode(new[k], Len(heap) + k)
    BY <1>2, <1>3, <2>2, <2>3
  <2> QED BY <1>7, <2>2, <2>4 DEF a, e
<1>8. CASE ~Mentions(expr, ".")
  <2>1. new = a
    BY <1>3, <1>5, <1>6, <1>8, Joined
  <2> QED BY <1>2, <1>6, <1>8, <2>1 DEF a
<1> QED BY <1>7, <1>8

\* The names of new identifiers.
NamesNew(expr, name) ==
  \/ name = HereName /\ Mentions(expr, ".")
  \/ name \in SymbolNames /\ Mentions(expr, name)

LEMMA ExpressionHeap ==
  ASSUME IsHeap(heap), NEW expr, IsExpression(expr), garbage \in Word, HereName \in AllNames,
         CurrentSize \in Nat, heap' = heap \o NodesOf(expr),
         NEW r, r = Root(expr), NEW v, v = r + 1
  PROVE  /\ IsHeap(heap)' /\ NodesKept(Position) /\ Len(heap) \in Nat /\ Len(heap') \in Nat
         /\ Len(heap) <= Len(heap') /\ r \in Position' /\ r \in Nat \ {0} /\ r <= Len(heap')
         /\ Mentions(expr, ".") => v \in Position' /\ v \notin Position /\ IsLabelNode(v)'
         /\ \A i \in Position' : heap'[i].op = "identifier" =>
               i \in Position \/ NamesNew(expr, heap'[i].name)
<1> DEFINE h == Len(heap)
           m == Len(expr)
<1>1. PICK new : new = NodesOf(expr)
  OBVIOUS
<1>2. h \in Nat
  BY HeapLength
<1>3. /\ new \in Seq(Node) /\ \A k \in 1 .. Len(new) : IsNode(new[k], Len(heap) + k)
      /\ Len(new) = IF Mentions(expr, ".") THEN m + 1 ELSE m
      /\ \A k \in 1 .. m : new[k] = Allocate(expr)[k]
      /\ Mentions(expr, ".") => new[m + 1] = ValueNode(CurrentSize)
  BY <1>1, <1>2, NodesOfType
<1>4. /\ IsHeap(heap') /\ Len(heap') = h + Len(new)
      /\ \A i \in 1 .. h : heap'[i] = heap[i]
      /\ \A k \in 1 .. Len(new) : heap'[h + k] = new[k]
  BY <1>1, <1>3, HeapAppend, ZenonT(40)
<1>5. m \in Nat \ {0} /\ DOMAIN expr = 1 .. m
  BY ExpressionNodes
<1>6. r = h + m /\ v = h + (m + 1) /\ Len(new) \in {m, m + 1}
  <2>1. r = h + m
    BY DEF Root
  <2>2. Len(new) \in {m, m + 1}
    BY <1>3
  <2> QED BY <1>2, <1>5, <2>1, <2>2
<1> HIDE DEF h, m
<1>7. /\ h <= Len(heap') /\ Len(heap') \in Nat /\ r \in 1 .. Len(heap') /\ r \in Nat \ {0}
      /\ r <= Len(heap') /\ 1 .. h \subseteq 1 .. Len(heap')
  BY <1>2, <1>4, <1>5, <1>6
<1>8. NodesKept(Position)
  BY <1>4, <1>7 DEF NodesKept, Position, h
<1>9. ASSUME Mentions(expr, ".")
      PROVE  v \in Position' /\ v \notin Position /\ IsLabelNode(v)'
  <2>1. Len(new) = m + 1 /\ new[m + 1] = ValueNode(CurrentSize)
    BY <1>3, <1>9 DEF m
  <2>2. v \in 1 .. Len(heap') /\ v \notin 1 .. h /\ m + 1 \in 1 .. Len(new)
    BY <1>2, <1>4, <1>5, <1>6, <2>1
  <2>3. heap'[v] = ValueNode(CurrentSize)
    BY <1>4, <1>6, <2>1, <2>2
  <2>4. IsLabelNode(v)'
    <3>1. CurrentSize \in Int
      OBVIOUS
    <3>2. /\ ValueNode(CurrentSize).op = "value" /\ ValueNode(CurrentSize).type = "ABSOLUTE"
          /\ ValueNode(CurrentSize).symbol = ""
      BY <3>1, ValueNodeType, Zenon
    <3> QED BY <2>3, <3>2, Zenon DEF IsLabelNode
  <2> QED BY <2>2, <2>4 DEF Position, h
<1>10. ASSUME NEW i \in Position', heap'[i].op = "identifier", i \notin Position
       PROVE  NamesNew(expr, heap'[i].name)
  <2> DEFINE k == i - h
  <2>1. k \in 1 .. Len(new) /\ i = h + k
    BY <1>2, <1>4, <1>6, <1>10 DEF Position, h
  <2>2. heap'[i] = new[k]
    BY <1>4, <2>1
  <2> HIDE DEF k
  <2>3. k \in 1 .. m
    <3>1. CASE Len(new) = m + 1 /\ k = m + 1
      <4>1. Mentions(expr, ".")
        <5>1. SUFFICES ASSUME ~Mentions(expr, ".") PROVE FALSE
          OBVIOUS
        <5>2. Len(new) = m
          BY <1>3, <5>1
        <5>3. m # m + 1
          BY <1>5
        <5> QED BY <3>1, <5>2, <5>3
      <4>2. new[k].op = "value"
        <5>1. CurrentSize \in Int
          OBVIOUS
        <5>2. new[k] = ValueNode(CurrentSize)
          BY <1>3, <3>1, <4>1 DEF m
        <5> QED BY <5>1, <5>2, ValueNodeType, Zenon
      <4> QED BY <1>10, <2>2, <4>2
    <3> QED BY <1>5, <1>6, <2>1, <3>1
  <2>4. /\ heap'[i].op = expr[k].op
        /\ heap'[i].name = IF expr[k].name = "." THEN HereName ELSE expr[k].name
    <3>1. k \in 1 .. Len(expr) /\ Len(heap) \in Nat /\ heap'[i] = Allocate(expr)[k]
      BY <1>2, <1>3, <2>2, <2>3 DEF m, h
    <3>2. /\ Allocate(expr)[k].op = expr[k].op
          /\ Allocate(expr)[k].name = IF expr[k].name = "." THEN HereName ELSE expr[k].name
      BY <3>1, AllocatedNode, Zenon
    <3> QED BY <3>1, <3>2, Zenon
  <2>5. (expr[k].name \in SymbolNames /\ expr[k].name # ".") \/ expr[k].name = "."
    BY <1>10, <2>3, <2>4, ExpressionNames DEF m
  <2>6. Mentions(expr, expr[k].name)
    BY <1>5, <2>3 DEF Mentions
  <2> QED BY <2>4, <2>5, <2>6 DEF NamesNew
<1> QED BY <1>2, <1>4, <1>7, <1>8, <1>9, <1>10 DEF Position, h

LEMMA MentionedMoves ==
  ASSUME SymbolsOK, NEW expr, IsExpression(expr), HereName \in AllNames, HereName \notin SymbolNames,
         symbols[HereName] = Absent, NEW n \in AllNames, NEW e, e = WithMentions(expr)[n],
         NEW v, v = Root(expr) + 1
  PROVE  /\ \/ e = symbols[n]
            \/ /\ n = HereName /\ symbols[n] = Absent /\ Mentions(expr, ".")
               /\ e = [type |-> "LABEL", section |-> current_section, expr |-> v]
            \/ /\ n \in SymbolNames /\ symbols[n] = Absent
               /\ e = [type |-> "UNDEFINED", section |-> 1, expr |-> 0]
         /\ NamesNew(expr, n) => e.type # "absent"
<1>1. e = IF n = HereName /\ Mentions(expr, ".")
          THEN [type |-> "LABEL", section |-> current_section, expr |-> v]
          ELSE IF symbols[n] = Absent /\ Mentions(expr, n)
          THEN [type |-> "UNDEFINED", section |-> 1, expr |-> 0]
          ELSE symbols[n]
  BY DEF WithMentions
<1>2. Mentions(expr, n) => n \in SymbolNames
  <2>1. SUFFICES ASSUME NEW k \in DOMAIN expr, expr[k].name = n
                 PROVE  n \in SymbolNames
    BY DEF Mentions
  <2>2. k \in 1 .. Len(expr)
    BY ExpressionNodes
  <2> QED BY <2>1, <2>2, ExpressionNames, Zenon
<1>3. symbols[n].type = "absent" => symbols[n] = Absent
  BY DEF SymbolsOK
<1>4. NamesNew(expr, n) => e.type # "absent"
  BY <1>1, <1>3 DEF NamesNew
<1> QED BY <1>1, <1>2, <1>4

\* What a line with an expression does to its symbols.
ExpressionMoves(expr, r, n) ==
  \/ symbols'[n] = WithMentions(expr)[n]
  \/ /\ n \in SymbolNames /\ Free(WithMentions(expr)[n])
     /\ symbols'[n] = [type |-> "UNDEFINED", section |-> current_section, expr |-> r]

LEMMA ReadingTypes ==
  ASSUME Typed, Reading
  PROVE  /\ Len(ast) \in Nat /\ Len(ast) < MaxLines /\ Len(ast) + 1 \in 1 .. MaxLines
         /\ HereName \in AllNames /\ HereName \notin SymbolNames /\ symbols[HereName] = Absent
         /\ garbage \in Word /\ CurrentSize \in Nat /\ TableOK /\ Len(heap) \in Nat
         /\ IsHeap(heap) /\ SymbolsOK /\ Len(table) \in Nat /\ current_section \in 1 .. Len(table)
         /\ error_count \in Nat
<1>1. IsHeap(heap) /\ SymbolsOK /\ TableOK /\ StatementsOK /\ ControlOK
  BY DEF Typed, TableOK
<1>2. garbage \in Word /\ error_count \in Nat
  BY <1>1 DEF ControlOK
<1>3. CurrentSize \in Nat /\ Len(table) \in Nat /\ current_section \in 1 .. Len(table)
  BY <1>1, TableTypes
<1>4. Len(ast) \in Nat
  BY <1>1, LengthIsNat, Zenon DEF StatementsOK
<1>5. Len(ast) < MaxLines /\ MaxLines \in Nat
  BY LineNameTypes DEF Reading
<1>6. HereName \in AllNames /\ HereName \notin SymbolNames
  BY <1>4, <1>5, HereNameTypes
<1>7. Len(ast) + 1 \in 1 .. MaxLines /\ Len(ast) + 1 \in Len(ast) + 1 .. MaxLines
  BY <1>4, <1>5
<1>8. symbols[HereName] = Absent
  BY <1>1, <1>7 DEF SymbolsOK, HereName
<1>9. Len(heap) \in Nat
  BY <1>1, HeapLength
<1> QED BY <1>1, <1>2, <1>3, <1>4, <1>5, <1>6, <1>7, <1>8, <1>9

LEMMA ExpressionLine ==
  ASSUME Typed, Reading, NEW expr, IsExpression(expr), heap' = heap \o NodesOf(expr),
         Len(ast') = Len(ast) + 1, TableOK', Len(table) <= Len(table'),
         NEW r, r = Root(expr), NEW s, symbols' = s, s = [n \in AllNames |-> s[n]],
         \A n \in AllNames : ExpressionMoves(expr, r, n)
  PROVE  /\ IsHeap(heap)' /\ NodesKept(Position) /\ SymbolsOK' /\ DefinitionsKept
         /\ LabelsMade /\ r \in Nat \ {0} /\ r <= Len(heap')
<1> DEFINE v == r + 1
           F == IF Mentions(expr, ".") THEN {v} ELSE {}
           m == Len(ast')
<1>1. /\ Len(ast) \in Nat /\ HereName \in AllNames /\ HereName \notin SymbolNames
      /\ Len(ast) + 1 \in 1 .. MaxLines /\ symbols[HereName] = Absent
      /\ garbage \in Word /\ CurrentSize \in Nat
      /\ IsHeap(heap) /\ SymbolsOK /\ Len(table) \in Nat /\ current_section \in 1 .. Len(table)
  BY ReadingTypes
<1>2. /\ IsHeap(heap)' /\ NodesKept(Position) /\ Len(heap) \in Nat /\ Len(heap') \in Nat
      /\ Len(heap) <= Len(heap') /\ r \in Position' /\ r \in Nat \ {0} /\ r <= Len(heap')
      /\ Mentions(expr, ".") => v \in Position' /\ v \notin Position /\ IsLabelNode(v)'
      /\ \A i \in Position' : heap'[i].op = "identifier" =>
            i \in Position \/ NamesNew(expr, heap'[i].name)
  BY <1>1, ExpressionHeap
<1>3. Len(table') \in Nat
  <2>1. table' \in Seq(S!Section)'
    BY DEF TableOK, S!TypeOK
  <2> QED BY <2>1, LengthIsNat
<1>4. F \subseteq Position' /\ F \cap Position = {} /\ \A i \in F : IsLabelNode(i)'
  BY <1>2
<1>5. r \in 0 .. Len(heap')
  BY <1>2
<1>6. ASSUME NEW n \in AllNames
      PROVE  /\ \/ WithMentions(expr)[n] = symbols[n]
                \/ /\ n = HereName /\ symbols[n] = Absent /\ Mentions(expr, ".")
                   /\ WithMentions(expr)[n] =
                        [type |-> "LABEL", section |-> current_section, expr |-> v]
                \/ /\ n \in SymbolNames /\ symbols[n] = Absent
                   /\ WithMentions(expr)[n] = [type |-> "UNDEFINED", section |-> 1, expr |-> 0]
             /\ NamesNew(expr, n) => WithMentions(expr)[n].type # "absent"
  BY <1>1, MentionedMoves
<1>7. Absent.expr = 0
  BY DEF Absent
<1>8. Mentions(expr, ".") => v \in F
  OBVIOUS
<1> HIDE DEF v, F
<1>9. \A n \in AllNames : LineMoves(n, F, r)
  <2>1. ASSUME NEW n \in AllNames, symbols'[n] = WithMentions(expr)[n]
        PROVE  LineMoves(n, F, r)
    BY <1>6, <1>7, <1>8, <2>1 DEF LineMoves
  <2>2. ASSUME NEW n \in AllNames, n \in SymbolNames, Free(WithMentions(expr)[n]),
               symbols'[n] = [type |-> "UNDEFINED", section |-> current_section, expr |-> r]
        PROVE  LineMoves(n, F, r)
    <3>1. symbols[n].expr = 0
      BY <1>1, <1>6, <1>7, <2>2 DEF Free
    <3> QED BY <2>2, <3>1 DEF LineMoves
  <2> QED BY <2>1, <2>2 DEF ExpressionMoves
<1>10. \A i \in Position' : heap'[i].op = "identifier" =>
          i \in Position \/ symbols'[heap'[i].name].type # "absent"
  <2>1. ASSUME NEW n \in AllNames, NamesNew(expr, n)
        PROVE  symbols'[n].type # "absent"
    BY <1>6, <2>1 DEF ExpressionMoves
  <2>2. ASSUME NEW n, NamesNew(expr, n)
        PROVE  n \in AllNames
    BY <1>1, <2>2, NoSuchName, Zenon DEF NamesNew
  <2> QED BY <1>2, <2>1, <2>2
<1>11. \A k \in m + 1 .. MaxLines : symbols'[LineNames[k]] = Absent
  <2>1. ASSUME NEW k \in m + 1 .. MaxLines
        PROVE  symbols'[LineNames[k]] = Absent
    <3>0. MaxLines \in Nat
      BY LineNameTypes
    <3>1. k \in 1 .. MaxLines /\ k \in Len(ast) + 1 .. MaxLines /\ k # Len(ast) + 1
      BY <1>1, <3>0
    <3>2. LineNames[k] \in AllNames /\ LineNames[k] \notin SymbolNames /\ LineNames[k] # HereName
      BY <1>1, <3>1, LineNameTypes, Zenon DEF HereName
    <3>3. symbols[LineNames[k]] = Absent
      BY <1>1, <3>1 DEF SymbolsOK
    <3>4. WithMentions(expr)[LineNames[k]] = symbols[LineNames[k]]
      BY <1>6, <3>2
    <3> QED BY <3>2, <3>3, <3>4 DEF ExpressionMoves
  <2> QED BY <2>1
<1> HIDE DEF m
<1>12. SymbolsOK' /\ DefinitionsKept /\ ResolvedByLabels(F)
  <2>1. symbols' = [n \in AllNames |-> s[n]]
    OBVIOUS
  <2>2. m = Len(ast')
    BY DEF m
  <2> QED BY <1>1, <1>2, <1>3, <1>4, <1>5, <1>9, <1>10, <1>11, <2>1, <2>2, SymbolsAfterLine
<1>13. LabelsMade
  BY <1>4, <1>12 DEF LabelsMade
<1> QED BY <1>2, <1>12, <1>13

-----------------------------------------------------------------------------
\* The lines, one by one.

LEMMA LineTypes ==
  ASSUME NEW line \in Lines
  PROVE  /\ line.op \in LineOps
         /\ line.name \in StatementNames
         /\ line.op = "section" => line.name \in Names
         /\ line.op \in {"label", "equ"} => line.name \in SymbolNames /\ line.name \in AllNames
         /\ line.op \in Evaluating => IsExpression(line.expr)
<1>1. IsLine(line)
  BY LinesAssumption
<1>2. \/ line.op = "section" /\ line.name \in Names
      \/ line.op = "label" /\ line.name \in SymbolNames
      \/ line.op = "equ" /\ line.name \in SymbolNames /\ IsExpression(line.expr)
      \/ line.op \in {"data", "space", "align"} /\ line.name = "" /\ IsExpression(line.expr)
  BY <1>1, Zenon DEF IsLine
<1>3. line.op \in LineOps
  BY <1>2, Zenon DEF Evaluating, LineOps
<1>4. line.name \in StatementNames
  BY <1>2, Zenon DEF StatementNames
<1>5. /\ line.op = "section" => line.name \in Names
      /\ line.op \in {"label", "equ"} => line.name \in SymbolNames
      /\ line.op \in Evaluating => IsExpression(line.expr)
  <2>1. PICK op, expr, data : op = line.op /\ expr = IsExpression(line.expr)
                              /\ data = (line.op \in {"data", "space", "align"})
    OBVIOUS
  <2> QED BY <1>2 DEF Evaluating
<1> QED BY <1>3, <1>4, <1>5, NoSuchName, Zenon

LEMMA NotVisitedType ==
  NotVisited \in [ok : BOOLEAN, type : HeapTypes, value : Int, symbol : AllNames \cup {""}]
<1>1. "unset" \in HeapTypes /\ 0 \in Int
  BY DEF HeapTypes
<1>2. "" \in AllNames \cup {""} /\ FALSE \in BOOLEAN
  BY Zenon
<1> QED BY <1>1, <1>2, Zenon DEF NotVisited

LEMMA StatementRecord ==
  ASSUME NEW op \in LineOps,
         NEW name \in StatementNames, NEW root \in Nat, NEW section \in Nat,
         NEW offset \in Nat, NEW size \in Nat, NEW live \in BOOLEAN,
         NEW result \in [ok : BOOLEAN, type : HeapTypes, value : Int, symbol : AllNames \cup {""}]
  PROVE  [op |-> op, name |-> name, root |-> root, section |-> section, offset |-> offset,
          size |-> size, live |-> live, result |-> result] \in StatementType
BY Zenon DEF StatementType

LEMMA StatementTypes ==
  ASSUME NEW line, line.op \in LineOps,
         line.name \in StatementNames, NEW root \in Nat, NEW size \in Nat,
         NEW live \in BOOLEAN, current_section \in Nat, CurrentSize \in Nat
  PROVE  /\ Statement(line, root, size, live) \in StatementType
         /\ Statement(line, root, size, live).op = line.op
         /\ Statement(line, root, size, live).name = line.name
         /\ Statement(line, root, size, live).root = root
         /\ Statement(line, root, size, live).size = size
         /\ Statement(line, root, size, live).live = live
<1>1. Statement(line, root, size, live) \in StatementType
  BY StatementRecord, NotVisitedType, Zenon DEF Statement
<1>2. /\ Statement(line, root, size, live).op = line.op
      /\ Statement(line, root, size, live).name = line.name
      /\ Statement(line, root, size, live).root = root
      /\ Statement(line, root, size, live).size = size
      /\ Statement(line, root, size, live).live = live
  BY Zenon DEF Statement
<1> QED BY <1>1, <1>2, Zenon

LEMMA SameMachineLine ==
  ASSUME Typed, Reading, heap' = heap, symbols' = symbols,
         Len(ast') = Len(ast) + 1, TableOK', Len(table) <= Len(table')
  PROVE  IsHeap(heap)' /\ NodesKept(Position) /\ SymbolsOK' /\ DefinitionsKept /\ LabelsMade
<1>1. /\ Len(ast) \in Nat /\ IsHeap(heap) /\ SymbolsOK /\ Len(table) \in Nat /\ Len(heap) \in Nat
      /\ current_section \in 1 .. Len(table)
  BY ReadingTypes
<1>2. Len(table') \in Nat
  <2>1. table' \in Seq(S!Section)'
    BY DEF TableOK, S!TypeOK
  <2> QED BY <2>1, LengthIsNat
<1>3. IsHeap(heap)' /\ NodesKept(Position)
  BY <1>1 DEF NodesKept, Position
<1>4. \A n \in AllNames : LineMoves(n, {}, 0)
  BY DEF LineMoves
<1>5. PICK m : m = Len(ast')
  OBVIOUS
<1>6. \A k \in m + 1 .. MaxLines : symbols'[LineNames[k]] = Absent
  <2>1. MaxLines \in Nat
    BY LineNameTypes
  <2>2. \A k \in m + 1 .. MaxLines : k \in Len(ast) + 1 .. MaxLines
    BY <1>1, <1>5, <2>1
  <2> QED BY <1>1, <2>2 DEF SymbolsOK
<1>7. PICK s : s = symbols
  OBVIOUS
<1>8. symbols' = [n \in AllNames |-> s[n]]
  BY <1>1, <1>7 DEF SymbolsOK
<1>9. Len(heap) <= Len(heap') /\ 0 \in 0 .. Len(heap') /\ Len(heap') \in Nat
      /\ {} \subseteq Position'
  BY <1>1
<1>10. \A i \in Position' : heap'[i].op = "identifier" =>
          i \in Position \/ symbols'[heap'[i].name].type # "absent"
  BY DEF Position
<1>11. SymbolsOK' /\ DefinitionsKept /\ ResolvedByLabels({})
  BY <1>1, <1>2, <1>3, <1>4, <1>5, <1>6, <1>8, <1>9, <1>10, SymbolsAfterLine
<1>12. LabelsMade
  <2>1. {} \cap Position = {} /\ \A i \in {} : IsLabelNode(i)'
    OBVIOUS
  <2> QED BY <1>9, <1>11, <2>1 DEF LabelsMade
<1> QED BY <1>3, <1>11, <1>12

\* The statement a line becomes.
LEMMA LineStatement ==
  ASSUME NEW line \in Lines, NEW root \in Nat, NEW size \in Nat, NEW live \in BOOLEAN,
         current_section \in Nat, CurrentSize \in Nat
  PROVE  \A st : st = Statement(line, root, size, live) =>
           /\ st \in StatementType /\ st.op = line.op /\ st.name = line.name /\ st.root = root
           /\ st.size = size /\ st.live = live
<1>1. /\ line.op \in LineOps
      /\ line.name \in StatementNames
  BY LineTypes, Zenon
<1>2. /\ Statement(line, root, size, live) \in StatementType
      /\ Statement(line, root, size, live).op = line.op
      /\ Statement(line, root, size, live).name = line.name
      /\ Statement(line, root, size, live).root = root
      /\ Statement(line, root, size, live).size = size
      /\ Statement(line, root, size, live).live = live
  BY <1>1, StatementTypes
<1> QED BY <1>2

LEMMA SectionLineKeeps ==
  ASSUME NEW T, NEW U, Typed, Consistent(T, U), NEW line \in Lines, SectionLine(line)
  PROVE  Typed' /\ \E V, W : Consistent(V, W)'
<1>1. PICK zero, live, st : zero = 0 /\ live = TRUE /\ st = Statement(line, zero, zero, live)
  OBVIOUS
<1>2. /\ Reading /\ line.op = "section" /\ S!SetSection(line.name) /\ ast' = Append(ast, st)
      /\ UNCHANGED <<heap, symbols, stack, ok, phase, pc, pending, error_count, warning_count,
                     garbage>>
  BY <1>1 DEF SectionLine, machine, reports
<1>3. /\ TableOK /\ current_section \in Nat /\ CurrentSize \in Nat /\ error_count \in Nat
      /\ Len(ast) \in Nat
  BY <1>2, ReadingTypes
<1>4. TableOK' /\ Len(table) <= Len(table')
  <2>1. line.name \in Names
    BY <1>2, LineTypes
  <2> QED BY <1>2, <1>3, <2>1, SetSectionTable
<1>5. st \in StatementType /\ st.op = "section" /\ st.root = 0
  <2>1. zero \in Nat /\ live \in BOOLEAN
    BY <1>1
  <2>2. \A s : s = Statement(line, zero, zero, live) =>
           s \in StatementType /\ s.op = line.op /\ s.name = line.name /\ s.root = zero
    BY <1>3, <2>1, LineStatement
  <2> QED BY <1>1, <1>2, <2>2
<1>6. Len(ast') = Len(ast) + 1
  BY <1>2, <1>5, OneMore DEF Typed, StatementsOK
<1>7. IsHeap(heap)' /\ NodesKept(Position) /\ SymbolsOK' /\ DefinitionsKept /\ LabelsMade
  BY <1>2, <1>4, <1>6, SameMachineLine
<1>8. GoodStatement(st)'
  <2>1. Len(heap') \in Nat
    BY <1>7, HeapLength
  <2>2. st.op \notin Evaluating /\ st.op \notin {"label", "equ"} /\ st.root <= Len(heap')
    BY <1>5, <2>1 DEF Evaluating
  <2> QED BY <1>5, <2>2 DEF GoodStatement
<1>9. NoCall(st)
  BY <1>2, <1>5 DEF NoCall, Reading
<1> QED BY <1>2, <1>3, <1>4, <1>7, <1>8, <1>9, LineKeeps

LEMMA LabelTwiceKeeps ==
  ASSUME NEW T, NEW U, Typed, Consistent(T, U), NEW line \in Lines, LabelTwice(line)
  PROVE  Typed' /\ \E V, W : Consistent(V, W)'
<1>1. PICK zero, live, st : zero = 0 /\ live = TRUE /\ st = Statement(line, zero, zero, live)
  OBVIOUS
<1>2. /\ Reading /\ line.op = "label" /\ ast' = Append(ast, st)
      /\ error_count' = error_count + 1
      /\ UNCHANGED <<table, current_section, heap, symbols, stack, ok, phase, pc, pending,
                     warning_count, garbage>>
  BY <1>1 DEF LabelTwice, machine, sectionVars
<1>3. /\ TableOK /\ current_section \in Nat /\ CurrentSize \in Nat /\ error_count \in Nat
      /\ Len(ast) \in Nat /\ Len(table) \in Nat
  BY <1>2, ReadingTypes
<1>4. TableOK' /\ Len(table) <= Len(table')
  BY <1>2, <1>3 DEF TableOK, S!TypeOK, S!TableWellFormed
<1>5. st \in StatementType /\ st.op = "label" /\ st.root = 0 /\ st.name = line.name
  <2>1. zero \in Nat /\ live \in BOOLEAN
    BY <1>1
  <2>2. \A s : s = Statement(line, zero, zero, live) =>
           s \in StatementType /\ s.op = line.op /\ s.name = line.name /\ s.root = zero
    BY <1>3, <2>1, LineStatement
  <2> QED BY <1>1, <1>2, <2>2
<1>6. Len(ast') = Len(ast) + 1
  BY <1>2, <1>5, OneMore DEF Typed, StatementsOK
<1>7. IsHeap(heap)' /\ NodesKept(Position) /\ SymbolsOK' /\ DefinitionsKept /\ LabelsMade
  BY <1>2, <1>4, <1>6, SameMachineLine
<1>8. GoodStatement(st)'
  <2>1. Len(heap') \in Nat
    BY <1>7, HeapLength
  <2>2. st.op \notin Evaluating /\ st.op # "equ" /\ st.root <= Len(heap')
    BY <1>5, <2>1 DEF Evaluating
  <2>3. st.name \in AllNames
    BY <1>2, <1>5, LineTypes, Zenon
  <2> QED BY <1>5, <2>2, <2>3 DEF GoodStatement
<1>9. NoCall(st)
  BY <1>2, <1>5 DEF NoCall, Reading
<1>10. error_count' \in Nat /\ error_count' # 0
  BY <1>2, <1>3
<1> QED BY <1>2, <1>4, <1>7, <1>8, <1>9, <1>10, LineKeeps

LEMMA LabelAfterEquKeeps ==
  ASSUME NEW T, NEW U, Typed, Consistent(T, U), NEW line \in Lines, LabelAfterEqu(line)
  PROVE  Typed' /\ \E V, W : Consistent(V, W)'
<1>1. PICK n, r, zero, live, st : /\ n = line.name /\ r = symbols[n].expr
                                  /\ zero = 0 /\ live = TRUE
                                  /\ st = Statement(line, r, zero, live)
  OBVIOUS
<1>2. /\ Reading /\ line.op = "label" /\ ast' = Append(ast, st) /\ Lazy(n)
      /\ stack' = Append(stack, NewFrame(r)) /\ pending' = "label"
      /\ UNCHANGED <<table, current_section, heap, symbols, ok, phase, pc, error_count,
                     warning_count, garbage>>
  BY <1>1 DEF LabelAfterEqu, sectionVars, reports, Call, NewFrame
<1>3. /\ TableOK /\ current_section \in Nat /\ CurrentSize \in Nat /\ error_count \in Nat
      /\ Len(ast) \in Nat /\ Len(table) \in Nat /\ Len(heap) \in Nat /\ SymbolsOK
  BY <1>2, ReadingTypes
<1>4. TableOK' /\ Len(table) <= Len(table')
  BY <1>2, <1>3 DEF TableOK, S!TypeOK, S!TableWellFormed
<1>5. n \in AllNames
  BY <1>1, <1>2, LineTypes, Zenon
<1>6. r \in Nat /\ r # 0 /\ r <= Len(heap)
  <2>1. symbols[n] \in Entries
    BY <1>3, <1>5 DEF SymbolsOK
  <2>2. r \in 0 .. Len(heap) /\ r # 0
    BY <1>1, <1>2, <2>1 DEF Entries, Lazy
  <2> QED BY <1>3, <2>2
<1>7. st \in StatementType /\ st.op = "label" /\ st.root = r /\ st.name = n
  <2>1. zero \in Nat /\ live \in BOOLEAN
    BY <1>1
  <2>2. \A s : s = Statement(line, r, zero, live) =>
           s \in StatementType /\ s.op = line.op /\ s.name = line.name /\ s.root = r
    BY <1>3, <1>6, <2>1, LineStatement
  <2> QED BY <1>1, <1>2, <2>2
<1>8. Len(ast') = Len(ast) + 1
  BY <1>2, <1>7, OneMore DEF Typed, StatementsOK
<1>9. IsHeap(heap)' /\ NodesKept(Position) /\ SymbolsOK' /\ DefinitionsKept /\ LabelsMade
  BY <1>2, <1>4, <1>8, SameMachineLine
<1>10. GoodStatement(st)'
  <2>1. st.op \notin Evaluating /\ st.op # "equ" /\ st.root <= Len(heap')
    BY <1>2, <1>6, <1>7 DEF Evaluating
  <2> QED BY <1>5, <1>7, <2>1 DEF GoodStatement
<1>11. FirstCall(st)
  <2>1. \A m \in AllNames : m = st.name => Lazy(m)' /\ symbols'[m].expr = st.root
    BY <1>1, <1>2, <1>7 DEF Lazy
  <2> QED BY <1>2, <1>6, <1>7, <2>1 DEF FirstCall
<1> QED BY <1>2, <1>3, <1>4, <1>9, <1>10, <1>11, LineKeeps

LEMMA LabelHeap ==
  ASSUME IsHeap(heap), CurrentSize \in Nat, heap' = Append(heap, ValueNode(CurrentSize)),
         NEW v, v = Len(heap) + 1
  PROVE  /\ IsHeap(heap)' /\ NodesKept(Position) /\ Len(heap) \in Nat /\ Len(heap') = v
         /\ v \in Nat \ {0} /\ Len(heap) <= Len(heap')
         /\ v \in Position' /\ v \notin Position /\ IsLabelNode(v)'
         /\ \A i \in Position' : i \in Position \/ i = v
         /\ heap'[v].op = "value"
<1>1. PICK e, c : e = ValueNode(CurrentSize) /\ c = CurrentSize
  OBVIOUS
<1>2. c \in Int /\ e = ValueNode(c)
  BY <1>1
<1>3. /\ e \in Node /\ IsNode(e, v) /\ e.op = "value" /\ e.type = "ABSOLUTE" /\ e.symbol = ""
  BY <1>2, ValueNodeType, Zenon
<1>4. heap \in Seq(Node) /\ Len(heap) \in Nat /\ heap' = Append(heap, e)
  BY <1>1, HeapLength
<1>5. /\ heap' \in Seq(Node) /\ Len(heap') = Len(heap) + 1 /\ heap'[Len(heap) + 1] = e
      /\ \A i \in 1 .. Len(heap) : heap'[i] = heap[i]
  <2>1. e \in Node
    BY <1>3
  <2> QED BY <1>4, <2>1, OneMore
<1>6. /\ v \in Nat \ {0} /\ Len(heap) <= Len(heap') /\ Len(heap') = v /\ heap'[v] = e
      /\ v \in 1 .. Len(heap') /\ v \notin 1 .. Len(heap)
      /\ 1 .. Len(heap) \subseteq 1 .. Len(heap')
      /\ \A i \in 1 .. Len(heap') : i \in 1 .. Len(heap) \/ i = v
  BY <1>4, <1>5
<1>7. IsHeap(heap')
  <2>1. ASSUME NEW i \in 1 .. Len(heap')
        PROVE  IsNode(heap'[i], i)
    <3>1. CASE i = v
      BY <1>3, <1>6, <3>1, Zenon
    <3>2. CASE i \in 1 .. Len(heap)
      BY <1>5, <3>2 DEF IsHeap
    <3> QED BY <1>6, <3>1, <3>2
  <2> QED BY <1>5, <2>1 DEF IsHeap
<1>8. IsLabelNode(v)'
  BY <1>3, <1>6, Zenon DEF IsLabelNode
<1>9. NodesKept(Position)
  BY <1>5, <1>6 DEF NodesKept, Position
<1>10. heap'[v].op = "value"
  BY <1>3, <1>6, Zenon
<1> QED BY <1>4, <1>6, <1>7, <1>8, <1>9, <1>10 DEF Position

LEMMA DefineLabelKeeps ==
  ASSUME NEW T, NEW U, Typed, Consistent(T, U), NEW line \in Lines, DefineLabel(line)
  PROVE  Typed' /\ \E V, W : Consistent(V, W)'
<1>1. PICK x, v, entry, zero, live, st :
        /\ x = line.name /\ v = Len(heap) + 1
        /\ entry = [type |-> "LABEL", section |-> current_section, expr |-> v]
        /\ zero = 0 /\ live = TRUE /\ st = Statement(line, zero, zero, live)
  OBVIOUS
<1>2. /\ Reading /\ line.op = "label" /\ ast' = Append(ast, st) /\ symbols[x].expr = 0
      /\ heap' = Append(heap, ValueNode(CurrentSize)) /\ symbols' = [symbols EXCEPT ![x] = entry]
      /\ UNCHANGED <<table, current_section, stack, ok, phase, pc, pending, error_count,
                     warning_count, garbage>>
  BY <1>1 DEF DefineLabel, sectionVars, reports, Free
<1>3. /\ TableOK /\ current_section \in Nat /\ CurrentSize \in Nat /\ error_count \in Nat
      /\ Len(ast) \in Nat /\ Len(table) \in Nat /\ SymbolsOK /\ IsHeap(heap)
      /\ current_section \in 1 .. Len(table)
  BY <1>2, ReadingTypes
<1>4. TableOK' /\ Len(table) <= Len(table') /\ Len(table') \in Nat
  BY <1>2, <1>3 DEF TableOK, S!TypeOK, S!TableWellFormed
<1>5. st \in StatementType /\ st.op = "label" /\ st.root = 0 /\ st.name = x
  <2>1. zero \in Nat /\ live \in BOOLEAN
    BY <1>1
  <2>2. \A s : s = Statement(line, zero, zero, live) =>
           s \in StatementType /\ s.op = line.op /\ s.name = line.name /\ s.root = zero
    BY <1>3, <2>1, LineStatement
  <2> QED BY <1>1, <1>2, <2>2
<1>6. Len(ast') = Len(ast) + 1
  BY <1>2, <1>5, OneMore DEF Typed, StatementsOK
<1>7. x \in SymbolNames /\ x \in AllNames
  BY <1>1, <1>2, LineTypes, Zenon
<1>8. /\ IsHeap(heap)' /\ NodesKept(Position) /\ Len(heap) \in Nat /\ Len(heap') = v
      /\ v \in Nat \ {0} /\ Len(heap) <= Len(heap')
      /\ v \in Position' /\ v \notin Position /\ IsLabelNode(v)'
      /\ \A i \in Position' : i \in Position \/ i = v
      /\ heap'[v].op = "value"
  BY <1>1, <1>2, <1>3, LabelHeap
<1>9. /\ symbols'[x] = entry /\ \A n \in AllNames : n # x => symbols'[n] = symbols[n]
      /\ symbols' = [n \in AllNames |-> symbols'[n]]
  <2>1. symbols \in [AllNames -> Entries]
    BY <1>3 DEF SymbolsOK
  <2> QED BY <1>2, <1>7, <2>1
<1>10. PICK s, m, F : s = symbols' /\ m = Len(ast') /\ F = {v}
  OBVIOUS
<1>11. \A n \in AllNames : LineMoves(n, F, 0)
  BY <1>1, <1>2, <1>9, <1>10 DEF LineMoves
<1>12. \A k \in m + 1 .. MaxLines : symbols'[LineNames[k]] = Absent
  <2>1. ASSUME NEW k \in m + 1 .. MaxLines
        PROVE  symbols'[LineNames[k]] = Absent
    <3>1. MaxLines \in Nat
      BY LineNameTypes
    <3>2. k \in 1 .. MaxLines /\ k \in Len(ast) + 1 .. MaxLines
      BY <1>3, <1>6, <1>10, <3>1
    <3>3. LineNames[k] \in AllNames /\ LineNames[k] # x
      BY <1>7, <3>2, LineNameTypes, Zenon
    <3> QED BY <1>3, <1>9, <3>2, <3>3 DEF SymbolsOK
  <2> QED BY <2>1
<1>13. SymbolsOK' /\ DefinitionsKept /\ ResolvedByLabels(F)
  <2>1. symbols' = [n \in AllNames |-> s[n]]
    BY <1>9, <1>10
  <2>2. /\ F \subseteq Position' /\ Len(heap') \in Nat /\ 0 \in 0 .. Len(heap')
    BY <1>8, <1>10
  <2>3. \A i \in Position' : heap'[i].op = "identifier" =>
          i \in Position \/ symbols'[heap'[i].name].type # "absent"
    BY <1>8
  <2> QED BY <1>3, <1>4, <1>8, <1>10, <1>11, <1>12, <2>1, <2>2, <2>3, SymbolsAfterLine
<1>14. LabelsMade
  BY <1>8, <1>10, <1>13 DEF LabelsMade
<1>15. GoodStatement(st)'
  <2>1. st.op \notin Evaluating /\ st.op # "equ" /\ st.root <= Len(heap')
    BY <1>5, <1>8 DEF Evaluating
  <2> QED BY <1>5, <1>7, <2>1 DEF GoodStatement
<1>16. NoCall(st)
  BY <1>2, <1>5 DEF NoCall, Reading
<1> QED BY <1>2, <1>3, <1>4, <1>8, <1>13, <1>14, <1>15, <1>16, LineKeeps

LEMMA CountTypes ==
  ASSUME NEW condition
  PROVE  Count(condition) \in Nat /\ (condition = TRUE => Count(condition) = 1)
BY DEF Count

\* The directives that reserve what they say and evaluate later.
LEMMA ReserveKeeps ==
  ASSUME NEW T, NEW U, Typed, Consistent(T, U), NEW line \in Lines,
         line.op \in {"data", "align"}, NEW size \in Nat, Reserve(line, size)
  PROVE  Typed' /\ \E V, W : Consistent(V, W)'
<1>1. PICK expr, r, live, st : /\ expr = line.expr /\ r = Root(expr) /\ live = TRUE
                               /\ st = Statement(line, r, size, live)
  OBVIOUS
<1>2. /\ Reading /\ ast' = Append(ast, st) /\ heap' = heap \o NodesOf(expr)
      /\ symbols' = WithMentions(expr) /\ S!Increase(size)
      /\ UNCHANGED <<stack, ok, phase, pc, pending, error_count, warning_count, garbage>>
  BY <1>1 DEF Reserve, reports
<1>3. /\ TableOK /\ current_section \in Nat /\ CurrentSize \in Nat /\ error_count \in Nat
      /\ Len(ast) \in Nat /\ Len(heap) \in Nat
  BY <1>2, ReadingTypes
<1>4. TableOK' /\ Len(table) <= Len(table')
  BY <1>2, <1>3, IncreaseTable
<1>5. line.op \in Evaluating /\ line.op # "label" /\ line.op # "equ" /\ line.op # "space"
  BY DEF Evaluating
<1>6. IsExpression(expr) /\ Len(expr) \in Nat
  <2>1. IsExpression(expr)
    BY <1>1, <1>5, LineTypes, Zenon
  <2> QED BY <2>1, ExpressionNodes
<1>7. r \in Nat
  BY <1>1, <1>3, <1>6 DEF Root
<1>8. st \in StatementType /\ st.op = line.op /\ st.root = r
  <2>1. live \in BOOLEAN
    BY <1>1
  <2>2. \A s : s = Statement(line, r, size, live) =>
           s \in StatementType /\ s.op = line.op /\ s.name = line.name /\ s.root = r
    BY <1>3, <1>7, <2>1, LineStatement
  <2> QED BY <1>1, <2>2
<1>9. Len(ast') = Len(ast) + 1
  BY <1>2, <1>8, OneMore DEF Typed, StatementsOK
<1>10. PICK s : s = WithMentions(expr)
  OBVIOUS
<1>11. /\ IsHeap(heap)' /\ NodesKept(Position) /\ SymbolsOK' /\ DefinitionsKept
       /\ LabelsMade /\ r \in Nat \ {0} /\ r <= Len(heap')
  <2>1. symbols' = s
    BY <1>2, <1>10
  <2>2. s = [n \in AllNames |-> s[n]]
    BY <1>10, Zenon DEF WithMentions
  <2>3. \A n \in AllNames : ExpressionMoves(expr, r, n)
    BY <1>2 DEF ExpressionMoves
  <2> QED BY <1>1, <1>2, <1>4, <1>6, <1>9, <2>1, <2>2, <2>3, ExpressionLine
<1>12. GoodStatement(st)'
  BY <1>5, <1>8, <1>11 DEF GoodStatement
<1>13. NoCall(st)
  BY <1>2, <1>5, <1>8 DEF NoCall, Reading
<1> QED BY <1>2, <1>3, <1>4, <1>11, <1>12, <1>13, LineKeeps

LEMMA Dir_byteKeeps ==
  ASSUME NEW T, NEW U, Typed, Consistent(T, U), NEW line \in Lines, Dir_byte(line)
  PROVE  Typed' /\ \E V, W : Consistent(V, W)'
<1>1. PICK size : size = 2
  OBVIOUS
<1>2. size \in Nat /\ line.op \in {"data", "align"} /\ Reserve(line, size)
  BY <1>1 DEF Dir_byte
<1> QED BY <1>2, ReserveKeeps

LEMMA Dir_alignKeeps ==
  ASSUME NEW T, NEW U, Typed, Consistent(T, U), NEW line \in Lines, Dir_align(line)
  PROVE  Typed' /\ \E V, W : Consistent(V, W)'
<1>1. PICK expr, size : /\ expr = line.expr
                        /\ size = AlignUp(CurrentSize, Unevaluated(expr)) - CurrentSize
  OBVIOUS
<1>2. line.op = "align" /\ line.op \in {"data", "align"} /\ Reserve(line, size)
  BY <1>1 DEF Dir_align
<1>3. Reading
  BY <1>2 DEF Reserve
<1>4. /\ Len(heap) \in Nat /\ garbage \in Word /\ HereName \in AllNames /\ CurrentSize \in Nat
  BY <1>3, ReadingTypes
<1>5. size \in Nat
  <2>1. IsExpression(expr)
    <3>1. line.op \in Evaluating
      BY <1>2 DEF Evaluating
    <3> QED BY <1>1, <3>1, LineTypes, Zenon
  <2>2. Len(expr) \in 1 .. Len(expr)
    BY <2>1, ExpressionNodes
  <2>3. Allocate(expr)[Len(expr)] \in Node
    BY <1>4, <2>1, <2>2, AllocatedNode DEF IsNode
  <2>4. Allocate(expr)[Len(expr)].value \in Int
    BY <2>3, Zenon DEF Node
  <2>5. Unevaluated(expr) \in Int
    <3>1. Low16(Allocate(expr)[Len(expr)].value) \in Word
      BY <2>4, Low16Type
    <3> QED BY <3>1, WordIsNumber DEF Unevaluated
  <2> QED BY <1>1, <1>4, <2>5, AlignmentGap
<1> QED BY <1>2, <1>5, ReserveKeeps

LEMMA Dir_spaceKeeps ==
  ASSUME NEW T, NEW U, Typed, Consistent(T, U), NEW line \in Lines, Dir_space(line)
  PROVE  Typed' /\ \E V, W : Consistent(V, W)'
<1>1. PICK expr, r, zero, live, st : /\ expr = line.expr /\ r = Root(expr) /\ zero = 0
                                     /\ live = TRUE /\ st = Statement(line, r, zero, live)
  OBVIOUS
<1>2. /\ Reading /\ ast' = Append(ast, st) /\ heap' = heap \o NodesOf(expr)
      /\ line.op = "space" /\ symbols' = WithMentions(expr)
      /\ stack' = Append(stack, NewFrame(r)) /\ pending' = "space"
      /\ UNCHANGED <<table, current_section, ok, phase, pc, error_count, warning_count, garbage>>
  BY <1>1 DEF Dir_space, reports, sectionVars, Call, NewFrame
<1>3. /\ TableOK /\ current_section \in Nat /\ CurrentSize \in Nat /\ error_count \in Nat
      /\ Len(ast) \in Nat /\ Len(heap) \in Nat /\ Len(table) \in Nat
  BY <1>2, ReadingTypes
<1>4. TableOK' /\ Len(table) <= Len(table')
  BY <1>2, <1>3 DEF TableOK, S!TypeOK, S!TableWellFormed
<1>5. line.op \in Evaluating
  BY <1>2 DEF Evaluating
<1>6. IsExpression(expr) /\ Len(expr) \in Nat
  <2>1. IsExpression(expr)
    BY <1>1, <1>5, LineTypes, Zenon
  <2> QED BY <2>1, ExpressionNodes
<1>7. r \in Nat
  BY <1>1, <1>3, <1>6 DEF Root
<1>8. st \in StatementType /\ st.op = "space" /\ st.root = r
  <2>1. zero \in Nat /\ live \in BOOLEAN
    BY <1>1
  <2>2. \A s : s = Statement(line, r, zero, live) =>
           s \in StatementType /\ s.op = line.op /\ s.name = line.name /\ s.root = r
    BY <1>3, <1>7, <2>1, LineStatement
  <2> QED BY <1>1, <1>2, <2>2
<1>9. Len(ast') = Len(ast) + 1
  BY <1>2, <1>8, OneMore DEF Typed, StatementsOK
<1>10. PICK s : s = WithMentions(expr)
  OBVIOUS
<1>11. /\ IsHeap(heap)' /\ NodesKept(Position) /\ SymbolsOK' /\ DefinitionsKept
       /\ LabelsMade /\ r \in Nat \ {0} /\ r <= Len(heap')
  <2>1. symbols' = s
    BY <1>2, <1>10
  <2>2. s = [n \in AllNames |-> s[n]]
    BY <1>10, Zenon DEF WithMentions
  <2>3. \A n \in AllNames : ExpressionMoves(expr, r, n)
    BY <1>2 DEF ExpressionMoves
  <2> QED BY <1>1, <1>2, <1>4, <1>6, <1>9, <2>1, <2>2, <2>3, ExpressionLine
<1>12. GoodStatement(st)'
  BY <1>8, <1>11 DEF GoodStatement
<1>13. FirstCall(st)
  BY <1>2, <1>8, <1>11 DEF FirstCall
<1> QED BY <1>2, <1>3, <1>4, <1>11, <1>12, <1>13, LineKeeps

LEMMA Dir_equKeeps ==
  ASSUME NEW T, NEW U, Typed, Consistent(T, U), NEW line \in Lines, Dir_equ(line)
  PROVE  Typed' /\ \E V, W : Consistent(V, W)'
<1>1. PICK expr, x, r, zero, entries, free, live, entry, st :
        /\ expr = line.expr /\ x = line.name /\ r = Root(expr) /\ zero = 0
        /\ entries = WithMentions(expr) /\ free = Free(entries[x]) /\ live = (entries[x] = Absent)
        /\ entry = [type |-> "UNDEFINED", section |-> current_section, expr |-> r]
        /\ st = Statement(line, r, zero, live)
  OBVIOUS
<1>2. /\ Reading /\ ast' = Append(ast, st) /\ heap' = heap \o NodesOf(expr)
      /\ line.op = "equ"
      /\ symbols' = (IF ~free THEN entries ELSE [entries EXCEPT ![x] = entry])
      /\ error_count' = error_count + Count(~free)
      /\ UNCHANGED <<table, current_section, stack, ok, phase, pc, pending, warning_count, garbage>>
  BY <1>1 DEF Dir_equ, sectionVars
<1>3. /\ TableOK /\ current_section \in Nat /\ CurrentSize \in Nat /\ error_count \in Nat
      /\ Len(ast) \in Nat /\ Len(heap) \in Nat /\ Len(table) \in Nat
  BY <1>2, ReadingTypes
<1>4. TableOK' /\ Len(table) <= Len(table')
  BY <1>2, <1>3 DEF TableOK, S!TypeOK, S!TableWellFormed
<1>5. line.op \in Evaluating
  BY <1>2 DEF Evaluating
<1>6. IsExpression(expr) /\ Len(expr) \in Nat
  <2>1. IsExpression(expr)
    BY <1>1, <1>5, LineTypes, Zenon
  <2> QED BY <2>1, ExpressionNodes
<1>7. r \in Nat /\ x \in SymbolNames /\ x \in AllNames
  <2>1. r \in Nat
    BY <1>1, <1>3, <1>6 DEF Root
  <2>2. x \in SymbolNames /\ x \in AllNames
    BY <1>1, <1>2, LineTypes, Zenon
  <2> QED BY <2>1, <2>2
<1>8. st \in StatementType /\ st.op = "equ" /\ st.root = r /\ st.name = x /\ st.live = live
  <2>1. /\ zero \in Nat /\ live \in BOOLEAN /\ r \in Nat
        /\ current_section \in Nat /\ CurrentSize \in Nat
    BY <1>1, <1>3, <1>7
  <2>2. \A s : s = Statement(line, r, zero, live) =>
           /\ s \in StatementType /\ s.op = line.op /\ s.name = line.name /\ s.root = r
           /\ s.size = zero /\ s.live = live
    BY <2>1, LineStatement
  <2>3. \A s : s = Statement(line, r, zero, live) => s.live = live
    BY <2>2, Zenon
  <2>4. st = Statement(line, r, zero, live)
    BY <1>1
  <2>5. st \in StatementType /\ st.op = line.op /\ st.name = line.name /\ st.root = r
    BY <2>2, <2>4, Zenon
  <2>6. st.live = live
    BY <2>3, <2>4, Zenon
  <2> QED BY <1>1, <1>2, <2>5, <2>6
<1>9. Len(ast') = Len(ast) + 1
  BY <1>2, <1>8, OneMore DEF Typed, StatementsOK
<1>10. /\ symbols' = [n \in AllNames |-> symbols'[n]]
       /\ \A n \in AllNames : symbols'[n] = IF free /\ n = x THEN entry ELSE entries[n]
  <2>1. entries = [n \in AllNames |-> entries[n]]
    BY <1>1, Zenon DEF WithMentions
  <2>2. CASE free
    BY <1>2, <1>7, <2>1, <2>2
  <2>3. CASE ~free
    BY <1>2, <2>1, <2>3
  <2> QED BY <2>2, <2>3
<1>11. PICK s : s = symbols'
  OBVIOUS
<1>12. /\ IsHeap(heap)' /\ NodesKept(Position) /\ SymbolsOK' /\ DefinitionsKept
       /\ LabelsMade /\ r \in Nat \ {0} /\ r <= Len(heap')
  <2>1. symbols' = s /\ s = [n \in AllNames |-> s[n]]
    BY <1>10, <1>11
  <2>2. \A n \in AllNames : ExpressionMoves(expr, r, n)
    BY <1>1, <1>7, <1>10 DEF ExpressionMoves
  <2> QED BY <1>1, <1>2, <1>4, <1>6, <1>9, <2>1, <2>2, ExpressionLine
<1>13. live => symbols'[x].expr = r
  <2>1. live => free
    <3>1. \A e : e = Absent => Free(e)
      BY DEF Absent, Free
    <3>2. PICK e : e = entries[x]
      OBVIOUS
    <3>3. live = (e = Absent) /\ free = Free(e)
      BY <1>1, <3>2, Zenon
    <3> QED BY <3>1, <3>3, Zenon
  <2> QED BY <1>1, <1>7, <1>10, <2>1
<1>14. GoodStatement(st)'
  BY <1>7, <1>8, <1>12, <1>13 DEF GoodStatement
<1>15. NoCall(st)
  BY <1>2, <1>8 DEF NoCall, Reading
<1>16. error_count' \in Nat /\ (error_count' = 0 => error_count = 0)
  <2>1. PICK c : c = Count(~free)
    OBVIOUS
  <2>2. c \in Nat
    BY <2>1, CountTypes
  <2>3. error_count' = error_count + c
    BY <1>2, <2>1
  <2> QED BY <1>3, <2>2, <2>3, NatSum
<1> QED BY <1>2, <1>4, <1>12, <1>14, <1>15, <1>16, LineKeeps

LEMMA ParseLineKeeps ==
  ASSUME NEW T, NEW U, Typed, Consistent(T, U), NEW line \in Lines, ParseLine(line)
  PROVE  Typed' /\ \E V, W : Consistent(V, W)'
<1>1. \/ SectionLine(line) \/ DefineLabel(line) \/ LabelTwice(line)
      \/ LabelAfterEqu(line) \/ Dir_equ(line) \/ Dir_byte(line) \/ Dir_align(line)
      \/ Dir_space(line)
  BY DEF ParseLine
<1>2. CASE SectionLine(line)
  BY <1>2, SectionLineKeeps
<1>3. CASE DefineLabel(line)
  BY <1>3, DefineLabelKeeps
<1>4. CASE LabelTwice(line)
  BY <1>4, LabelTwiceKeeps
<1>5. CASE LabelAfterEqu(line)
  BY <1>5, LabelAfterEquKeeps
<1>6. CASE Dir_equ(line)
  BY <1>6, Dir_equKeeps
<1>7. CASE Dir_byte(line)
  BY <1>7, Dir_byteKeeps
<1>8. CASE Dir_align(line)
  BY <1>8, Dir_alignKeeps
<1>9. CASE Dir_space(line)
  BY <1>9, Dir_spaceKeeps
<1> QED BY <1>1, <1>2, <1>3, <1>4, <1>5, <1>6, <1>7, <1>8, <1>9

-----------------------------------------------------------------------------
\* The end of a pass and the visits.

\* Steps that touch neither the nodes nor the symbols nor the statements.
LEMMA QuietTypes ==
  ASSUME Typed,
         UNCHANGED <<table, current_section, heap, symbols, ast, error_count, warning_count>>,
         ControlOK'
  PROVE  Typed'
<1>1. S!TypeOK' /\ S!TableWellFormed'
  BY DEF Typed, S!TypeOK, S!TableWellFormed
<1>2. IsHeap(heap)' /\ SymbolsOK'
  BY DEF Typed, IsHeap, IsNode, SymbolsOK, Entries, Position
<1>3. StatementsOK'
  BY DEF Typed, StatementsOK
<1> QED BY <1>1, <1>2, <1>3 DEF Typed

LEMMA EndOfFileKeeps ==
  ASSUME NEW T, NEW U, Typed, Consistent(T, U), EndOfFile
  PROVE  Typed' /\ \E V, W : Consistent(V, W)'
<1>1. /\ phase = "parse" /\ pending = "none"
      /\ phase' = (IF error_count > 0 THEN "exit" ELSE "generate")
      /\ UNCHANGED <<table, current_section, heap, symbols, stack, ok, ast, pc, pending,
                     error_count, warning_count, garbage>>
  BY DEF EndOfFile, sectionVars, machine, reports
<1>2. /\ Marks(T, U) /\ Frames(T, U) /\ SpacesOK(T) /\ IsHeap(heap) /\ SymbolsOK
      /\ ControlOK /\ error_count \in Nat /\ pc = 1
  BY <1>1 DEF Consistent, Typed, ControlOK
<1>3. Marks(T, U)'
  BY <1>1, <1>2, SameMarks
<1>4. Frames(T, U)'
  BY <1>1, <1>2, SameFrames
<1>5. PendingOK(T, U)'
  BY <1>1 DEF PendingOK
<1>6. SpacesOK(T)'
  <2>1. \A j \in 1 .. pc - 1 : FALSE
    BY <1>2
  <2>2. SpaceFillsWhatItReserved'
    BY <1>1, <2>1 DEF SpaceFillsWhatItReserved
  <2>3. CASE error_count = 0
    BY <1>1, <1>2, <2>2, <2>3 DEF SpacesOK, Low16
  <2>4. CASE error_count # 0
    <3>1. phase' = "exit"
      BY <1>1, <1>2, <2>4
    <3> QED BY <2>2, <3>1 DEF SpacesOK
  <2> QED BY <2>3, <2>4
<1>7. ControlOK'
  <2>1. phase' \in {"exit", "generate"}
    BY <1>1
  <2> QED BY <1>1, <1>2, <2>1 DEF ControlOK
<1>8. Typed'
  BY <1>1, <1>7, QuietTypes
<1> QED BY <1>3, <1>4, <1>5, <1>6, <1>8 DEF Consistent

LEMMA EndOfCodeKeeps ==
  ASSUME NEW T, NEW U, Typed, Consistent(T, U), EndOfCode
  PROVE  Typed' /\ \E V, W : Consistent(V, W)'
<1>1. /\ phase = "generate" /\ pending = "none" /\ phase' \in {"exit", "done"}
      /\ UNCHANGED <<table, current_section, heap, symbols, stack, ok, ast, pc, pending,
                     error_count, warning_count, garbage>>
  BY DEF EndOfCode, sectionVars, machine, reports
<1>2. /\ Marks(T, U) /\ Frames(T, U) /\ SpacesOK(T) /\ IsHeap(heap) /\ SymbolsOK /\ ControlOK
  BY DEF Consistent, Typed
<1>3. Marks(T, U)'
  BY <1>1, <1>2, SameMarks
<1>4. Frames(T, U)'
  BY <1>1, <1>2, SameFrames
<1>5. PendingOK(T, U)'
  BY <1>1 DEF PendingOK
<1>6. SpacesOK(T)'
  BY <1>1, <1>2 DEF SpacesOK, SpaceFillsWhatItReserved, Low16
<1>7. ControlOK'
  BY <1>1, <1>2 DEF ControlOK
<1>8. Typed'
  BY <1>1, <1>7, QuietTypes
<1> QED BY <1>3, <1>4, <1>5, <1>6, <1>8 DEF Consistent

\* The statement visited.
LEMMA ThisTypes ==
  ASSUME Typed, phase = "generate", pc <= Len(ast)
  PROVE  /\ Len(ast) \in Nat /\ pc \in 1 .. Len(ast) /\ pc \in Nat /\ This \in StatementType
         /\ This.op \in Evaluating => This.root \in Position
         /\ This.op = "equ" /\ This.live => /\ symbols[This.name].expr = This.root
                                            /\ This.name \in AllNames
<1>1. StatementsOK /\ ControlOK /\ IsHeap(heap)
  BY DEF Typed
<1>2. ast \in Seq(StatementType) /\ pc \in 1 .. Len(ast) + 1
  BY <1>1 DEF StatementsOK, ControlOK
<1>3. Len(ast) \in Nat
  BY <1>2, LengthIsNat, Zenon
<1>4. pc \in 1 .. Len(ast) /\ pc \in Nat
  BY <1>2, <1>3
<1>5. This \in StatementType
  BY <1>2, <1>4 DEF This
<1>6. This.root \in Nat
  BY <1>5, Zenon DEF StatementType
<1>7. /\ This.root <= Len(heap)
      /\ This.op \in Evaluating => This.root # 0
      /\ This.op \in {"label", "equ"} => This.name \in AllNames
      /\ This.op = "equ" /\ This.live => symbols[This.name].expr = This.root
  BY <1>1, <1>4 DEF StatementsOK, This
<1>8. Len(heap) \in Nat
  BY <1>1, HeapLength
<1>9. This.op \in Evaluating => This.root \in Position
  BY <1>6, <1>7, <1>8 DEF Position
<1> QED BY <1>3, <1>4, <1>5, <1>7, <1>9

LEMMA VisitNothingKeeps ==
  ASSUME NEW T, NEW U, Typed, Consistent(T, U), VisitNothing
  PROVE  Typed' /\ \E V, W : Consistent(V, W)'
<1>1. /\ phase = "generate" /\ pending = "none" /\ pc <= Len(ast) /\ pc' = pc + 1
      /\ This.op \in {"section", "label", "equ"}
      /\ UNCHANGED <<table, current_section, heap, symbols, stack, ok, ast, phase, pending,
                     error_count, warning_count, garbage>>
  BY DEF VisitNothing, Visiting, sectionVars, machine, reports
<1>2. /\ Marks(T, U) /\ Frames(T, U) /\ SpacesOK(T) /\ IsHeap(heap) /\ SymbolsOK /\ ControlOK
  BY DEF Consistent, Typed
<1>3. Marks(T, U)'
  BY <1>1, <1>2, SameMarks
<1>4. Frames(T, U)'
  BY <1>1, <1>2, SameFrames
<1>5. PendingOK(T, U)'
  BY <1>1 DEF PendingOK
<1>6. Len(ast) \in Nat /\ pc \in 1 .. Len(ast) /\ pc \in Nat
  BY <1>1, ThisTypes
<1>7. SpacesOK(T)'
  <2>1. ASSUME NEW j \in 1 .. pc' - 1, ast[j].op = "space"
        PROVE  ast[j].result.ok /\ ast[j].result.value = ast[j].size
    <3>1. j # pc
      BY <1>1, <2>1 DEF This
    <3>2. j \in 1 .. pc - 1
      BY <1>1, <1>6, <3>1
    <3> QED BY <1>1, <1>2, <2>1, <3>2 DEF SpacesOK, SpaceFillsWhatItReserved
  <2>2. SpaceFillsWhatItReserved'
    BY <1>1, <2>1 DEF SpaceFillsWhatItReserved
  <2> QED BY <1>1, <1>2, <2>2 DEF SpacesOK, Low16
<1>8. ControlOK'
  <2>1. pc' \in 1 .. Len(ast') + 1
    BY <1>1, <1>6
  <2> QED BY <1>1, <1>2, <2>1 DEF ControlOK
<1>9. Typed'
  BY <1>1, <1>8, QuietTypes
<1> QED BY <1>3, <1>4, <1>5, <1>7, <1>9 DEF Consistent

LEMMA VisitEvaluatesKeeps ==
  ASSUME NEW T, NEW U, Typed, Consistent(T, U), VisitEvaluates
  PROVE  Typed' /\ \E V, W : Consistent(V, W)'
<1>1. PICK n : n = This.root
  OBVIOUS
<1>2. /\ phase = "generate" /\ pending = "none" /\ pc <= Len(ast)
      /\ This.op \in Evaluating /\ (This.op = "equ" /\ This.live => Lazy(This.name))
      /\ stack' = Append(stack, NewFrame(n)) /\ pending' = "visit"
      /\ UNCHANGED <<table, current_section, heap, symbols, ok, ast, phase, pc,
                     error_count, warning_count, garbage>>
  BY <1>1 DEF VisitEvaluates, Visiting, Call, NewFrame, Evaluating, sectionVars, reports
<1>3. /\ Marks(T, U) /\ SpacesOK(T) /\ IsHeap(heap) /\ SymbolsOK /\ ControlOK /\ stack = <<>>
  BY <1>2 DEF Consistent, Typed, ControlOK
<1>4. /\ n \in Position /\ Len(heap) \in Nat
      /\ This.op = "equ" /\ This.live => symbols[This.name].expr = n
  BY <1>1, <1>2, <1>3, ThisTypes, HeapLength
<1>5. Marks(T, U)'
  BY <1>2, <1>3, SameMarks
<1>6. Frames(T, U)' /\ stack' # <<>> /\ stack'[1].node = n
  <2>1. IsHeap(heap)' /\ n \in Position'
    BY <1>2, <1>3, <1>4 DEF IsHeap, IsNode, Position
  <2> QED BY <1>2, <1>3, <2>1, FirstCallFrames
<1>7. Waiting' = This
  BY <1>2 DEF Waiting, This
<1>8. PendingOK(T, U)'
  BY <1>1, <1>2, <1>4, <1>6, <1>7 DEF PendingOK, Lazy
<1>9. SpacesOK(T)'
  BY <1>2, <1>3 DEF SpacesOK, SpaceFillsWhatItReserved, Low16
<1>10. ControlOK'
  <2>1. This.root # 0
    BY <1>1, <1>4 DEF Position
  <2> QED BY <1>2, <1>3, <1>7, <2>1 DEF ControlOK
<1>11. Typed'
  BY <1>2, <1>10, QuietTypes
<1> QED BY <1>5, <1>6, <1>8, <1>9, <1>11 DEF Consistent

-----------------------------------------------------------------------------
\* The statement that waited goes on with what its evaluation left.

LEMMA ReturnedTypes ==
  ASSUME NEW T, NEW U, Typed, Consistent(T, U), stack = <<>>, pending # "none",
         NEW i, i = Waiting.root
  PROVE  /\ i \in Position /\ Waiting \in StatementType /\ Verdict(T, U, i)
         /\ heap[i].type \in HeapTypes /\ heap[i].value \in Int
         /\ heap[i].symbol \in AllNames \cup {""}
         /\ heap[i].type \in Resolved \cup {"INVALID"}
         /\ heap[i].type \in Resolved => i \in T \cup U
         /\ ok => i \in T
<1>1. /\ Marks(T, U) /\ PendingOK(T, U) /\ StatementsOK /\ ControlOK /\ IsHeap(heap)
  BY DEF Consistent, Typed
<1>2. i \in Position /\ Waiting \in StatementType
  BY <1>1, WaitingTypes
<1>3. Verdict(T, U, i)
  BY <1>1 DEF PendingOK
<1>4. /\ heap[i].type \in HeapTypes /\ heap[i].value \in Int
      /\ heap[i].symbol \in AllNames \cup {""}
  BY <1>1, <1>2, NodeTypes DEF Position
<1>5. i \in T \cup U \/ heap[i].type = "INVALID"
  BY <1>3 DEF Verdict
<1>6. i \in T \cup U => heap[i].type \in Resolved
  BY <1>1 DEF Marks, Sound, Unsound
<1>7. "INVALID" \notin Resolved
  BY DEF Resolved
<1>8. ok => i \in T
  BY <1>3 DEF Verdict
<1> QED BY <1>2, <1>3, <1>4, <1>5, <1>6, <1>7, <1>8

\* The symbol that waited for its type.
LEMMA ReturnResolves ==
  ASSUME NEW T, NEW U, Typed, Consistent(T, U), stack = <<>>, pending # "none",
         pending = "label" \/ (Waiting.op = "equ" /\ Waiting.live),
         NEW i, i = Waiting.root, NEW n, n = Waiting.name, NEW type, type = heap[i].type,
         symbols' = [symbols EXCEPT ![n].type = type]
  PROVE  Resolves(n, type) /\ NewlyResolved(T \cup U)
<1>1. /\ PendingOK(T, U) /\ StatementsOK /\ ControlOK /\ SymbolsOK
  BY DEF Consistent, Typed
<1>2. /\ type \in Resolved \cup {"INVALID"}
      /\ type \in Resolved => i \in T \cup U
  BY ReturnedTypes
<1>3. n \in AllNames
  BY <1>1, WaitingTypes
<1>4. Lazy(n) /\ symbols[n].expr = i
  BY <1>1 DEF PendingOK
<1>5. Resolves(n, type)
  BY <1>2, <1>3, <1>4 DEF Resolves
<1>6. /\ \A m \in AllNames : m # n => symbols'[m] = symbols[m]
      /\ symbols'[n].type = type
  BY <1>1, <1>5, ResolveSymbol
<1>7. symbols[n].expr # 0
  BY <1>4 DEF Lazy
<1>8. NewlyResolved(T \cup U)
  BY <1>2, <1>4, <1>6, <1>7 DEF NewlyResolved
<1> QED BY <1>5, <1>8

LEMMA AfterCall ==
  ASSUME NEW T, NEW U, Typed, Consistent(T, U), stack = <<>>, UNCHANGED <<heap, stack, ok>>,
         table' = table, Len(ast') = Len(ast), pending' = "none",
         symbols' = symbols \/ ((\E n, type : Resolves(n, type)) /\ NewlyResolved(T \cup U))
  PROVE  /\ IsHeap(heap)' /\ SymbolsOK' /\ DefinitionsKept
         /\ Marks(T, U)' /\ Frames(T, U)' /\ PendingOK(T, U)'
<1>1. Marks(T, U) /\ IsHeap(heap) /\ SymbolsOK /\ StatementsOK
  BY DEF Consistent, Typed
<1>2. Len(ast) \in Nat
  BY <1>1, LengthIsNat, Zenon DEF StatementsOK
<1>3. IsHeap(heap)' /\ NodesKept(T \cup U) /\ NodesKept({}) /\ Len(heap') = Len(heap)
  BY <1>1 DEF IsHeap, IsNode, NodesKept, Position
<1>4. SymbolsOK' /\ DefinitionsKept
  BY <1>1, <1>2, <1>3, SymbolsAfterReturn
<1>5. Marks(T, U)'
  <2>1. CASE symbols' = symbols
    BY <1>1, <2>1, SameMarks
  <2>2. CASE NewlyResolved(T \cup U)
    <3>1. T \subseteq Position' /\ U \subseteq Position' /\ T \cap U = {}
      BY <1>1 DEF Marks, Position
    <3> QED BY <1>1, <1>3, <1>4, <2>2, <3>1, NewMarks
  <2> QED BY <2>1, <2>2
<1>6. Frames(T, U)'
  BY EmptyFrames
<1>7. PendingOK(T, U)'
  BY DEF PendingOK
<1> QED BY <1>3, <1>4, <1>5, <1>6, <1>7

\* Definitions that are kept keep the statements that refer to them.
LEMMA StatementsKept ==
  ASSUME StatementsOK, DefinitionsKept, heap' = heap, ast' = ast
  PROVE  StatementsOK'
<1>1. ASSUME NEW j \in 1 .. Len(ast), ast[j].op = "equ", ast[j].live
      PROVE  symbols'[ast[j].name].expr = ast[j].root
  <2>1. /\ ast[j].name \in AllNames /\ ast[j].root # 0
        /\ symbols[ast[j].name].expr = ast[j].root
    BY <1>1 DEF StatementsOK, Evaluating
  <2> QED BY <2>1 DEF DefinitionsKept
<1> QED BY <1>1 DEF StatementsOK

LEMMA FinishLabelKeeps ==
  ASSUME NEW T, NEW U, Typed, Consistent(T, U), FinishLabel
  PROVE  Typed' /\ \E V, W : Consistent(V, W)'
<1>1. PICK i, n, type : i = Waiting.root /\ n = Waiting.name /\ type = heap[i].type
  OBVIOUS
<1>2. /\ pending = "label" /\ stack = <<>> /\ phase # "crashed"
      /\ symbols' = [symbols EXCEPT ![n].type = type]
      /\ error_count' = error_count + 1 /\ pending' = "none"
      /\ UNCHANGED <<table, current_section, heap, stack, ok, ast, phase, pc, warning_count,
                     garbage>>
  BY <1>1 DEF FinishLabel, Returned, Waiting, sectionVars
<1>3. StatementsOK /\ ControlOK /\ phase = "parse" /\ pc = 1 /\ error_count \in Nat
  BY <1>2 DEF Typed, ControlOK
<1>4. Resolves(n, type) /\ NewlyResolved(T \cup U)
  BY <1>1, <1>2, ReturnResolves
<1>5. /\ IsHeap(heap)' /\ SymbolsOK' /\ DefinitionsKept
      /\ Marks(T, U)' /\ Frames(T, U)' /\ PendingOK(T, U)'
  BY <1>2, <1>4, AfterCall
<1>6. error_count' \in Nat /\ error_count' # 0
  BY <1>2, <1>3
<1>7. SpacesOK(T)'
  <2>1. SpaceFillsWhatItReserved'
    BY <1>2, <1>3 DEF SpaceFillsWhatItReserved
  <2> QED BY <1>2, <1>3, <1>6, <2>1 DEF SpacesOK
<1>8. ControlOK'
  BY <1>2, <1>3, <1>6 DEF ControlOK
<1>9. StatementsOK'
  BY <1>2, <1>3, <1>5, StatementsKept
<1>10. S!TypeOK' /\ S!TableWellFormed'
  BY <1>2 DEF Typed, S!TypeOK, S!TableWellFormed
<1> QED BY <1>5, <1>7, <1>8, <1>9, <1>10 DEF Typed, Consistent

\* A field of a statement that has it.
SizedStatement(st, size) == [st EXCEPT !.size = size]

LEMMA Sized ==
  ASSUME NEW st \in StatementType, NEW size \in Nat
  PROVE  /\ SizedStatement(st, size) \in StatementType
         /\ SizedStatement(st, size).op = st.op /\ SizedStatement(st, size).name = st.name
         /\ SizedStatement(st, size).root = st.root /\ SizedStatement(st, size).live = st.live
         /\ SizedStatement(st, size).result = st.result /\ SizedStatement(st, size).size = size
BY Zenon DEF SizedStatement, StatementType

Visited(st, result) == [st EXCEPT !.result = result]

LEMMA VisitedType ==
  ASSUME NEW st \in StatementType,
         NEW result \in [ok : BOOLEAN, type : HeapTypes, value : Int, symbol : AllNames \cup {""}]
  PROVE  /\ Visited(st, result) \in StatementType
         /\ Visited(st, result).op = st.op /\ Visited(st, result).name = st.name
         /\ Visited(st, result).root = st.root /\ Visited(st, result).live = st.live
         /\ Visited(st, result).size = st.size /\ Visited(st, result).result = result
BY Zenon DEF Visited, StatementType

\* Another size or another result of a statement.
Refined(e, st) == /\ e \in StatementType /\ e.op = st.op /\ e.name = st.name
                  /\ e.root = st.root /\ e.live = st.live

LEMMA StatementRefined ==
  ASSUME StatementsOK, DefinitionsKept, heap' = heap, NEW j \in 1 .. Len(ast),
         NEW e, Refined(e, ast[j]), ast' = [ast EXCEPT ![j] = e]
  PROVE  /\ StatementsOK' /\ Len(ast') = Len(ast) /\ Len(ast) \in Nat /\ ast'[j] = e
         /\ \A k \in 1 .. Len(ast) : k # j => ast'[k] = ast[k]
         /\ \A k \in 1 .. Len(ast) : Refined(ast'[k], ast[k])
<1>1. ast \in Seq(StatementType) /\ e \in StatementType
  BY DEF StatementsOK, Refined
<1>2. Len(ast) \in Nat
  BY <1>1, LengthIsNat, Zenon
<1>3. /\ ast' \in Seq(StatementType) /\ Len(ast') = Len(ast) /\ ast'[j] = e
      /\ \A k \in 1 .. Len(ast) : k # j => ast'[k] = ast[k]
  BY <1>1, PutElement DEF Put, IsPut
<1>4. \A k \in 1 .. Len(ast) : Refined(ast'[k], ast[k])
  <2>1. \A k \in 1 .. Len(ast) : ast[k] \in StatementType
    BY <1>1
  <2> QED BY <1>3, <2>1 DEF Refined
<1>5. ASSUME NEW k \in 1 .. Len(ast)
      PROVE  /\ ast'[k].root <= Len(heap')
             /\ ast'[k].op \in Evaluating => ast'[k].root # 0
             /\ ast'[k].op \in {"label", "equ"} => ast'[k].name \in AllNames
             /\ ast'[k].op = "equ" /\ ast'[k].live => symbols'[ast'[k].name].expr = ast'[k].root
  <2>1. /\ ast[k].root <= Len(heap)
        /\ ast[k].op \in Evaluating => ast[k].root # 0
        /\ ast[k].op \in {"label", "equ"} => ast[k].name \in AllNames
        /\ ast[k].op = "equ" /\ ast[k].live => symbols[ast[k].name].expr = ast[k].root
    BY DEF StatementsOK
  <2>2. ast[k].op = "equ" /\ ast[k].live => symbols'[ast[k].name].expr = ast[k].root
    BY <2>1 DEF Evaluating, DefinitionsKept
  <2> QED BY <1>4, <2>1, <2>2 DEF Refined
<1>6. StatementsOK'
  BY <1>3, <1>5 DEF StatementsOK
<1> QED BY <1>2, <1>3, <1>4, <1>6

LEMMA FinishSpaceKeeps ==
  ASSUME NEW T, NEW U, Typed, Consistent(T, U), FinishSpace
  PROVE  Typed' /\ \E V, W : Consistent(V, W)'
<1>1. PICK i, j, size, zero, st, e, c :
        /\ i = Waiting.root /\ j = Len(ast) /\ zero = 0
        /\ size = (IF ok THEN Low16(heap[i].value) ELSE zero)
        /\ st = Waiting /\ e = SizedStatement(st, size) /\ c = Count(~ok)
  OBVIOUS
<1>2. pending = "space" /\ stack = <<>> /\ phase # "crashed"
  BY DEF FinishSpace, Returned
<1>3. Waiting = ast[j]
  BY <1>1, <1>2 DEF Waiting
<1>4. S!Increase(size)
  BY <1>1, <1>3 DEF FinishSpace
<1>5. ast' = [ast EXCEPT ![j] = e]
  BY <1>1, <1>3 DEF FinishSpace, SizedStatement
<1>6. /\ error_count' = error_count + c /\ pending' = "none"
      /\ UNCHANGED <<heap, symbols, stack, ok, phase, pc, warning_count, garbage>>
  BY <1>1 DEF FinishSpace, machine
<1>7. /\ TableOK /\ StatementsOK /\ ControlOK /\ SpacesOK(T) /\ IsHeap(heap) /\ SymbolsOK
      /\ phase = "parse" /\ pc = 1 /\ error_count \in Nat /\ ok \in BOOLEAN /\ ast # <<>>
      /\ Marks(T, U)
  BY <1>2 DEF Typed, ControlOK, TableOK, Consistent
<1>8. /\ i \in Position /\ st \in StatementType /\ heap[i].value \in Int
      /\ ok => i \in T
  BY <1>1, <1>2, ReturnedTypes
<1>9. size \in Nat
  <2>1. Low16(heap[i].value) \in Nat
    BY <1>8, Low16Type, WordIsNumber
  <2> QED BY <1>1, <2>1
<1>10. /\ e \in StatementType /\ e.op = st.op /\ e.name = st.name /\ e.root = st.root
       /\ e.live = st.live /\ e.size = size
  BY <1>1, <1>8, <1>9, Sized, ZenonT(40)
<1>11. /\ j \in 1 .. Len(ast) /\ Refined(e, ast[j])
  <2>1. Len(ast) \in Nat /\ Len(ast) \in 1 .. Len(ast)
    BY <1>7 DEF StatementsOK
  <2> QED BY <1>1, <1>3, <1>10, <2>1 DEF Refined
<1>12. TableOK' /\ Len(table) <= Len(table')
  BY <1>4, <1>7, <1>9, IncreaseTable
<1>13. DefinitionsKept
  BY <1>6 DEF DefinitionsKept
<1>14. /\ StatementsOK' /\ Len(ast') = Len(ast) /\ Len(ast) \in Nat /\ ast'[j] = e
       /\ \A k \in 1 .. Len(ast) : k # j => ast'[k] = ast[k]
  BY <1>5, <1>6, <1>7, <1>11, <1>13, StatementRefined
<1>15. IsHeap(heap)' /\ SymbolsOK'
  <2>1. IsHeap(heap)'
    BY <1>6, <1>7 DEF IsHeap, IsNode
  <2>2. Len(table) \in Nat /\ Len(table') \in Nat
    BY <1>7, <1>12, TableTypes DEF TableOK, S!TypeOK
  <2>3. 0 .. Len(table) \subseteq 0 .. Len(table')
    BY <1>12, <2>2
  <2>4. Entries \subseteq Entries'
    BY <1>6, <2>3 DEF Entries
  <2>5. symbols' \in [AllNames -> Entries']
    BY <1>6, <1>7, <2>4 DEF SymbolsOK
  <2> QED BY <1>6, <1>7, <1>14, <2>1, <2>5 DEF SymbolsOK, Position, Absent
<1>16. Marks(T, U)'
  BY <1>6, <1>7, SameMarks
<1>17. Frames(T, U)'
  BY <1>2, <1>6, EmptyFrames
<1>18. PendingOK(T, U)'
  BY <1>6 DEF PendingOK
<1>19. c \in Nat /\ error_count' \in Nat /\ (error_count' = 0 => error_count = 0 /\ c = 0)
  <2>1. c \in Nat
    BY <1>1, CountTypes
  <2> QED BY <1>6, <1>7, <2>1, NatSum
<1>20. c = 0 => ok
  BY <1>1, <1>7 DEF Count
<1>21. SpacesOK(T)'
  <2>1. SpaceFillsWhatItReserved'
    BY <1>6, <1>7 DEF SpaceFillsWhatItReserved
  <2>2. ASSUME error_count' = 0, NEW k \in 1 .. Len(ast'), ast'[k].op = "space"
        PROVE  ast'[k].root \in T /\ ast'[k].size = Low16(heap'[ast'[k].root].value)
    <3>1. ok /\ error_count = 0
      BY <1>19, <1>20, <2>2
    <3>2. CASE k = j
      <4>1. ast'[k].root = i /\ ast'[k].size = size
        BY <1>1, <1>10, <1>14, <3>2
      <4>2. size = Low16(heap[i].value)
        BY <1>1, <3>1
      <4> QED BY <1>6, <1>8, <3>1, <4>1, <4>2 DEF Low16
    <3>3. CASE k # j
      <4>1. ast'[k] = ast[k] /\ k \in 1 .. Len(ast) /\ k # Len(ast)
        BY <1>1, <1>14, <3>3
      <4>2. ast[k].root \in T /\ ast[k].size = Low16(heap[ast[k].root].value)
        BY <1>7, <2>2, <3>1, <4>1 DEF SpacesOK
      <4> QED BY <1>6, <4>1, <4>2 DEF Low16
    <3> QED BY <3>2, <3>3
  <2> QED BY <1>6, <1>7, <2>1, <2>2 DEF SpacesOK, Low16
<1>22. ControlOK'
  BY <1>2, <1>6, <1>7, <1>14, <1>19 DEF ControlOK
<1> QED BY <1>12, <1>14, <1>15, <1>16, <1>17, <1>18, <1>21, <1>22 DEF Typed, Consistent, TableOK

LEMMA FinishVisitKeeps ==
  ASSUME NEW T, NEW U, Typed, Consistent(T, U), FinishVisit
  PROVE  Typed' /\ \E V, W : Consistent(V, W)'
<1>1. PICK i, n, type, result, st, e, c :
        /\ i = Waiting.root /\ n = Waiting.name /\ type = heap[i].type
        /\ result = [ok |-> ok, type |-> heap[i].type, value |-> Low16(heap[i].value),
                     symbol |-> heap[i].symbol]
        /\ st = Waiting /\ e = Visited(st, result)
        /\ c = Count((ok /\ heap[i].type = "LABEL") /\ This.op \in {"space", "align"})
  OBVIOUS
<1>2. pending = "visit" /\ stack = <<>> /\ phase # "crashed"
  BY DEF FinishVisit, Returned
<1>3. Waiting = ast[pc] /\ This = Waiting
  BY <1>2 DEF Waiting, This
<1>4. symbols' = (IF st.op = "equ" /\ st.live THEN [symbols EXCEPT ![n].type = type] ELSE symbols)
  BY <1>1, <1>3 DEF FinishVisit
<1>5. ast' = [ast EXCEPT ![pc] = e]
  BY <1>1, <1>3 DEF FinishVisit, Visited
<1>6. /\ error_count' = error_count + c /\ pending' = "none" /\ pc' = pc + 1
      /\ UNCHANGED <<table, current_section, heap, stack, ok, phase, warning_count, garbage>>
  BY <1>1, <1>3 DEF FinishVisit, sectionVars
<1>7. /\ StatementsOK /\ ControlOK /\ SpacesOK(T) /\ IsHeap(heap)
      /\ phase = "generate" /\ error_count \in Nat /\ ok \in BOOLEAN /\ Marks(T, U)
  BY <1>2 DEF Typed, ControlOK, Consistent
<1>8. /\ i \in Position /\ st \in StatementType /\ heap[i].type \in HeapTypes
      /\ heap[i].value \in Int /\ heap[i].symbol \in AllNames \cup {""}
      /\ Verdict(T, U, i)
  BY <1>1, <1>2, ReturnedTypes
<1>9. pc \in 1 .. Len(ast) /\ pc \in Nat /\ Len(ast) \in Nat
  BY <1>2, <1>7, ThisTypes DEF ControlOK
<1>10. result \in [ok : BOOLEAN, type : HeapTypes, value : Int, symbol : AllNames \cup {""}]
  <2>1. Low16(heap[i].value) \in Int
    BY <1>8, Low16Type, WordIsNumber
  <2>2. ok \in BOOLEAN
    BY <1>7
  <2> QED BY <1>1, <1>8, <2>1, <2>2, Zenon
<1>11. /\ e \in StatementType /\ e.op = st.op /\ e.name = st.name /\ e.root = st.root
       /\ e.live = st.live /\ e.size = st.size /\ e.result = result
  <2>1. /\ Visited(st, result) \in StatementType
        /\ Visited(st, result).op = st.op /\ Visited(st, result).name = st.name
        /\ Visited(st, result).root = st.root /\ Visited(st, result).live = st.live
        /\ Visited(st, result).size = st.size /\ Visited(st, result).result = result
    BY <1>8, <1>10, VisitedType, Zenon
  <2>2. e = Visited(st, result)
    BY <1>1
  <2> QED BY <2>1, <2>2, Zenon
<1>12. Refined(e, ast[pc])
  BY <1>1, <1>3, <1>11 DEF Refined
<1>13. symbols' = symbols \/ ((\E m, t : Resolves(m, t)) /\ NewlyResolved(T \cup U))
  <2>1. CASE st.op = "equ" /\ st.live
    <3>1. symbols' = [symbols EXCEPT ![n].type = type]
      BY <1>4, <2>1
    <3>2. Waiting.op = "equ" /\ Waiting.live
      BY <1>1, <2>1
    <3>3. Resolves(n, type) /\ NewlyResolved(T \cup U)
      BY <1>1, <1>2, <3>1, <3>2, ReturnResolves
    <3> QED BY <3>3
  <2> QED BY <1>4, <2>1
<1>14. Len(ast') = Len(ast)
  BY <1>5, <1>7 DEF StatementsOK
<1>15. /\ IsHeap(heap)' /\ SymbolsOK' /\ DefinitionsKept
       /\ Marks(T, U)' /\ Frames(T, U)' /\ PendingOK(T, U)'
  BY <1>2, <1>6, <1>13, <1>14, AfterCall
<1>16. /\ StatementsOK' /\ ast'[pc] = e
       /\ \A k \in 1 .. Len(ast) : k # pc => ast'[k] = ast[k]
  BY <1>5, <1>6, <1>7, <1>9, <1>12, <1>15, StatementRefined
<1>17. error_count' \in Nat
  <2>1. c \in Nat
    BY <1>1, CountTypes
  <2> QED BY <1>6, <1>7, <2>1, NatSum
<1>18. SpacesOK(T)'
  <2>1. ASSUME NEW k \in 1 .. Len(ast'), ast'[k].op = "space"
        PROVE  ast'[k].root \in T /\ ast'[k].size = Low16(heap'[ast'[k].root].value)
    <3>1. /\ k \in 1 .. Len(ast) /\ ast'[k].op = ast[k].op /\ ast'[k].root = ast[k].root
          /\ ast'[k].size = ast[k].size
      BY <1>1, <1>3, <1>11, <1>14, <1>16, <2>1
    <3>2. ast[k].root \in T /\ ast[k].size = Low16(heap[ast[k].root].value)
      BY <1>2, <1>7, <2>1, <3>1 DEF SpacesOK
    <3> QED BY <1>6, <3>1, <3>2 DEF Low16
  <2>2. ASSUME NEW k \in 1 .. pc' - 1, ast'[k].op = "space"
        PROVE  ast'[k].result.ok /\ ast'[k].result.value = ast'[k].size
    <3>1. CASE k = pc
      <4>1. ast[pc].op = "space" /\ ast[pc].root = i /\ ast'[pc].size = ast[pc].size
        BY <1>1, <1>3, <1>11, <1>16, <2>2, <3>1
      <4>2. i \in T /\ ast[pc].size = Low16(heap[i].value)
        BY <1>2, <1>7, <1>9, <4>1 DEF SpacesOK
      <4>3. ok
        <5>1. i \notin U /\ heap[i].type # "INVALID"
          BY <1>7, <4>2 DEF Marks, Sound, Resolved
        <5> QED BY <1>8, <5>1 DEF Verdict
      <4>4. result.ok = ok /\ result.value = Low16(heap[i].value)
        BY <1>1, Zenon
      <4> QED BY <1>11, <1>16, <3>1, <4>1, <4>2, <4>3, <4>4
    <3>2. CASE k # pc
      <4>1. k \in 1 .. pc - 1 /\ k \in 1 .. Len(ast)
        BY <1>6, <1>9, <3>2
      <4>2. ast'[k] = ast[k]
        BY <1>16, <3>2, <4>1
      <4> QED BY <1>7, <2>2, <4>1, <4>2 DEF SpacesOK, SpaceFillsWhatItReserved
    <3> QED BY <3>1, <3>2
  <2>3. SpaceFillsWhatItReserved'
    BY <2>2 DEF SpaceFillsWhatItReserved
  <2> QED BY <1>6, <1>7, <2>1, <2>3 DEF SpacesOK, Low16
<1>19. ControlOK'
  <2>1. pc' \in 1 .. Len(ast') + 1
    BY <1>6, <1>9, <1>14
  <2> QED BY <1>2, <1>6, <1>7, <1>17, <2>1 DEF ControlOK
<1>20. S!TypeOK' /\ S!TableWellFormed'
  BY <1>6 DEF Typed, S!TypeOK, S!TableWellFormed
<1> QED BY <1>15, <1>16, <1>18, <1>19, <1>20 DEF Typed, Consistent

-----------------------------------------------------------------------------
\* The invariant.

LEMMA EvaluateKeeps ==
  ASSUME NEW T, NEW U, Typed, Consistent(T, U), Evaluate
  PROVE  Typed' /\ \E V, W : Consistent(V, W)'
<1>1. CASE Descend
  BY <1>1, DescendKeeps
<1>2. CASE StackOverflow
  BY <1>2, StackOverflowKeeps
<1>3. CASE EvaluateValue
  BY <1>3, EvaluateValueKeeps
<1>4. CASE EvaluateIdentifier
  BY <1>4, EvaluateIdentifierKeeps
<1>5. CASE FailWithOperand
  BY <1>5, FailWithOperandKeeps
<1>6. CASE EvaluateOperation
  BY <1>6, EvaluateOperationKeeps
<1> QED BY <1>1, <1>2, <1>3, <1>4, <1>5, <1>6 DEF Evaluate

LEMMA InitInv ==
  ASSUME Init
  PROVE  IInv
<1>1. /\ S!Init /\ heap = <<>> /\ symbols = [n \in AllNames |-> Absent]
      /\ ast = <<>> /\ phase = "parse" /\ pc = 1
      /\ stack = <<>> /\ pending = "none" /\ ok = TRUE
      /\ error_count = 0 /\ warning_count = 0 /\ garbage \in Word
  <2>1. garbage \in Word
    <3>1. garbage \in Garbage
      BY Zenon DEF Init
    <3> QED BY <3>1, GarbageAssumption, Zenon
  <2> QED BY <2>1, Zenon DEF Init
<1>2. TableOK
  <2>1. SP!IInv
    BY <1>1, SameTable, SectionsAssumptions, SP!InitInv
  <2> QED BY <2>1, SameTable
<1>3. IsHeap(heap) /\ Position = {} /\ Len(heap) = 0
  <2>1. heap \in Seq(Node) /\ Len(heap) = 0 /\ 1 .. Len(heap) = {}
    BY <1>1
  <2> QED BY <2>1 DEF IsHeap, Position
<1>4. SymbolsOK
  <2>1. Absent \in Entries
    <3>1. 0 \in 0 .. Len(table) /\ 0 \in 0 .. Len(heap)
      BY <1>2, <1>3, TableTypes
    <3> QED BY <3>1 DEF Absent, Entries, SymbolTypes
  <2>2. \A n \in AllNames : symbols[n] = Absent
    BY <1>1
  <2>3. Absent.type = "absent" /\ Absent.expr = 0
    BY DEF Absent
  <2>4. symbols \in [AllNames -> Entries]
    BY <1>1, <2>1
  <2>5. \A k \in Len(ast) + 1 .. MaxLines : LineNames[k] \in AllNames
    <3>1. MaxLines \in Nat /\ Len(ast) = 0
      BY <1>1, LineNameTypes
    <3>2. \A k \in Len(ast) + 1 .. MaxLines : k \in 1 .. MaxLines
      BY <3>1
    <3> QED BY <3>2, LineNameTypes
  <2> QED BY <1>3, <2>2, <2>3, <2>4, <2>5 DEF SymbolsOK
<1>5. StatementsOK
  <2>1. ast \in Seq(StatementType) /\ 1 .. Len(ast) = {}
    BY <1>1
  <2> QED BY <2>1 DEF StatementsOK
<1>6. ControlOK
  <2>1. pc \in 1 .. Len(ast) + 1
    BY <1>1
  <2> QED BY <1>1, <2>1 DEF ControlOK
<1>7. Marks({}, {})
  BY <1>1 DEF Marks, Resolved, Absent
<1>8. Frames({}, {})
  <2>1. stack \in Seq(Frame) /\ DOMAIN stack = {}
    BY <1>1
  <2> QED BY <1>1, <2>1 DEF Frames, NoneOvertakes
<1>9. PendingOK({}, {})
  BY <1>1 DEF PendingOK
<1>10. SpacesOK({})
  <2>1. 1 .. Len(ast) = {}
    BY <1>1
  <2> QED BY <1>1, <2>1 DEF SpacesOK, SpaceFillsWhatItReserved
<1> QED BY <1>2, <1>3, <1>4, <1>5, <1>6, <1>7, <1>8, <1>9, <1>10
        DEF IInv, Typed, Consistent, TableOK

LEMMA StutterInv ==
  ASSUME NEW T, NEW U, Typed, Consistent(T, U), UNCHANGED vars
  PROVE  Typed' /\ Consistent(T, U)'
<1>1. UNCHANGED <<table, current_section, heap, symbols, stack, ok, ast, phase, pc, pending,
                  error_count, warning_count, garbage>>
  BY DEF vars, sectionVars, machine, reports
<1>2. /\ Marks(T, U) /\ Frames(T, U) /\ PendingOK(T, U) /\ SpacesOK(T) /\ IsHeap(heap)
      /\ SymbolsOK /\ ControlOK
  BY DEF Consistent, Typed
<1>3. Marks(T, U)'
  BY <1>1, <1>2, SameMarks
<1>4. Frames(T, U)'
  BY <1>1, <1>2, SameFrames
<1>5. PendingOK(T, U)'
  BY <1>1, <1>2 DEF PendingOK, Waiting, Lazy, Verdict
<1>6. SpacesOK(T)'
  BY <1>1, <1>2 DEF SpacesOK, SpaceFillsWhatItReserved, Low16
<1>7. ControlOK'
  BY <1>1, <1>2 DEF ControlOK, Waiting
<1>8. Typed'
  BY <1>1, <1>7, QuietTypes
<1> QED BY <1>3, <1>4, <1>5, <1>6, <1>8 DEF Consistent

LEMMA NextInv ==
  ASSUME IInv, [Next]_vars
  PROVE  IInv'
<1>1. PICK T, U : Consistent(T, U)
  BY DEF IInv
<1>2. Typed
  BY DEF IInv
<1> USE <1>1, <1>2
<1>3. ASSUME NEW line \in Lines, ParseLine(line)
      PROVE  Typed' /\ \E V, W : Consistent(V, W)'
  BY <1>3, ParseLineKeeps
<1>4. CASE FinishLabel
  BY <1>4, FinishLabelKeeps DEF IInv
<1>5. CASE FinishSpace
  BY <1>5, FinishSpaceKeeps DEF IInv
<1>6. CASE EndOfFile
  BY <1>6, EndOfFileKeeps DEF IInv
<1>7. CASE Evaluate
  BY <1>7, EvaluateKeeps DEF IInv
<1>8. CASE VisitNothing
  BY <1>8, VisitNothingKeeps DEF IInv
<1>9. CASE VisitEvaluates
  BY <1>9, VisitEvaluatesKeeps DEF IInv
<1>10. CASE FinishVisit
  BY <1>10, FinishVisitKeeps DEF IInv
<1>11. CASE EndOfCode
  BY <1>11, EndOfCodeKeeps DEF IInv
<1>12. CASE UNCHANGED vars
  BY <1>12, StutterInv DEF IInv
<1> QED BY <1>3, <1>4, <1>5, <1>6, <1>7, <1>8, <1>9, <1>10, <1>11, <1>12 DEF Next, IInv

LEMMA Invariance == Spec => []IInv
<1>1. Init => IInv
  BY InitInv
<1>2. IInv /\ [Next]_vars => IInv'
  BY NextInv
<1> QED BY <1>1, <1>2, PTL DEF Spec

\* The operands that returned have the types the assertions of evaluate ask for.
LEMMA OperandTypes ==
  ASSUME IInv
  PROVE  OperandsAreTyped
<1>1. PICK T, U : Consistent(T, U)
  BY DEF IInv
<1>2. Marks(T, U) /\ Frames(T, U) /\ IsHeap(heap)
  BY <1>1 DEF IInv, Typed, Consistent
<1>3. SUFFICES ASSUME stack # <<>>, ok, NEW k \in 1 .. Top.done
               PROVE  heap[IF Running.op = "identifier" THEN symbols[Running.name].expr
                           ELSE Operand(Running, k)].type \in {"ABSOLUTE", "LABEL"}
  BY DEF OperandsAreTyped, InCall
<1>4. PICK i, d : i = Top.node /\ d = Top.done
  OBVIOUS
<1>5. /\ i \in Position /\ d \in 0 .. Calls(i) /\ d \in Nat /\ Reached(T, i, d, 0)
      /\ Running = heap[i]
  BY <1>2, <1>3, <1>4, TopTypes DEF Running
<1>6. d > 0 /\ k \in 1 .. d
  BY <1>3, <1>4, <1>5
<1>7. Child(i, d) \in T
  <2>1. Verdict(T, U, Child(i, d))
    BY <1>2, <1>3, <1>4, <1>6 DEF Frames
  <2> QED BY <1>3, <2>1 DEF Verdict
<1>8. Child(i, k) \in T
  <2>1. CASE k = d
    BY <1>7, <2>1
  <2>2. CASE k # d
    <3>1. k < d
      BY <1>5, <1>6, <2>2
    <3>2. Calls(i) \in {0, 1, 2} /\ (heap[i].op \in Leaf => Calls(i) \in {0, 1})
      BY <1>2, <1>5, CallsType DEF Leaf
    <3>3. heap[i].op \notin Leaf
      BY <1>5, <1>6, <3>1, <3>2
    <3>4. Kid(i, k) \in T
      BY <1>5, <1>6, <3>1, <3>3 DEF Reached
    <3> QED BY <3>3, <3>4 DEF Child, Leaf
  <2> QED BY <2>1, <2>2
<1>9. heap[Child(i, k)].type \in Resolved
  BY <1>2, <1>8 DEF Marks, Sound
<1> QED BY <1>5, <1>9 DEF Child, Kid, Resolved

\* In every reachable state the variables have their types; the operands of a
\* running call that returned a value are ABSOLUTE or LABEL, which evaluate asserts.
THEOREM TypeCorrect == Spec => []TypeOK
<1>1. IInv => TypeOK
  <2> SUFFICES ASSUME IInv PROVE TypeOK
    OBVIOUS
  <2>1. PICK T, U : Consistent(T, U)
    BY DEF IInv
  <2>2. Frames(T, U) /\ IsHeap(heap) /\ SymbolsOK /\ ControlOK /\ S!TypeOK
    BY <2>1 DEF IInv, Typed, Consistent
  <2>3. OperandsAreTyped
    BY OperandTypes
  <2>4. ASSUME NEW i \in Position
        PROVE  /\ heap[i].type \in Types \cup {"unset"} /\ heap[i].value \in Int
               /\ \A k \in DOMAIN heap[i].kids : heap[i].kids[k] \in 1 .. i - 1
    <3>1. /\ heap[i].kids \in Seq(Nat)
          /\ heap[i].type \in HeapTypes /\ heap[i].value \in Int
          /\ Len(heap[i].kids) = Operands(heap[i].op)
          /\ \A k \in 1 .. Operands(heap[i].op) : heap[i].kids[k] \in 1 .. i - 1
      BY <2>2, NodeTypes DEF Position
    <3>2. heap[i].type \in Types \cup {"unset"}
      BY <3>1 DEF HeapTypes, Types
    <3>3. DOMAIN heap[i].kids = 1 .. Operands(heap[i].op)
      BY <3>1
    <3> QED BY <3>1, <3>2, <3>3
  <2>5. symbols \in [AllNames -> [type : Types \cup {"absent"},
                                  section : 0 .. Len(table), expr : 0 .. Len(heap)]]
    <3>1. SymbolTypes \subseteq Types \cup {"absent"}
      BY DEF SymbolTypes, Resolved, Types
    <3>2. Entries \subseteq [type : Types \cup {"absent"},
                             section : 0 .. Len(table), expr : 0 .. Len(heap)]
      BY <3>1 DEF Entries
    <3> QED BY <2>2, <3>2 DEF SymbolsOK
  <2>6. \A k \in DOMAIN stack : stack[k].node \in Position
    <3>1. DOMAIN stack = 1 .. Len(stack)
      BY <2>2 DEF Frames
    <3> QED BY <2>2, <3>1, FrameTypes
  <2> QED BY <2>2, <2>3, <2>4, <2>5, <2>6 DEF TypeOK, ControlOK
<1> QED BY <1>1, Invariance, PTL

\* A .space is filled with as many bytes as it reserved while parsing, although its
\* operand is evaluated twice, before and after the rest of the program is read.
THEOREM SpacesAreFilled == Spec => []SpaceFillsWhatItReserved
<1>1. IInv => SpaceFillsWhatItReserved
  BY DEF IInv, Consistent, SpacesOK
<1> QED BY <1>1, Invariance, PTL

-----------------------------------------------------------------------------
\* Definitions are final.

FinalSymbols ==
  \A n \in AllNames :
    ~Free(symbols[n]) =>
      /\ symbols'[n].expr = symbols[n].expr
      /\ symbols'[n].section = symbols[n].section
      /\ symbols[n].type # "UNDEFINED" => symbols'[n].type = symbols[n].type

LEMMA SameSymbols ==
  ASSUME symbols' = symbols
  PROVE  FinalSymbols
BY DEF FinalSymbols

LEMMA ResolvedFinal ==
  ASSUME SymbolsOK, NEW n, NEW type, Resolves(n, type)
  PROVE  FinalSymbols
<1>1. /\ \A m \in AllNames : m # n => symbols'[m] = symbols[m]
      /\ symbols'[n].expr = symbols[n].expr
      /\ symbols'[n].section = symbols[n].section
  BY ResolveSymbol
<1>2. symbols[n].type = "UNDEFINED"
  BY DEF Resolves, Lazy
<1> QED BY <1>1, <1>2 DEF FinalSymbols

\* A line defines a name that was free, and no other.
LEMMA LineFinal ==
  ASSUME Typed, NEW line \in Lines, ParseLine(line)
  PROVE  FinalSymbols
<1>1. PICK n, expr : n = line.name /\ expr = line.expr
  OBVIOUS
<1>2. SymbolsOK
  BY DEF Typed
<1>3. CASE symbols' = symbols
  BY <1>3, SameSymbols
<1>4. CASE DefineLabel(line)
  <2>1. PICK e : symbols' = [symbols EXCEPT ![n] = e]
    BY <1>1, <1>4 DEF DefineLabel
  <2>2. Free(symbols[n])
    BY <1>1, <1>4 DEF DefineLabel
  <2>3. \A m \in AllNames : m # n => symbols'[m] = symbols[m]
    BY <1>2, <2>1 DEF SymbolsOK
  <2> QED BY <2>2, <2>3 DEF FinalSymbols
<1>5. ASSUME NEW entries, entries = WithMentions(expr), Reading, IsExpression(expr)
      PROVE  \A m \in AllNames : ~Free(symbols[m]) => entries[m] = symbols[m]
  <2>1. /\ HereName \in AllNames /\ HereName \notin SymbolNames /\ symbols[HereName] = Absent
    BY <1>5, ReadingTypes
  <2>2. \A e : e = Absent => Free(e)
    BY DEF Absent, Free
  <2>3. ASSUME NEW m \in AllNames, ~Free(symbols[m])
        PROVE  entries[m] = symbols[m]
    <3>1. symbols[m] # Absent
      BY <2>2, <2>3
    <3>2. PICK e : e = WithMentions(expr)[m]
      OBVIOUS
    <3>3. e = symbols[m]
      BY <1>2, <1>5, <2>1, <3>1, <3>2, MentionedMoves
    <3> QED BY <1>5, <3>2, <3>3
  <2> QED BY <2>3
<1>6. CASE line.op \in Evaluating /\ Reading /\ symbols' = WithMentions(expr)
  <2>1. IsExpression(expr)
    BY <1>1, <1>6, LineTypes, Zenon
  <2>2. PICK entries : entries = WithMentions(expr)
    OBVIOUS
  <2>3. \A m \in AllNames : ~Free(symbols[m]) => entries[m] = symbols[m]
    BY <1>5, <1>6, <2>1, <2>2
  <2> QED BY <1>6, <2>2, <2>3 DEF FinalSymbols
<1>7. CASE Dir_equ(line)
  <2>1. PICK entries, free, entry :
          /\ entries = WithMentions(expr) /\ free = Free(entries[n])
          /\ entry = [type |-> "UNDEFINED", section |-> current_section, expr |-> Root(expr)]
    OBVIOUS
  <2>2. /\ Reading /\ line.op = "equ"
        /\ symbols' = (IF ~free THEN entries ELSE [entries EXCEPT ![n] = entry])
    BY <1>1, <1>7, <2>1 DEF Dir_equ
  <2>3. IsExpression(expr)
    <3>1. line.op \in Evaluating
      BY <2>2 DEF Evaluating
    <3> QED BY <1>1, <3>1, LineTypes, Zenon
  <2>4. \A m \in AllNames : ~Free(symbols[m]) => entries[m] = symbols[m]
    BY <1>5, <2>1, <2>2, <2>3
  <2>5. entries = [m \in AllNames |-> entries[m]]
    BY <2>1, Zenon DEF WithMentions
  <2>6. CASE ~free
    BY <2>2, <2>4, <2>6 DEF FinalSymbols
  <2>7. CASE free
    <3>1. symbols' = [entries EXCEPT ![n] = entry]
      BY <2>2, <2>7
    <3>2. \A m \in AllNames : m # n => symbols'[m] = entries[m]
      BY <2>5, <3>1
    <3>3. \A m \in AllNames : ~Free(symbols[m]) => m # n
      <4>1. Free(entries[n])
        BY <2>1, <2>7, Zenon
      <4> QED BY <2>4, <4>1
    <3> QED BY <2>4, <3>2, <3>3 DEF FinalSymbols
  <2> QED BY <2>6, <2>7
<1>8. \/ symbols' = symbols
      \/ DefineLabel(line) \/ Dir_equ(line)
      \/ line.op \in Evaluating /\ Reading /\ symbols' = WithMentions(expr)
  <2>1. CASE SectionLine(line)
    BY <2>1 DEF SectionLine, machine
  <2>2. CASE LabelTwice(line)
    BY <2>2 DEF LabelTwice, machine
  <2>3. CASE LabelAfterEqu(line)
    BY <2>3 DEF LabelAfterEqu
  <2>4. CASE Dir_byte(line)
    BY <1>1, <2>4 DEF Dir_byte, Reserve, Evaluating
  <2>5. CASE Dir_align(line)
    BY <1>1, <2>5 DEF Dir_align, Reserve, Evaluating
  <2>6. CASE Dir_space(line)
    BY <1>1, <2>6 DEF Dir_space, Evaluating
  <2> QED BY <2>1, <2>2, <2>3, <2>4, <2>5, <2>6 DEF ParseLine
<1> QED BY <1>3, <1>4, <1>6, <1>7, <1>8

\* An identifier gives its symbol a type when it has none.
LEMMA IdentifierFinal ==
  ASSUME IInv, EvaluateIdentifier
  PROVE  FinalSymbols
<1>1. PICK T, U : Consistent(T, U)
  BY DEF IInv
<1>2. PICK i, name, type : i = Top.node /\ name = heap[i].name /\ type = TypeNow(name)
  OBVIOUS
<1>3. Typed /\ SymbolsOK
  BY DEF IInv, Typed
<1>4. symbols' = symbols \/ Resolves(name, type)
  BY <1>1, <1>2, <1>3, TypeOfSymbol
<1>5. CASE symbols' = symbols
  BY <1>5, SameSymbols
<1>6. CASE Resolves(name, type)
  BY <1>3, <1>6, ResolvedFinal
<1> QED BY <1>4, <1>5, <1>6

LEMMA StepFinal ==
  ASSUME IInv, [Next]_vars
  PROVE  FinalSymbols
<1>1. PICK T, U : Consistent(T, U)
  BY DEF IInv
<1>2. Typed /\ SymbolsOK
  BY DEF IInv, Typed
<1>3. ASSUME NEW line \in Lines, ParseLine(line)
      PROVE  FinalSymbols
  BY <1>2, <1>3, LineFinal
<1>4. CASE FinishLabel
  <2>1. PICK i, n, type : i = Waiting.root /\ n = Waiting.name /\ type = heap[i].type
    OBVIOUS
  <2>2. /\ pending = "label" /\ stack = <<>> /\ symbols' = [symbols EXCEPT ![n].type = type]
    BY <1>4, <2>1 DEF FinishLabel, Returned, Waiting
  <2>3. Resolves(n, type)
    BY <1>1, <1>2, <2>1, <2>2, ReturnResolves
  <2> QED BY <1>2, <2>3, ResolvedFinal
<1>5. CASE FinishVisit
  <2>1. PICK i, n, type : i = Waiting.root /\ n = Waiting.name /\ type = heap[i].type
    OBVIOUS
  <2>2. pending = "visit" /\ stack = <<>>
    BY <1>5 DEF FinishVisit, Returned
  <2>3. This = Waiting
    BY <2>2 DEF This, Waiting
  <2>4. CASE Waiting.op = "equ" /\ Waiting.live
    <3>1. symbols' = [symbols EXCEPT ![n].type = type]
      BY <1>5, <2>1, <2>3, <2>4 DEF FinishVisit
    <3>2. Resolves(n, type)
      BY <1>1, <1>2, <2>1, <2>2, <2>4, <3>1, ReturnResolves
    <3> QED BY <1>2, <3>2, ResolvedFinal
  <2>5. CASE ~(Waiting.op = "equ" /\ Waiting.live)
    <3>1. symbols' = symbols
      BY <1>5, <2>3, <2>5 DEF FinishVisit
    <3> QED BY <3>1, SameSymbols
  <2> QED BY <2>4, <2>5
<1>6. CASE EvaluateIdentifier
  BY <1>6, IdentifierFinal
<1>7. CASE \/ FinishSpace \/ EndOfFile \/ Descend \/ StackOverflow \/ EvaluateValue
           \/ FailWithOperand \/ EvaluateOperation \/ VisitNothing \/ VisitEvaluates
           \/ EndOfCode \/ UNCHANGED vars
  <2>1. symbols' = symbols
    BY <1>7 DEF FinishSpace, EndOfFile, Descend, StackOverflow, EvaluateValue, FailWithOperand,
                EvaluateOperation, VisitNothing, VisitEvaluates, EndOfCode, vars, machine
  <2> QED BY <2>1, SameSymbols
<1> QED BY <1>3, <1>4, <1>5, <1>6, <1>7 DEF Next, Evaluate

\* Once a name has an expression, neither it nor the section changes, and a type an
\* evaluation gave is never given again, however uses, labels and .equ of the name
\* follow each other.
THEOREM DefinitionsStay == Spec => DefinitionsAreFinal
<1>1. IInv /\ [Next]_vars =>
        [\A n \in AllNames :
           ~Free(symbols[n]) =>
             /\ symbols'[n].expr = symbols[n].expr
             /\ symbols'[n].section = symbols[n].section
             /\ symbols[n].type # "UNDEFINED" => symbols'[n].type = symbols[n].type]_vars
  BY StepFinal DEF FinalSymbols
<1> QED BY <1>1, Invariance, PTL DEF Spec, DefinitionsAreFinal

-----------------------------------------------------------------------------
\* Failures are reported.

Silent == error_count = 0 /\ warning_count = 0

\* Nothing has failed so far.
Clean ==
  /\ ok
  /\ \A n \in AllNames : symbols[n].type # "INVALID"
  /\ \A j \in 1 .. pc - 1 : ast[j].op \in {"data", "space", "align"} => ast[j].result.ok

Told == Silent => Clean

LEMMA ZeroSum ==
  ASSUME NEW count \in Nat, NEW more \in Nat
  PROVE  count + more = 0 => count = 0 /\ more = 0
OBVIOUS

LEMMA SameClean ==
  ASSUME Clean, UNCHANGED <<ok, symbols, ast, pc>>
  PROVE  Clean'
BY DEF Clean

LEMMA ResolvedClean ==
  ASSUME SymbolsOK, Clean, UNCHANGED <<ok, ast, pc>>,
         NEW n, NEW type, Resolves(n, type), type # "INVALID"
  PROVE  Clean'
<1>1. /\ \A m \in AllNames : m # n => symbols'[m] = symbols[m]
      /\ symbols'[n].type = type
  BY ResolveSymbol
<1> QED BY <1>1 DEF Clean

\* A return that gives no value is reported when it happens, if no operand failed.
LEMMA ReturnTold ==
  ASSUME Typed, NEW outcome, TypedOutcome(outcome), Return(outcome), Silent',
         outcome.ok \/ outcome.errors + outcome.warnings # 0
  PROVE  Silent /\ ok' /\ ast' = ast /\ pc' = pc
<1>1. PICK e, w : e = outcome.errors /\ w = outcome.warnings
  OBVIOUS
<1>2. /\ error_count' = error_count + e /\ warning_count' = warning_count + w
      /\ ok' = outcome.ok /\ ast' = ast /\ pc' = pc
  BY <1>1 DEF Return
<1>3. error_count \in Nat /\ warning_count \in Nat /\ e \in Nat /\ w \in Nat
  BY <1>1 DEF Typed, ControlOK, TypedOutcome
<1>4. error_count = 0 /\ e = 0 /\ warning_count = 0 /\ w = 0
  BY <1>2, <1>3, ZeroSum DEF Silent
<1>5. e + w = 0
  BY <1>4
<1>6. outcome.ok
  BY <1>1, <1>5, Zenon
<1> QED BY <1>2, <1>4, <1>6 DEF Silent

LEMMA EvaluateValueTold ==
  ASSUME IInv, Told, EvaluateValue, Silent'
  PROVE  Clean'
<1>1. PICK i, outcome : i = Top.node /\ outcome = Checked("ABSOLUTE", heap[i].value, "")
  OBVIOUS
<1>2. PICK T, U : Consistent(T, U)
  BY DEF IInv
<1>3. /\ stack # <<>> /\ Return(outcome) /\ symbols' = symbols
  BY <1>1 DEF EvaluateValue, Return, InCall, Running
<1>4. Typed /\ Frames(T, U) /\ IsHeap(heap)
  BY <1>2 DEF IInv, Consistent, Typed
<1>5. heap[i].value \in Int
  BY <1>1, <1>3, <1>4, TopTypes, NodeTypes DEF Position
<1>6. IsOutcome(outcome, {"ABSOLUTE"}, {""})
  BY <1>1, <1>5, OutcomeTypes
<1>7. TypedOutcome(outcome) /\ (outcome.ok \/ outcome.errors + outcome.warnings # 0)
  <2>1. {"ABSOLUTE"} \subseteq HeapTypes /\ {""} \subseteq AllNames \cup {""}
    BY DEF HeapTypes
  <2> QED BY <1>6, <2>1, OutcomeFields
<1>8. Silent /\ ok' /\ ast' = ast /\ pc' = pc
  BY <1>3, <1>4, <1>7, ReturnTold
<1>9. Clean
  BY <1>8 DEF Told
<1> QED BY <1>3, <1>8, <1>9 DEF Clean

LEMMA EvaluateOperationTold ==
  ASSUME IInv, Told, EvaluateOperation, Silent'
  PROVE  Clean'
<1>1. PICK i, d, args, old : /\ i = Top.node /\ d = Top.done /\ args = Arguments(i, d)
                             /\ old = heap[i].value
  OBVIOUS
<1>2. PICK outcome : outcome = OperationOutcome(heap[i].op, args, old)
  OBVIOUS
<1>3. PICK T, U : Consistent(T, U)
  BY DEF IInv
<1>4. Typed
  BY DEF IInv
<1>5. symbols' = symbols /\ Return(outcome) /\ IsOutcome(outcome, Resolved, DefinedNames)
  BY <1>1, <1>2, <1>3, <1>4, OperationReturns
<1>6. TypedOutcome(outcome) /\ (outcome.ok \/ outcome.errors + outcome.warnings # 0)
  <2>1. Resolved \subseteq HeapTypes
    BY DEF HeapTypes, Resolved
  <2> QED BY <1>5, <2>1, NamesContain, OutcomeFields, Zenon
<1>7. Silent /\ ok' /\ ast' = ast /\ pc' = pc
  BY <1>4, <1>5, <1>6, ReturnTold
<1>8. Clean
  BY <1>7 DEF Told
<1> QED BY <1>5, <1>7, <1>8 DEF Clean

\* A node says nothing when an operand failed: the operand has been reported.
LEMMA FailWithOperandTold ==
  ASSUME IInv, Told, FailWithOperand, Silent'
  PROVE  FALSE
<1>1. PICK type, old : Return(Failed(type, old))
  BY DEF FailWithOperand
<1>2. PICK outcome : outcome = Failed(type, old)
  OBVIOUS
<1>3. outcome.errors = 0 /\ outcome.warnings = 0
  BY <1>2, Zenon DEF Failed, Outcome
<1>4. error_count' = error_count + 0 /\ warning_count' = warning_count + 0
  BY <1>1, <1>2, <1>3 DEF Return
<1>5. error_count \in Nat /\ warning_count \in Nat
  BY DEF IInv, Typed, ControlOK
<1>6. Silent
  BY <1>4, <1>5 DEF Silent
<1> QED BY <1>6 DEF Told, Clean, FailWithOperand

LEMMA EvaluateIdentifierTold ==
  ASSUME IInv, Told, EvaluateIdentifier, Silent'
  PROVE  Clean'
<1>1. PICK i, name, type, old : /\ i = Top.node /\ name = heap[i].name /\ type = TypeNow(name)
                                /\ old = heap[i].value
  OBVIOUS
<1>2. PICK outcome : outcome = IdentifierOutcome(type, old, name)
  OBVIOUS
<1>3. PICK T, U : Consistent(T, U)
  BY DEF IInv
<1>4. /\ Typed /\ SymbolsOK /\ Frames(T, U) /\ Marks(T, U) /\ IsHeap(heap)
      /\ error_count \in Nat /\ warning_count \in Nat
  BY <1>3 DEF IInv, Typed, ControlOK, Consistent
<1>5. /\ stack # <<>> /\ Running = heap[i] /\ heap[i].op = "identifier"
  BY <1>1 DEF EvaluateIdentifier, Return, InCall, Running
<1>6. Return(outcome)
  BY <1>1, <1>2, <1>5 DEF EvaluateIdentifier, IdentifierOutcome
<1>7. /\ name \in AllNames /\ i \in Position
      /\ type \in Resolved \cup {"INVALID", "UNDEFINED"}
      /\ \/ symbols' = symbols /\ type = symbols[name].type
         \/ Top.done = 1 /\ Resolves(name, type) /\ symbols[name].type = "UNDEFINED"
  BY <1>1, <1>3, <1>4, TypeOfSymbol
<1>8. PICK value, e, w : /\ value = SymbolValue(name)
                         /\ e = outcome.errors /\ w = outcome.warnings
  OBVIOUS
<1>9. /\ type = "UNDEFINED" => outcome = Refused(old)
      /\ type = "INVALID" => outcome = Failed("INVALID", old)
      /\ type \in Resolved => outcome = Settled(type, value, name)
  BY <1>2, <1>8, IdentifierCases
<1>10. /\ error_count' = error_count + e /\ warning_count' = warning_count + w
       /\ ok' = outcome.ok /\ ast' = ast /\ pc' = pc
  BY <1>6, <1>8 DEF Return
<1>11. type # "UNDEFINED"
  <2>1. SUFFICES ASSUME type = "UNDEFINED" PROVE FALSE
    OBVIOUS
  <2>2. outcome = Refused(old)
    BY <1>9, <2>1
  <2>3. outcome.errors = 1
    BY <2>2, Zenon DEF Refused, Outcome
  <2>4. e = 1
    BY <1>8, <2>3
  <2> QED BY <1>4, <1>10, <2>4 DEF Silent
<1>12. e = 0 /\ w = 0
  <2>1. CASE type \in Resolved
    <3>1. outcome = Settled(type, value, name)
      BY <1>9, <2>1
    <3>2. outcome.errors = 0 /\ outcome.warnings = 0
      BY <3>1, Zenon DEF Settled, Outcome
    <3> QED BY <1>8, <3>2
  <2>2. CASE type = "INVALID"
    <3>1. outcome = Failed(type, old)
      BY <1>9, <2>2
    <3>2. outcome.errors = 0 /\ outcome.warnings = 0
      BY <3>1, Zenon DEF Failed, Outcome
    <3> QED BY <1>8, <3>2
  <2> QED BY <1>7, <1>11, <2>1, <2>2
<1>13. Silent /\ Clean
  BY <1>4, <1>10, <1>12 DEF Silent, Told
<1>14. type # "INVALID"
  <2>1. CASE type = symbols[name].type
    BY <1>7, <1>13, <2>1 DEF Clean
  <2>2. CASE Top.done = 1 /\ Resolves(name, type)
    <3>1. Child(i, Top.done) = symbols[name].expr
      BY <1>1, <1>5 DEF Child
    <3>2. Verdict(T, U, symbols[name].expr)
      <4>1. Top.done > 0
        BY <2>2
      <4> QED BY <1>1, <1>4, <1>5, <3>1, <4>1 DEF Frames
    <3>3. symbols[name].expr \in T
      BY <1>13, <3>2 DEF Verdict, Clean
    <3>4. type = heap[symbols[name].expr].type
      BY <1>1, <2>2 DEF TypeNow, Resolves
    <3> QED BY <1>4, <3>3, <3>4 DEF Marks, Sound, Resolved
  <2> QED BY <1>7, <2>1, <2>2
<1>15. ok'
  <2>1. type \in Resolved
    BY <1>7, <1>11, <1>14
  <2>2. outcome.ok = TRUE
    <3>1. outcome = Settled(type, value, name)
      BY <1>9, <2>1
    <3> QED BY <3>1, SettledParts, Zenon
  <2> QED BY <1>10, <2>2
<1>16. ok' = ok
  BY <1>13, <1>15, <1>4 DEF Clean, IInv, Typed, ControlOK, TypedOutcome
<1> QED BY <1>4, <1>7, <1>10, <1>13, <1>14, <1>15, ResolvedClean DEF Clean

\* A line may mention a name or define it.
LEMMA LineTold ==
  ASSUME IInv, Told, NEW line \in Lines, ParseLine(line), Silent'
  PROVE  Clean'
<1>1. PICK n, expr : n = line.name /\ expr = line.expr
  OBVIOUS
<1>2. Typed /\ SymbolsOK /\ error_count \in Nat
  BY DEF IInv, Typed, ControlOK
<1>3. Reading /\ UNCHANGED <<ok, pc, warning_count>>
      /\ (error_count' = error_count \/ error_count' = error_count + 1)
  <2>1. CASE Dir_equ(line)
    <3>1. PICK free : free = Free(WithMentions(expr)[n])
      OBVIOUS
    <3>2. /\ Reading /\ UNCHANGED <<ok, pc, warning_count>>
          /\ error_count' = error_count + Count(~free)
      BY <1>1, <2>1, <3>1 DEF Dir_equ
    <3>3. Count(~free) = 0 \/ Count(~free) = 1
      BY DEF Count
    <3> QED BY <1>2, <3>2, <3>3
  <2>2. CASE SectionLine(line) \/ DefineLabel(line) \/ LabelTwice(line) \/ LabelAfterEqu(line)
    BY <2>2 DEF SectionLine, DefineLabel, LabelTwice, LabelAfterEqu, machine, reports
  <2>3. CASE Dir_byte(line) \/ Dir_align(line) \/ Dir_space(line)
    BY <2>3 DEF Dir_byte, Dir_align, Dir_space, Reserve, reports
  <2> QED BY <2>1, <2>2, <2>3 DEF ParseLine
<1>4. Silent /\ Clean
  BY <1>2, <1>3 DEF Silent, Told
<1>5. pc = 1
  BY <1>2, <1>3 DEF Typed, ControlOK, Reading
<1>6. SUFFICES \A m \in AllNames : symbols'[m].type # "INVALID"
  <2>1. 1 .. pc' - 1 = {}
    BY <1>3, <1>5
  <2> QED BY <1>3, <1>4, <2>1 DEF Clean
<1>7. \A m \in AllNames : symbols[m].type # "INVALID"
  BY <1>4 DEF Clean
<1>8. ASSUME NEW entries, entries = WithMentions(expr), IsExpression(expr)
      PROVE  \A m \in AllNames : entries[m].type # "INVALID"
  <2>1. /\ HereName \in AllNames /\ HereName \notin SymbolNames /\ symbols[HereName] = Absent
    BY <1>2, <1>3, ReadingTypes
  <2>2. ASSUME NEW m \in AllNames
        PROVE  entries[m].type # "INVALID"
    <3>1. PICK e : e = WithMentions(expr)[m]
      OBVIOUS
    <3>2. \/ e = symbols[m]
          \/ e = [type |-> "LABEL", section |-> current_section, expr |-> Root(expr) + 1]
          \/ e = [type |-> "UNDEFINED", section |-> 1, expr |-> 0]
      BY <1>2, <1>8, <2>1, <3>1, MentionedMoves
    <3>3. e.type # "INVALID"
      BY <1>7, <3>2
    <3> QED BY <1>8, <3>1, <3>3
  <2> QED BY <2>2
<1>9. CASE symbols' = symbols
  BY <1>7, <1>9
<1>10. CASE DefineLabel(line)
  <2>1. PICK e : /\ e = [type |-> "LABEL", section |-> current_section, expr |-> Len(heap) + 1]
                 /\ symbols' = [symbols EXCEPT ![n] = e]
    BY <1>1, <1>10 DEF DefineLabel
  <2>2. e.type # "INVALID"
    BY <2>1
  <2>3. \A m \in AllNames : symbols'[m] = IF m = n THEN e ELSE symbols[m]
    BY <1>2, <2>1 DEF SymbolsOK
  <2> QED BY <1>7, <2>2, <2>3
<1>11. CASE line.op \in Evaluating /\ symbols' = WithMentions(expr)
  <2>1. IsExpression(expr)
    BY <1>1, <1>11, LineTypes, Zenon
  <2>2. PICK entries : entries = WithMentions(expr)
    OBVIOUS
  <2> QED BY <1>8, <1>11, <2>1, <2>2
<1>12. CASE Dir_equ(line)
  <2>1. PICK entries, free, entry :
          /\ entries = WithMentions(expr) /\ free = Free(entries[n])
          /\ entry = [type |-> "UNDEFINED", section |-> current_section, expr |-> Root(expr)]
    OBVIOUS
  <2>2. /\ line.op = "equ"
        /\ symbols' = (IF ~free THEN entries ELSE [entries EXCEPT ![n] = entry])
    BY <1>1, <1>12, <2>1 DEF Dir_equ
  <2>3. IsExpression(expr)
    <3>1. line.op \in Evaluating
      BY <2>2 DEF Evaluating
    <3> QED BY <1>1, <3>1, LineTypes, Zenon
  <2>4. \A m \in AllNames : entries[m].type # "INVALID"
    BY <1>8, <2>1, <2>3
  <2>5. entries = [m \in AllNames |-> entries[m]]
    BY <2>1, Zenon DEF WithMentions
  <2>6. entry.type # "INVALID"
    BY <2>1
  <2>7. \A m \in AllNames : symbols'[m] = entries[m] \/ symbols'[m] = entry
    <3>1. CASE ~free
      BY <2>2, <3>1
    <3>2. CASE free
      <4>1. symbols' = [entries EXCEPT ![n] = entry]
        BY <2>2, <3>2
      <4> QED BY <2>5, <4>1
    <3> QED BY <3>1, <3>2
  <2> QED BY <2>4, <2>6, <2>7
<1>13. \/ symbols' = symbols
       \/ DefineLabel(line) \/ Dir_equ(line)
       \/ line.op \in Evaluating /\ symbols' = WithMentions(expr)
  <2>1. CASE SectionLine(line)
    BY <2>1 DEF SectionLine, machine
  <2>2. CASE LabelTwice(line)
    BY <2>2 DEF LabelTwice, machine
  <2>3. CASE LabelAfterEqu(line)
    BY <2>3 DEF LabelAfterEqu
  <2>4. CASE Dir_byte(line)
    BY <1>1, <2>4 DEF Dir_byte, Reserve, Evaluating
  <2>5. CASE Dir_align(line)
    BY <1>1, <2>5 DEF Dir_align, Reserve, Evaluating
  <2>6. CASE Dir_space(line)
    BY <1>1, <2>6 DEF Dir_space, Evaluating
  <2> QED BY <2>1, <2>2, <2>3, <2>4, <2>5, <2>6 DEF ParseLine
<1> QED BY <1>9, <1>10, <1>11, <1>12, <1>13

\* A visit keeps what the evaluation of its statement gave.
LEMMA VisitWrites ==
  ASSUME NEW T, NEW U, Typed, Consistent(T, U), FinishVisit
  PROVE  /\ pc \in 1 .. Len(ast) /\ pc' = pc + 1 /\ pc \in Nat
         /\ \A j \in 1 .. Len(ast) : j # pc => ast'[j] = ast[j]
         /\ ast'[pc].result.ok = ok
<1>1. PICK i, result, e :
        /\ i = Waiting.root
        /\ result = [ok |-> ok, type |-> heap[i].type, value |-> Low16(heap[i].value),
                     symbol |-> heap[i].symbol]
        /\ e = Visited(Waiting, result)
  OBVIOUS
<1>2. pending = "visit" /\ stack = <<>> /\ phase # "crashed"
  BY DEF FinishVisit, Returned
<1>3. Waiting = ast[pc] /\ This = Waiting
  BY <1>2 DEF Waiting, This
<1>4. ast' = [ast EXCEPT ![pc] = e] /\ pc' = pc + 1
  BY <1>1, <1>3 DEF FinishVisit, Visited
<1>5. ast \in Seq(StatementType) /\ ControlOK /\ phase = "generate" /\ ok \in BOOLEAN
  BY <1>2 DEF Typed, ControlOK, StatementsOK
<1>6. pc \in 1 .. Len(ast) /\ pc \in Nat /\ Len(ast) \in Nat
  BY <1>2, <1>5, ThisTypes DEF ControlOK
<1>7. /\ Waiting \in StatementType /\ heap[i].type \in HeapTypes
      /\ heap[i].value \in Int /\ heap[i].symbol \in AllNames \cup {""}
  BY <1>1, <1>2, ReturnedTypes
<1>8. result \in [ok : BOOLEAN, type : HeapTypes, value : Int, symbol : AllNames \cup {""}]
  <2>1. Low16(heap[i].value) \in Int
    BY <1>7, Low16Type, WordIsNumber
  <2> QED BY <1>1, <1>5, <1>7, <2>1, Zenon
<1>9. e \in StatementType /\ e.result = result
  <2>1. PICK st : st = Waiting
    OBVIOUS
  <2>2. Visited(st, result) \in StatementType /\ Visited(st, result).result = result
    BY <1>7, <1>8, <2>1, VisitedType, Zenon
  <2>3. e = Visited(st, result)
    BY <1>1, <2>1
  <2> QED BY <2>2, <2>3, Zenon
<1>10. ast'[pc] = e /\ \A j \in 1 .. Len(ast) : j # pc => ast'[j] = ast[j]
  BY <1>4, <1>5, <1>6, <1>9, PutElement DEF Put, IsPut
<1>11. result.ok = ok
  BY <1>1, Zenon
<1> QED BY <1>4, <1>6, <1>9, <1>10, <1>11

LEMMA FinishVisitTold ==
  ASSUME IInv, Told, FinishVisit, Silent'
  PROVE  Clean'
<1>1. PICK T, U : Consistent(T, U)
  BY DEF IInv
<1>2. PICK i, n, type, st, c :
        /\ i = Waiting.root /\ n = Waiting.name /\ type = heap[i].type /\ st = Waiting
        /\ c = Count((ok /\ heap[i].type = "LABEL") /\ This.op \in {"space", "align"})
  OBVIOUS
<1>3. Typed /\ SymbolsOK /\ Marks(T, U) /\ error_count \in Nat
  BY <1>1 DEF IInv, Typed, ControlOK, Consistent
<1>4. pending = "visit" /\ stack = <<>>
  BY DEF FinishVisit, Returned
<1>5. Waiting = ast[pc] /\ This = Waiting
  BY <1>4 DEF Waiting, This
<1>6. symbols' = (IF st.op = "equ" /\ st.live THEN [symbols EXCEPT ![n].type = type] ELSE symbols)
  BY <1>2, <1>5 DEF FinishVisit
<1>7. error_count' = error_count + c /\ warning_count' = warning_count /\ ok' = ok
  BY <1>2, <1>5 DEF FinishVisit
<1>8. c \in Nat
  BY <1>2, CountTypes
<1>9. Silent
  BY <1>3, <1>7, <1>8, ZeroSum DEF Silent
<1>10. Clean
  BY <1>9 DEF Told
<1>11. ok
  BY <1>10 DEF Clean
<1>12. type # "INVALID"
  <2>1. i \in T
    BY <1>1, <1>2, <1>3, <1>4, <1>11, ReturnedTypes
  <2> QED BY <1>2, <1>3, <2>1 DEF Marks, Sound, Resolved
<1>13. \A m \in AllNames : symbols'[m].type # "INVALID"
  <2>1. \A m \in AllNames : symbols[m].type # "INVALID"
    BY <1>10 DEF Clean
  <2>2. CASE st.op = "equ" /\ st.live
    <3>1. symbols' = [symbols EXCEPT ![n].type = type]
      BY <1>6, <2>2
    <3>2. Waiting.op = "equ" /\ Waiting.live
      BY <1>2, <2>2
    <3>3. Resolves(n, type)
      BY <1>1, <1>2, <1>3, <1>4, <3>1, <3>2, ReturnResolves
    <3>4. /\ \A m \in AllNames : m # n => symbols'[m] = symbols[m]
          /\ symbols'[n].type = type
      BY <1>3, <3>3, ResolveSymbol
    <3> QED BY <1>12, <2>1, <3>4
  <2> QED BY <1>6, <2>1, <2>2
<1>14. /\ pc \in 1 .. Len(ast) /\ pc' = pc + 1 /\ pc \in Nat
       /\ \A j \in 1 .. Len(ast) : j # pc => ast'[j] = ast[j]
       /\ ast'[pc].result.ok = ok
  BY <1>1, <1>3, VisitWrites
<1>15. ASSUME NEW j \in 1 .. pc' - 1, ast'[j].op \in {"data", "space", "align"}
       PROVE  ast'[j].result.ok
  <2>1. CASE j = pc
    BY <1>11, <1>14, <2>1
  <2>2. CASE j # pc
    <3>1. j \in 1 .. pc - 1 /\ ast'[j] = ast[j]
      BY <1>14, <2>2, LengthIsNat
    <3> QED BY <1>10, <1>15, <3>1 DEF Clean
  <2> QED BY <2>1, <2>2
<1> QED BY <1>7, <1>11, <1>13, <1>15 DEF Clean

LEMMA VisitNothingTold ==
  ASSUME IInv, Told, VisitNothing, Silent'
  PROVE  Clean'
<1>1. /\ phase = "generate" /\ pc <= Len(ast) /\ pc' = pc + 1
      /\ This.op \in {"section", "label", "equ"}
      /\ UNCHANGED <<symbols, ok, ast, error_count, warning_count>>
  BY DEF VisitNothing, Visiting, machine, reports
<1>2. Clean
  BY <1>1 DEF Told, Silent
<1>3. pc \in Nat
  BY <1>1, ThisTypes DEF IInv
<1>4. ASSUME NEW j \in 1 .. pc' - 1, ast[j].op \in {"data", "space", "align"}
      PROVE  ast[j].result.ok
  <2>1. j # pc
    BY <1>1, <1>4 DEF This
  <2>2. j \in 1 .. pc - 1
    BY <1>1, <1>3, <2>1
  <2> QED BY <1>2, <1>4, <2>2 DEF Clean
<1> QED BY <1>1, <1>2, <1>4 DEF Clean

\* The statements parsed have not been visited.
LEMMA FinishSpaceTold ==
  ASSUME IInv, Told, FinishSpace, Silent'
  PROVE  Clean'
<1>1. PICK c : c = Count(~ok)
  OBVIOUS
<1>2. /\ pending = "space" /\ error_count' = error_count + c
      /\ UNCHANGED <<symbols, ok, pc, warning_count>>
  BY <1>1 DEF FinishSpace, Returned, machine
<1>3. error_count \in Nat /\ c \in Nat
  BY <1>1, CountTypes DEF IInv, Typed, ControlOK
<1>4. Silent
  BY <1>2, <1>3, ZeroSum DEF Silent
<1>5. Clean
  BY <1>4 DEF Told
<1>6. pc = 1
  <2>1. phase = "parse" \/ phase = "crashed"
    BY <1>2 DEF IInv, Typed, ControlOK
  <2> QED BY <2>1 DEF IInv, Typed, ControlOK, FinishSpace, Returned
<1>7. 1 .. pc' - 1 = {}
  BY <1>2, <1>6
<1> QED BY <1>2, <1>5, <1>7 DEF Clean

LEMMA StepTold ==
  ASSUME IInv, Told, [Next]_vars
  PROVE  Told'
<1>1. SUFFICES ASSUME Silent' PROVE Clean'
  BY DEF Told
<1>2. ASSUME NEW line \in Lines, ParseLine(line)
      PROVE  Clean'
  BY <1>1, <1>2, LineTold
<1>3. CASE FinishLabel
  <2>1. error_count' = error_count + 1 /\ error_count \in Nat
    BY <1>3 DEF FinishLabel, IInv, Typed, ControlOK
  <2> QED BY <1>1, <2>1 DEF Silent
<1>4. CASE FinishSpace
  BY <1>1, <1>4, FinishSpaceTold
<1>5. CASE FinishVisit
  BY <1>1, <1>5, FinishVisitTold
<1>6. CASE VisitNothing
  BY <1>1, <1>6, VisitNothingTold
<1>7. CASE EvaluateValue
  BY <1>1, <1>7, EvaluateValueTold
<1>8. CASE EvaluateIdentifier
  BY <1>1, <1>8, EvaluateIdentifierTold
<1>9. CASE FailWithOperand
  BY <1>1, <1>9, FailWithOperandTold
<1>10. CASE EvaluateOperation
  BY <1>1, <1>10, EvaluateOperationTold
<1>11. CASE \/ EndOfFile \/ Descend \/ StackOverflow \/ VisitEvaluates \/ EndOfCode
            \/ UNCHANGED vars
  <2>1. UNCHANGED <<ok, symbols, ast, pc, error_count, warning_count>>
    BY <1>11 DEF EndOfFile, Descend, StackOverflow, VisitEvaluates, EndOfCode, vars, machine,
                 reports
  <2>2. Clean
    BY <1>1, <2>1 DEF Told, Silent
  <2> QED BY <2>1, <2>2, SameClean
<1> QED BY <1>2, <1>3, <1>4, <1>5, <1>6, <1>7, <1>8, <1>9, <1>10, <1>11 DEF Next, Evaluate

\* No failure goes unreported, although a symbol that failed is silent at its later
\* uses and a node is silent when its operand failed.
THEOREM FailuresAreTold == Spec => []FailuresAreReported
<1>1. Init => Told
  <2> SUFFICES ASSUME Init PROVE Told
    OBVIOUS
  <2>1. ok = TRUE /\ symbols = [n \in AllNames |-> Absent] /\ pc = 1
    BY DEF Init
  <2>2. 1 .. pc - 1 = {}
    BY <2>1
  <2>3. \A n \in AllNames : symbols[n].type # "INVALID"
    BY <2>1 DEF Absent
  <2> QED BY <2>1, <2>2, <2>3 DEF Told, Clean
<1>2. IInv /\ Told /\ [Next]_vars => Told'
  BY StepTold
<1>3. IInv /\ Told => FailuresAreReported
  <2> SUFFICES ASSUME IInv, Told PROVE FailuresAreReported
    OBVIOUS
  <2>1. error_count \in Nat /\ warning_count \in Nat
    BY DEF IInv, Typed, ControlOK
  <2>2. Silent \/ error_count + warning_count > 0
    BY <2>1 DEF Silent
  <2> QED BY <2>2 DEF FailuresAreReported, Told, Clean
<1> QED BY <1>1, <1>2, <1>3, Invariance, PTL DEF Spec
=============================================================================
