--------------------------- MODULE FrontEndProofs ---------------------------
(***************************************************************************)
(* Proofs about FrontEnd and the modules it extends, for sources and        *)
(* command lines of any length and any directives and instructions.         *)
(***************************************************************************)
EXTENDS FrontEnd, NumberLemmas, FiniteSetTheorems, SequenceTheorems

-----------------------------------------------------------------------------
\* Counting positions.

\* The numbers of S among the first p.
Upto(S, p) == Cardinality({i \in 1 .. p : i \in S})

LEMMA UptoIsFinite ==
  ASSUME NEW S, NEW p \in Nat
  PROVE  IsFiniteSet({i \in 1 .. p : i \in S})
<1>1. IsFiniteSet(1 .. p)
  BY FS_Interval
<1> QED BY <1>1, FS_Subset

LEMMA UptoType ==
  ASSUME NEW S, NEW p \in Nat
  PROVE  Upto(S, p) \in Nat
BY UptoIsFinite, FS_CardinalityType DEF Upto

LEMMA UptoZero == \A S : Upto(S, 0) = 0
<1> SUFFICES ASSUME NEW S PROVE Upto(S, 0) = 0
  OBVIOUS
<1>1. {i \in 1 .. 0 : i \in S} = {}
  OBVIOUS
<1> QED BY <1>1, FS_EmptySet DEF Upto

LEMMA UptoStep ==
  ASSUME NEW S, NEW p \in Nat
  PROVE  Upto(S, p + 1) = Upto(S, p) + IF p + 1 \in S THEN 1 ELSE 0
<1> DEFINE A == {i \in 1 .. p : i \in S}
<1>0. IsFiniteSet(A) /\ p + 1 \notin A
  BY UptoIsFinite
<1>1. IsFiniteSet(A) /\ Cardinality(A) \in Nat /\ p + 1 \notin A
  <2> HIDE DEF A
  <2> QED BY <1>0, FS_CardinalityType
<1>2. CASE p + 1 \in S
  <2>1. {i \in 1 .. p + 1 : i \in S} = A \cup {p + 1}
    BY <1>2
  <2>2. Cardinality(A \cup {p + 1}) = Cardinality(A) + 1
    <3> HIDE DEF A
    <3> QED BY <1>1, FS_AddElement
  <2> QED BY <1>2, <2>1, <2>2 DEF Upto
<1>3. CASE p + 1 \notin S
  <2>1. {i \in 1 .. p + 1 : i \in S} = A
    BY <1>3
  <2>2. Upto(S, p) + 0 = Upto(S, p)
    BY UptoType
  <2> QED BY <1>3, <2>1, <2>2 DEF Upto
<1> QED BY <1>2, <1>3

LEMMA UptoGrows ==
  ASSUME NEW S, NEW p \in Nat, NEW q \in Nat, p <= q
  PROVE  Upto(S, p) <= Upto(S, q)
<1>1. {i \in 1 .. p : i \in S} \subseteq {i \in 1 .. q : i \in S}
  OBVIOUS
<1>2. IsFiniteSet({i \in 1 .. q : i \in S})
  BY UptoIsFinite
<1> QED BY <1>1, <1>2, FS_Subset DEF Upto

LEMMA UptoNone ==
  ASSUME NEW S, NEW p \in Nat, NEW q \in Nat, p <= q,
         \A i \in p + 1 .. q : i \notin S
  PROVE  Upto(S, q) = Upto(S, p)
<1>1. {i \in 1 .. p : i \in S} = {i \in 1 .. q : i \in S}
  OBVIOUS
<1> QED BY <1>1 DEF Upto

LEMMA UptoMember ==
  ASSUME NEW S, NEW p \in Nat, S \subseteq 1 .. p
  PROVE  \A n \in S : Upto(S, n) = Cardinality({m \in S : m <= n})
<1> SUFFICES ASSUME NEW n \in S PROVE Upto(S, n) = Cardinality({m \in S : m <= n})
  OBVIOUS
<1>1. \A m \in S : m \in Nat \ {0}
  OBVIOUS
<1>2. n \in Nat
  BY <1>1
<1>3. \A m \in S : m <= n <=> m \in 1 .. n
  BY <1>1, <1>2
<1>4. {m \in S : m <= n} = {i \in 1 .. n : i \in S}
  BY <1>3, Zenon
<1> QED BY <1>4 DEF Upto

\* Two sets with the same numbers as far as p.
LEMMA UptoSame ==
  ASSUME NEW S, NEW T, NEW p \in Nat, \A i \in 1 .. p : i \in S <=> i \in T
  PROVE  Upto(S, p) = Upto(T, p)
<1>1. {i \in 1 .. p : i \in S} = {i \in 1 .. p : i \in T}
  OBVIOUS
<1> QED BY <1>1 DEF Upto

-----------------------------------------------------------------------------
\* Lines and columns of a text.

Chars == STRING \cup {NL}

Breaks(t) == {i \in DOMAIN t : t[i] = NL}

LEMMA NewlinesCounted ==
  ASSUME NEW t \in Seq(Chars)
  PROVE  NewlinesIn(t) = Upto(Breaks(t), Len(t)) /\ NewlinesIn(t) \in Nat
<1>1. {i \in DOMAIN t : t[i] = NL} = {i \in 1 .. Len(t) : i \in Breaks(t)}
  BY DEF Breaks
<1>2. Len(t) \in Nat
  OBVIOUS
<1> QED BY <1>1, <1>2, UptoType DEF NewlinesIn, Upto

\* The newlines of a lexeme are those counted up to its end and not before it.
LEMMA NewlinesBetween ==
  ASSUME NEW t \in Seq(Chars), NEW p \in Nat, NEW n \in Nat, p + n <= Len(t)
  PROVE  NewlinesIn(SubSeq(t, p + 1, p + n)) = Upto(Breaks(t), p + n) - Upto(Breaks(t), p)
<1> DEFINE s == SubSeq(t, p + 1, p + n)
           Good == {m \in Nat : m <= n =>
                      Upto(Breaks(t), p + m) = Upto(Breaks(t), p) + Upto(Breaks(s), m)}
<1>1. s \in Seq(Chars) /\ Len(s) = n /\ \A i \in 1 .. n : s[i] = t[p + i]
  BY SMTT(40)
<1>2. 0 \in Good
  <2>1. Upto(Breaks(t), p) + 0 = Upto(Breaks(t), p)
    BY UptoType
  <2> QED BY <2>1, UptoZero
<1>3. ASSUME NEW m \in Nat, m \in Good PROVE m + 1 \in Good
  <2> SUFFICES ASSUME m + 1 <= n
               PROVE  Upto(Breaks(t), p + (m + 1)) = Upto(Breaks(t), p) + Upto(Breaks(s), m + 1)
    OBVIOUS
  <2>1. Upto(Breaks(t), p + m) = Upto(Breaks(t), p) + Upto(Breaks(s), m)
    BY <1>3
  <2>2. p + m + 1 \in Breaks(t) <=> m + 1 \in Breaks(s)
    <3> HIDE DEF s
    <3>1. m + 1 \in 1 .. n /\ p + m + 1 \in 1 .. Len(t)
      OBVIOUS
    <3>2. DOMAIN s = 1 .. n /\ DOMAIN t = 1 .. Len(t)
      BY <1>1
    <3> QED BY <1>1, <3>1, <3>2 DEF Breaks
  <2> HIDE DEF s
  <2>3. Upto(Breaks(t), (p + m) + 1)
          = Upto(Breaks(t), p + m) + IF p + m + 1 \in Breaks(t) THEN 1 ELSE 0
    BY UptoStep
  <2>4. Upto(Breaks(s), m + 1)
          = Upto(Breaks(s), m) + IF m + 1 \in Breaks(s) THEN 1 ELSE 0
    BY UptoStep
  <2>5. /\ Upto(Breaks(t), p) \in Nat /\ Upto(Breaks(s), m) \in Nat
        /\ p + (m + 1) = (p + m) + 1
    BY UptoType
  <2> QED BY <2>1, <2>2, <2>3, <2>4, <2>5
<1>4. n \in Good
  <2> HIDE DEF Good
  <2> QED BY <1>2, <1>3, SetInduction
<1>5. Upto(Breaks(t), p + n) = Upto(Breaks(t), p) + Upto(Breaks(s), n)
  BY <1>4
<1>6. NewlinesIn(s) = Upto(Breaks(s), n) /\ NewlinesIn(s) \in Nat
  <2> HIDE DEF s
  <2> QED BY <1>1, NewlinesCounted
<1>7. Upto(Breaks(t), p) \in Nat
  BY UptoType
<1>8. NewlinesIn(s) = Upto(Breaks(t), p + n) - Upto(Breaks(t), p)
  <2> HIDE DEF s
  <2> QED BY <1>5, <1>6, <1>7
<1> QED BY <1>8


\* Line and column of piece i, as constants of the text.
LineAt(t, i) == 1 + Upto(Breaks(t), i - 1)

ColumnAt(t, i) == i - 1 - Max({0} \cup {k \in 1 .. i - 1 : t[k] = NL})

\* Nothing before piece p + 1 disturbs the columns.
Plain(t, p) == \A i \in 1 .. p : t[i] \notin {".global", "/*"}

\* A location or statement that says where a piece among the first p is.
Placed(t, s, p) ==
  /\ s.piece \in 1 .. p
  /\ s.line = LineAt(t, s.piece)
  /\ Plain(t, s.piece - 1) => s.first_column = ColumnAt(t, s.piece)

\* The location of an EOL has the line after it.
PlacedBelow(t, s, p) ==
  /\ s.piece \in 1 .. p
  /\ s.line = LineAt(t, s.piece) + 1
  /\ Plain(t, s.piece - 1) => s.first_column = ColumnAt(t, s.piece)

LEMMA LeastIs ==
  ASSUME NEW S, S \subseteq Nat, S # {}
  PROVE  Min(S) \in S /\ \A i \in S : Min(S) <= i
BY LeastNumber DEF Min

LEMMA GreatestIs ==
  ASSUME NEW S, NEW b \in Nat, S \subseteq 0 .. b, S # {}
  PROVE  Max(S) \in S /\ \A i \in S : i <= Max(S)
<1>1. PICK m \in S : \A i \in S : i <= m
  BY GreatestNumber
<1>2. \E x \in S : \A y \in S : x >= y
  BY <1>1
<1>3. Max(S) \in S /\ \A y \in S : Max(S) >= y
  BY <1>2, Zenon DEF Max
<1> QED BY <1>3

LEMMA LineType ==
  ASSUME NEW t, NEW i \in Nat \ {0}
  PROVE  LineAt(t, i) \in Nat \ {0}
<1>1. i - 1 \in Nat
  OBVIOUS
<1>2. Upto(Breaks(t), i - 1) \in Nat
  BY <1>1, UptoType
<1> QED BY <1>2 DEF LineAt

LEMMA LineGrows ==
  ASSUME NEW t, NEW i \in Nat \ {0}, NEW j \in Nat, i <= j
  PROVE  LineAt(t, i) <= LineAt(t, j)
<1>1. i - 1 \in Nat /\ j - 1 \in Nat /\ i - 1 <= j - 1
  OBVIOUS
<1>2. Upto(Breaks(t), i - 1) <= Upto(Breaks(t), j - 1)
  BY <1>1, UptoGrows
<1>3. Upto(Breaks(t), i - 1) \in Nat /\ Upto(Breaks(t), j - 1) \in Nat
  BY <1>1, UptoType
<1> QED BY <1>2, <1>3 DEF LineAt

\* A line ends at a newline, and only there.
LEMMA LineAfter ==
  ASSUME NEW t \in Seq(Chars), NEW p \in 1 .. Len(t)
  PROVE  LineAt(t, p + 1) = LineAt(t, p) + IF t[p] = NL THEN 1 ELSE 0
<1>1. p - 1 \in Nat /\ (p - 1) + 1 = p /\ (p + 1) - 1 = p
  OBVIOUS
<1>2. Upto(Breaks(t), p) = Upto(Breaks(t), p - 1) + IF p \in Breaks(t) THEN 1 ELSE 0
  <2>1. Upto(Breaks(t), (p - 1) + 1)
          = Upto(Breaks(t), p - 1) + IF (p - 1) + 1 \in Breaks(t) THEN 1 ELSE 0
    BY <1>1, UptoStep
  <2> QED BY <1>1, <2>1
<1>3. p \in Breaks(t) <=> t[p] = NL
  <2>1. DOMAIN t = 1 .. Len(t)
    OBVIOUS
  <2> QED BY <2>1 DEF Breaks
<1>4. Upto(Breaks(t), p - 1) \in Nat
  BY <1>1, UptoType
<1> QED BY <1>1, <1>2, <1>3, <1>4 DEF LineAt

LEMMA SameLine ==
  ASSUME NEW t \in Seq(Chars), NEW p \in Nat, NEW q \in Nat, p <= q, q <= Len(t),
         \A i \in p + 1 .. q : t[i] # NL
  PROVE  LineAt(t, q + 1) = LineAt(t, p + 1)
<1>1. \A i \in p + 1 .. q : i \notin Breaks(t)
  BY DEF Breaks
<1>2. Upto(Breaks(t), q) = Upto(Breaks(t), p)
  BY <1>1, UptoNone
<1>3. (q + 1) - 1 = q /\ (p + 1) - 1 = p
  OBVIOUS
<1> QED BY <1>2, <1>3 DEF LineAt

LEMMA ColumnType ==
  ASSUME NEW t, NEW i \in Nat \ {0}
  PROVE  ColumnAt(t, i) \in Nat
<1> DEFINE S == {0} \cup {k \in 1 .. i - 1 : t[k] = NL}
<1>1. S \subseteq 0 .. i - 1 /\ S # {} /\ i - 1 \in Nat
  OBVIOUS
<1>2. Max(S) \in 0 .. i - 1
  <2> HIDE DEF S
  <2> QED BY <1>1, GreatestIs
<1>3. ColumnAt(t, i) = i - 1 - Max(S)
  BY DEF ColumnAt
<1> HIDE DEF S
<1> QED BY <1>2, <1>3

LEMMA ColumnAfter ==
  ASSUME NEW t, NEW p \in Nat, NEW q \in Nat, p <= q,
         \A i \in p + 1 .. q : t[i] # NL
  PROVE  ColumnAt(t, q + 1) = ColumnAt(t, p + 1) + (q - p)
<1> DEFINE S == {0} \cup {k \in 1 .. p : t[k] = NL}
<1>1. S = {0} \cup {k \in 1 .. q : t[k] = NL}
  OBVIOUS
<1>2. S \subseteq 0 .. p /\ S # {}
  OBVIOUS
<1>3. Max(S) \in 0 .. p
  <2> HIDE DEF S
  <2> QED BY <1>2, GreatestIs
<1>4. (p + 1) - 1 = p /\ (q + 1) - 1 = q
  OBVIOUS
<1>5. ColumnAt(t, p + 1) = p - Max(S)
  BY <1>4 DEF ColumnAt
<1>6. ColumnAt(t, q + 1) = q - Max(S)
  BY <1>1, <1>4 DEF ColumnAt
<1> HIDE DEF S
<1> QED BY <1>3, <1>5, <1>6

LEMMA ColumnOfLineBegin ==
  ASSUME NEW t, NEW p \in Nat \ {0}, t[p] = NL
  PROVE  ColumnAt(t, p + 1) = 0
<1> DEFINE S == {0} \cup {k \in 1 .. p : t[k] = NL}
<1>1. S \subseteq 0 .. p /\ S # {} /\ p \in S
  OBVIOUS
<1>2. Max(S) = p
  <2> HIDE DEF S
  <2>1. Max(S) \in S /\ p <= Max(S)
    BY <1>1, GreatestIs
  <2>2. Max(S) \in 0 .. p
    BY <1>1, <2>1
  <2> QED BY <2>1, <2>2
<1>3. (p + 1) - 1 = p
  OBVIOUS
<1>4. ColumnAt(t, p + 1) = p - Max(S)
  BY <1>3 DEF ColumnAt
<1> HIDE DEF S
<1> QED BY <1>2, <1>4

\* What the properties say, in these terms.
LEMMA LineOfPiece ==
  ASSUME Text \in Seq(Chars), NEW i \in 1 .. Len(Text) + 1
  PROVE  LineOf(i) = LineAt(Text, i)
<1>1. 0 \in Nat /\ i - 1 \in Nat /\ 0 + (i - 1) <= Len(Text) /\ 0 + (i - 1) = i - 1
  OBVIOUS
<1>2. NewlinesIn(SubSeq(Text, 0 + 1, 0 + (i - 1)))
        = Upto(Breaks(Text), 0 + (i - 1)) - Upto(Breaks(Text), 0)
  BY <1>1, NewlinesBetween
<1>3. NewlinesIn(SubSeq(Text, 1, i - 1)) = Upto(Breaks(Text), i - 1) - 0
  BY <1>1, <1>2, UptoZero
<1>4. Upto(Breaks(Text), i - 1) \in Nat
  BY <1>1, UptoType
<1> QED BY <1>3, <1>4 DEF LineOf, LineAt

LEMMA ColumnOfPiece == \A i : ColumnOf(i) = ColumnAt(Text, i)
BY DEF ColumnOf, ColumnAt

-----------------------------------------------------------------------------
\* The text read.

Source == file \in Seq(STRING)

LEMMA TextIs ==
  ASSUME Source
  PROVE  /\ Text \in Seq(Chars) /\ Len(Text) \in Nat \ {0}
         /\ Text[Len(Text)] = NL
<1>1. file \in Seq(Chars) /\ Len(file) \in Nat
  BY DEF Source, Chars
<1>2. CASE file # <<>> /\ Last(file) = NL
  <2>1. Text = file
    BY <1>2 DEF Text
  <2>2. Len(file) > 0
    BY <1>1, <1>2
  <2> QED BY <1>1, <1>2, <2>1, <2>2 DEF Last
<1>3. CASE ~(file # <<>> /\ Last(file) = NL)
  <2>1. Text = Append(file, NL)
    BY <1>3, Zenon DEF Text
  <2>2. NL \in Chars
    BY DEF Chars
  <2> HIDE DEF Chars
  <2> QED BY <1>1, <2>1, <2>2
<1> QED BY <1>2, <1>3

\* The lines that yyerror can find are those of the text, and one more.
LEMMA LinesOfText ==
  ASSUME Source, NEW i \in 1 .. Len(Text) + 1
  PROVE  LineAt(Text, i) \in 1 .. SrcfileSize + 1
<1>1. file \in Seq(Chars) /\ Len(file) \in Nat /\ Text \in Seq(Chars) /\ Len(Text) \in Nat
  BY TextIs DEF Source, Chars
<1>2. NewlinesIn(file) = Upto(Breaks(file), Len(file)) /\ NewlinesIn(file) \in Nat
  BY <1>1, NewlinesCounted
<1>3. Upto(Breaks(Text), Len(Text)) <= NewlinesIn(file) + 1
  <2>1. CASE Text = file
    BY <1>2, <2>1
  <2>2. CASE Text = Append(file, NL)
    <3> DEFINE n == Len(file)
    <3>1. Len(Text) = n + 1 /\ \A j \in 1 .. n : Text[j] = file[j]
      BY <1>1, <2>2
    <3>2. Upto(Breaks(Text), n + 1)
            = Upto(Breaks(Text), n) + IF n + 1 \in Breaks(Text) THEN 1 ELSE 0
      BY <1>1, UptoStep
    <3>3. \A j \in 1 .. n : j \in Breaks(Text) <=> j \in Breaks(file)
      <4>1. DOMAIN Text = 1 .. n + 1 /\ DOMAIN file = 1 .. n
        BY <1>1, <3>1
      <4> SUFFICES ASSUME NEW j \in 1 .. n
                   PROVE  j \in Breaks(Text) <=> j \in Breaks(file)
        OBVIOUS
      <4>2. j \in DOMAIN Text /\ j \in DOMAIN file /\ Text[j] = file[j]
        BY <3>1, <4>1
      <4> QED BY <4>2 DEF Breaks
    <3>4. Upto(Breaks(Text), n) = Upto(Breaks(file), n)
      BY <1>1, <3>3, UptoSame
    <3> QED BY <1>2, <3>1, <3>2, <3>4
  <2> QED BY <2>1, <2>2 DEF Text
<1>4. i - 1 \in Nat /\ i - 1 <= Len(Text)
  BY <1>1
<1>5. Upto(Breaks(Text), i - 1) <= Upto(Breaks(Text), Len(Text))
  BY <1>1, <1>4, UptoGrows
<1>6. Upto(Breaks(Text), i - 1) \in Nat /\ Upto(Breaks(Text), Len(Text)) \in Nat
  BY <1>1, <1>4, UptoType
<1> QED BY <1>2, <1>3, <1>5, <1>6 DEF LineAt, SrcfileSize

\* A lexeme that goes to the end of its line has one newline, its last piece.
LEMMA EndOfLineFound ==
  ASSUME Source, position \in Nat, position < Len(Text), NEW n, n = ToEndOfLine
  PROVE  /\ n \in Nat \ {0} /\ position + n <= Len(Text)
         /\ Text[position + n] = NL
         /\ \A i \in position + 1 .. position + n - 1 : Text[i] # NL
<1> DEFINE S == {i \in position + 1 .. Len(Text) : Text[i] = NL}
<1>1. Len(Text) \in Nat /\ Text[Len(Text)] = NL
  BY TextIs
<1>2. S \subseteq Nat /\ Len(Text) \in S
  BY <1>1
<1>3. Min(S) \in S /\ \A i \in S : Min(S) <= i
  <2> HIDE DEF S
  <2> QED BY <1>2, LeastIs
<1>4. n = Min(S) - position
  BY DEF ToEndOfLine
<1>5. Min(S) \in position + 1 .. Len(Text) /\ Text[Min(S)] = NL
  BY <1>3
<1>6. \A i \in position + 1 .. Len(Text) : Text[i] = NL => Min(S) <= i
  BY <1>3
<1> HIDE DEF S
<1>7. position + n = Min(S) /\ n \in Nat \ {0}
  BY <1>1, <1>4, <1>5
<1> QED BY <1>1, <1>5, <1>6, <1>7

\* A run stops at a stop or the end of the text.
LEMMA RunFound ==
  ASSUME Source, position \in Nat, position < Len(Text), NEW stops, Piece \notin stops,
         NEW n, n = Run(stops)
  PROVE  /\ n \in Nat \ {0} /\ position + n <= Len(Text)
         /\ \A i \in position + 1 .. position + n : Text[i] \notin stops
<1> DEFINE S == {i \in position + 1 .. Len(Text) : Text[i] \in stops} \cup {Len(Text) + 1}
<1>1. Len(Text) \in Nat
  BY TextIs
<1>2. S \subseteq Nat /\ Len(Text) + 1 \in S
  BY <1>1
<1>3. Min(S) \in S /\ \A i \in S : Min(S) <= i
  <2> HIDE DEF S
  <2> QED BY <1>2, LeastIs
<1>4. n = Min(S) - position - 1
  BY DEF Run
<1>5. Min(S) \in position + 1 .. Len(Text) + 1 /\ Min(S) # position + 1
  <2>1. Min(S) \in position + 1 .. Len(Text) + 1
    BY <1>1, <1>3
  <2>2. position + 1 \notin S
    BY <1>1 DEF Piece
  <2> QED BY <1>3, <2>1, <2>2
<1>6. \A i \in position + 1 .. Len(Text) : Text[i] \in stops => Min(S) <= i
  BY <1>3
<1> HIDE DEF S
<1>7. position + n = Min(S) - 1 /\ n \in Nat \ {0}
  BY <1>1, <1>4, <1>5
<1> QED BY <1>1, <1>5, <1>6, <1>7

-----------------------------------------------------------------------------
\* The invariant of the parser: every statement says where its first token is,
\* and no two begin on one line.

Kinds == {"inst", "data", "space", "align", "equ", "label", "empty"}

StatementType ==
  {s \in [line : Nat, first_column : Nat, piece : Nat, kind : Kinds, offset : Nat, size : Nat] :
     /\ s.kind = "inst" => s.size = 2
     /\ s.kind \in {"equ", "label", "empty"} => s.size = 0}

Tokens == {"label", "statement", "ascii", "string", "EOL"}

LocationType == [line : Nat, first_column : Nat, last_column : Int, piece : Nat]

\* All statements begin above the line.
Below(line) == \A k \in DOMAIN ast : ast[k].line < line

ParseOK ==
  /\ expected \subseteq Tokens
  /\ "string" \in expected => statement.kind = "data"
  /\ statement \in StatementType /\ reserved \in Nat
  /\ statement # NoStatement =>
       Placed(Text, statement, position) /\ Below(statement.line)
  /\ ast \in Seq(StatementType) /\ Below(LineAt(Text, position + 1))
  /\ \A k \in DOMAIN ast : Placed(Text, ast[k], position)
  /\ \A j, k \in DOMAIN ast : j < k => ast[j].line < ast[k].line

LEMMA PlacedLater ==
  ASSUME NEW t, NEW s, NEW p \in Nat, NEW q \in Nat, p <= q, Placed(t, s, p)
  PROVE  Placed(t, s, q)
BY DEF Placed

LEMMA SameParse ==
  ASSUME Source, ParseOK, UNCHANGED <<file, expected, statement, ast, reserved>>,
         position \in Nat, position' \in Nat, position <= position'
  PROVE  ParseOK'
<1>1. Text' = Text
  BY DEF Text
<1>2. LineAt(Text, position + 1) <= LineAt(Text, position' + 1)
  BY LineGrows
<1>3. LineAt(Text, position + 1) \in Nat /\ LineAt(Text, position' + 1) \in Nat
  BY LineType
<1>4. ASSUME NEW k \in DOMAIN ast
      PROVE  ast[k].line < LineAt(Text, position' + 1)
  <2>1. ast[k].line < LineAt(Text, position + 1) /\ ast[k] \in StatementType
    BY DEF ParseOK, Below
  <2>2. ast[k].line \in Nat
    BY <2>1 DEF StatementType
  <2> QED BY <1>2, <1>3, <2>1, <2>2
<1>5. statement # NoStatement => Placed(Text, statement, position')
  BY PlacedLater DEF ParseOK
<1>6. \A k \in DOMAIN ast : Placed(Text, ast[k], position')
  BY PlacedLater DEF ParseOK
<1>7. /\ expected \subseteq Tokens
      /\ "string" \in expected => statement.kind = "data"
      /\ statement \in StatementType /\ reserved \in Nat
      /\ statement # NoStatement => Below(statement.line)
      /\ ast \in Seq(StatementType)
      /\ \A j, k \in DOMAIN ast : j < k => ast[j].line < ast[k].line
  BY DEF ParseOK
<1> QED BY <1>1, <1>4, <1>5, <1>6, <1>7 DEF ParseOK, Below

LEMMA ReservesType ==
  ASSUME reserved \in Nat, NEW piece \in DOMAIN Statements
  PROVE  /\ Statements[piece].kind \in Kinds
         /\ Reserves(Statements[piece].kind, Statements[piece].size) \in Nat
         /\ Statements[piece].kind = "inst" =>
              Reserves(Statements[piece].kind, Statements[piece].size) = 2
         /\ Statements[piece].kind \in {"equ", "label", "empty"} =>
              Reserves(Statements[piece].kind, Statements[piece].size) = 0
<1> DEFINE s == Statements[piece]
<1>1. /\ s \in [kind : {"inst", "data", "space", "align", "equ"}, size : Nat]
      /\ s.kind = "inst" => s.size = 2
      /\ s.kind = "align" => s.size > 0
      /\ s.kind = "equ" => s.size = 0
  BY StatementsAssumption
<1> HIDE DEF s
<1>2. /\ s.size \in Nat
      /\ s.kind \in {"inst", "data", "space", "align", "equ"}
  BY <1>1
<1>3. CASE s.kind = "align"
  <2>1. s.size \in Nat \ {0}
    BY <1>1, <1>2, <1>3
  <2>2. reserved % s.size \in 0 .. s.size - 1
    BY <2>1, QuotientAndRest
  <2>3. s.size - (reserved % s.size) \in Int
    BY <2>1, <2>2
  <2>4. (s.size - (reserved % s.size)) % s.size \in 0 .. s.size - 1
    BY <2>1, <2>3, QuotientAndRest
  <2>5. (s.size - (reserved % s.size)) % s.size \in Nat
    BY <2>1, <2>4
  <2> QED BY <1>3, <2>5 DEF Reserves, Kinds, s
<1>4. CASE s.kind # "align"
  BY <1>1, <1>2, <1>4 DEF Reserves, Kinds, s
<1> QED BY <1>3, <1>4

\* A statement that begins at a location, in hand from then on.
LEMMA BeginKeeps ==
  ASSUME Source, ParseOK, file' = file, position \in Nat, position' \in Nat, position <= position',
         NEW location \in LocationType, Placed(Text, location, position'),
         Below(location.line), ast' = ast,
         statement' \in StatementType, statement'.piece = location.piece,
         statement'.line = location.line, statement'.first_column = location.first_column,
         expected' \subseteq Tokens, "string" \in expected' => statement'.kind = "data",
         reserved' \in Nat
  PROVE  ParseOK'
<1>1. Text' = Text
  BY DEF Text
<1>2. Placed(Text, statement', position')
  BY DEF Placed
<1>3. /\ LineAt(Text, position + 1) <= LineAt(Text, position' + 1)
      /\ LineAt(Text, position + 1) \in Nat /\ LineAt(Text, position' + 1) \in Nat
  BY LineGrows, LineType
<1>4. ASSUME NEW k \in DOMAIN ast
      PROVE  ast[k].line < LineAt(Text, position' + 1) /\ Placed(Text, ast[k], position')
  <2>1. /\ ast[k].line < LineAt(Text, position + 1) /\ ast[k] \in StatementType
        /\ Placed(Text, ast[k], position)
    BY DEF ParseOK, Below
  <2>2. ast[k].line \in Nat
    BY <2>1 DEF StatementType
  <2> QED BY <1>3, <2>1, <2>2, PlacedLater
<1>5. /\ ast \in Seq(StatementType)
      /\ \A j, k \in DOMAIN ast : j < k => ast[j].line < ast[k].line
  BY DEF ParseOK
<1> QED BY <1>1, <1>2, <1>4, <1>5 DEF ParseOK, Below

LEMMA NoStatementIs ==
  /\ NoStatement \in StatementType /\ NoStatement.kind = "empty"
  /\ NoStatement = [line |-> NoStatement.line, first_column |-> NoStatement.first_column,
                    piece |-> NoStatement.piece, kind |-> NoStatement.kind,
                    offset |-> NoStatement.offset, size |-> NoStatement.size]
  /\ NoStatement.piece = 0 /\ NoStatement.size = 0 /\ NoStatement.offset = 0
BY DEF NoStatement, StatementType, Kinds

\* The statement that ends is added to the others.
LEMMA EndKeeps ==
  ASSUME Source, ParseOK, file' = file, position \in Nat, position' \in Nat \ {0},
         position <= position', position' <= Len(Text), Text[position'] = NL,
         NEW s \in StatementType, Placed(Text, s, position'), Below(s.line),
         ast' = Append(ast, s), statement' = NoStatement,
         expected' \subseteq Tokens, "string" \notin expected', reserved' = reserved
  PROVE  ParseOK' /\ ast' # <<>>
<1>1. Text' = Text
  BY DEF Text
<1>2. /\ LineAt(Text, s.piece) \in Nat /\ LineAt(Text, position') \in Nat
      /\ LineAt(Text, s.piece) <= LineAt(Text, position')
      /\ LineAt(Text, position' + 1) = LineAt(Text, position') + 1
      /\ s.line = LineAt(Text, s.piece)
  <2>1. s.piece \in 1 .. position' /\ s.line = LineAt(Text, s.piece)
    BY DEF Placed
  <2>2. Text \in Seq(Chars) /\ position' \in 1 .. Len(Text)
    BY TextIs
  <2>3. s.piece \in Nat \ {0} /\ s.piece <= position'
    BY <2>1
  <2>4. LineAt(Text, position' + 1) = LineAt(Text, position') + IF Text[position'] = NL THEN 1 ELSE 0
    BY <2>2, LineAfter
  <2>5. LineAt(Text, s.piece) <= LineAt(Text, position')
    BY <2>3, LineGrows
  <2> QED BY <2>1, <2>3, <2>4, <2>5, LineType
<1>3. ast \in Seq(StatementType) /\ Len(ast) \in Nat
  BY DEF ParseOK
<1>4. /\ ast' \in Seq(StatementType) /\ DOMAIN ast' = 1 .. Len(ast) + 1
      /\ DOMAIN ast = 1 .. Len(ast)
      /\ \A k \in DOMAIN ast : ast'[k] = ast[k]
      /\ ast'[Len(ast) + 1] = s /\ ast' # <<>>
  BY <1>3
<1>5. ASSUME NEW k \in DOMAIN ast
      PROVE  ast[k].line < s.line /\ ast[k].line \in Nat /\ Placed(Text, ast[k], position')
  <2>1. ast[k].line < s.line /\ ast[k] \in StatementType /\ Placed(Text, ast[k], position)
    BY DEF ParseOK, Below
  <2> QED BY <2>1, PlacedLater DEF StatementType
<1>6. ASSUME NEW k \in DOMAIN ast'
      PROVE  ast'[k].line < LineAt(Text, position' + 1) /\ Placed(Text, ast'[k], position')
  <2>1. CASE k \in DOMAIN ast
    <3>1. ast'[k] = ast[k]
      BY <1>4, <2>1
    <3> QED BY <1>2, <1>5, <2>1, <3>1
  <2>2. CASE k = Len(ast) + 1
    <3>1. ast'[k] = s
      BY <1>4, <2>2
    <3> QED BY <1>2, <3>1
  <2> QED BY <1>3, <1>4, <2>1, <2>2
<1>7. ASSUME NEW j \in DOMAIN ast', NEW k \in DOMAIN ast', j < k
      PROVE  ast'[j].line < ast'[k].line
  <2>1. j \in DOMAIN ast /\ ast'[j] = ast[j]
    BY <1>3, <1>4, <1>7
  <2>2. CASE k \in DOMAIN ast
    <3>1. ast'[k] = ast[k]
      BY <1>4, <2>2
    <3>2. \A l, m \in DOMAIN ast : l < m => ast[l].line < ast[m].line
      BY DEF ParseOK
    <3> QED BY <1>7, <2>1, <2>2, <3>1, <3>2
  <2>3. CASE k = Len(ast) + 1
    BY <1>4, <1>5, <2>1, <2>3
  <2> QED BY <1>3, <1>4, <2>2, <2>3
<1> QED BY <1>1, <1>4, <1>6, <1>7, NoStatementIs DEF ParseOK, Below

LEMMA ParseKeeps ==
  ASSUME Source, ParseOK, file' = file, yyparse = "running",
         position \in Nat, position' \in Nat \ {0}, position <= position', position' <= Len(Text),
         NEW token \in Tokens \cup {"other"}, NEW piece, NEW location \in LocationType,
         Parse(token, piece, location),
         token # "EOL" => Placed(Text, location, position') /\ Below(location.line),
         token = "EOL" => /\ PlacedBelow(Text, location, position') /\ Below(location.line - 1)
                          /\ Text[position'] = NL,
         token = "statement" => piece \in DOMAIN Statements,
         token = "string" => piece \in Nat
  PROVE  /\ ParseOK'
         /\ \/ yyparse' = "running" /\ token # "other"
            \/ yyparse' = "abort"
            \/ /\ yyparse' = "exit"
               /\ report' = [number |-> location.line, text |-> TextOf(location.line, token)]
         /\ (token = "EOL" /\ yyparse' = "running") \/ ast # <<>> => ast' # <<>>
<1>1. CASE token \notin expected
  <2>1. /\ Yyerror(location, token)
        /\ UNCHANGED <<expected, statement, ast, reserved>>
    BY <1>1 DEF Parse, Yyerror
  <2>2. ParseOK'
    BY <2>1, SameParse
  <2>3. yyparse' = "abort"
        \/ (yyparse' = "exit"
            /\ report' = [number |-> location.line, text |-> TextOf(location.line, token)])
    BY <2>1 DEF Yyerror
  <2> QED BY <2>1, <2>2, <2>3
<1>2. CASE token \in expected
  <2>1. Shift(token, piece, location) /\ yyparse' = "running" /\ token \in Tokens
    BY <1>2 DEF Parse, ParseOK
  <2>2. token # "other"
    BY <2>1 DEF Tokens
  <2>3. /\ location.line \in Nat /\ location.first_column \in Nat /\ location.piece \in Nat
    BY DEF LocationType
  <2>4. CASE token = "label"
    <3>1. /\ statement' = [NoStatement EXCEPT !.kind = "label",
                             !.line = location.line, !.piece = location.piece,
                             !.first_column = location.first_column]
          /\ expected' = Beginning /\ UNCHANGED <<ast, reserved>>
      BY <2>1, <2>4 DEF Shift
    <3>2. statement' = [line |-> location.line, first_column |-> location.first_column,
                        piece |-> location.piece, kind |-> "label",
                        offset |-> 0, size |-> 0]
      BY <3>1 DEF NoStatement
    <3>3. statement' \in StatementType
      BY <2>3, <3>2 DEF StatementType, Kinds
    <3>4. expected' \subseteq Tokens /\ "string" \notin expected'
      BY <3>1 DEF Beginning, Tokens
    <3>5. reserved' \in Nat
      BY <3>1 DEF ParseOK
    <3>6. statement'.piece = location.piece /\ statement'.line = location.line
          /\ statement'.first_column = location.first_column
      BY <3>2
    <3>7. Placed(Text, location, position') /\ Below(location.line) /\ position' \in Nat /\ ast' = ast
      BY <2>4, <3>1
    <3>8. ParseOK'
      BY <3>3, <3>4, <3>5, <3>6, <3>7, BeginKeeps
    <3> QED BY <2>1, <2>2, <3>7, <3>8, <2>4
  <2>5. CASE token = "statement"
    <3> DEFINE kind == Statements[piece].kind
               size == Reserves(kind, Statements[piece].size)
    <3>1. /\ statement' = [line |-> location.line, first_column |-> location.first_column,
                           piece |-> location.piece, kind |-> kind, offset |-> reserved,
                           size |-> size]
          /\ reserved' = reserved + size
          /\ expected' = {"EOL"} /\ ast' = ast
      BY <2>1, <2>5 DEF Shift, Begin
    <3>2. /\ kind \in Kinds /\ size \in Nat /\ reserved \in Nat
          /\ kind = "inst" => size = 2
          /\ kind \in {"equ", "label", "empty"} => size = 0
      BY <2>5, ReservesType DEF ParseOK
    <3> HIDE DEF kind, size
    <3>3. statement' \in StatementType
      BY <2>3, <3>1, <3>2 DEF StatementType
    <3>4. expected' \subseteq Tokens /\ "string" \notin expected'
      BY <3>1 DEF Tokens
    <3>5. reserved' \in Nat
      BY <3>1, <3>2
    <3>6. statement'.piece = location.piece /\ statement'.line = location.line
          /\ statement'.first_column = location.first_column
      BY <3>1
    <3>7. Placed(Text, location, position') /\ Below(location.line) /\ position' \in Nat /\ ast' = ast
      BY <2>5, <3>1
    <3>8. ParseOK'
      BY <3>3, <3>4, <3>5, <3>6, <3>7, BeginKeeps
    <3> QED BY <2>1, <2>2, <3>7, <3>8, <2>5
  <2>6. CASE token = "ascii"
    <3>1. /\ statement' = [line |-> location.line, first_column |-> location.first_column,
                           piece |-> location.piece, kind |-> "data", offset |-> reserved,
                           size |-> Reserves("data", 0)]
          /\ reserved' = reserved + Reserves("data", 0)
          /\ expected' = {"string"} /\ ast' = ast
      BY <2>1, <2>6 DEF Shift, Begin
    <3>2. Reserves("data", 0) = 0 /\ reserved \in Nat
      BY DEF Reserves, ParseOK
    <3>3. statement' \in StatementType /\ statement'.kind = "data"
      BY <2>3, <3>1, <3>2 DEF StatementType, Kinds
    <3>4. expected' \subseteq Tokens
      BY <3>1 DEF Tokens
    <3>5. reserved' \in Nat
      BY <3>1, <3>2
    <3>6. statement'.piece = location.piece /\ statement'.line = location.line
          /\ statement'.first_column = location.first_column
      BY <3>1
    <3>7. Placed(Text, location, position') /\ Below(location.line) /\ position' \in Nat /\ ast' = ast
      BY <2>6, <3>1
    <3>8. ParseOK'
      BY <3>3, <3>4, <3>5, <3>6, <3>7, BeginKeeps
    <3> QED BY <2>1, <2>2, <3>7, <3>8, <2>6
  <2>7. CASE token = "string"
    <3>1. /\ statement' = [statement EXCEPT !.size = piece] /\ reserved' = reserved + piece
          /\ expected' = {"EOL"} /\ ast' = ast
      BY <2>1, <2>7 DEF Shift
    <3>2. statement.kind = "data" /\ statement \in StatementType /\ reserved \in Nat
      BY <1>2, <2>7 DEF ParseOK
    <3>3. /\ statement.line \in Nat /\ statement.first_column \in Nat /\ statement.piece \in Nat
          /\ statement.offset \in Nat
          /\ statement' = [line |-> statement.line, first_column |-> statement.first_column,
                           piece |-> statement.piece, kind |-> statement.kind,
                           offset |-> statement.offset, size |-> piece]
      BY <3>1, <3>2 DEF StatementType
    <3>4. statement' \in StatementType /\ statement' # NoStatement
      BY <2>7, <3>2, <3>3, NoStatementIs DEF StatementType, Kinds
    <3>5. statement # NoStatement
      BY <3>2, NoStatementIs
    <3>6. Placed(Text, statement, position) /\ Below(statement.line)
      BY <3>5 DEF ParseOK
    <3> DEFINE l == [line |-> statement.line, first_column |-> statement.first_column,
                     last_column |-> 0, piece |-> statement.piece]
    <3>7. l \in LocationType /\ l.line = statement.line /\ l.piece = statement.piece
          /\ l.first_column = statement.first_column
      BY <3>3 DEF LocationType
    <3> HIDE DEF l
    <3>8. Placed(Text, l, position') /\ Below(l.line)
      <4>1. Placed(Text, l, position)
        BY <3>6, <3>7 DEF Placed
      <4>2. position' \in Nat
        OBVIOUS
      <4> QED BY <3>6, <3>7, <4>1, <4>2, PlacedLater
    <3>9. /\ statement'.piece = l.piece /\ statement'.line = l.line
          /\ statement'.first_column = l.first_column
      BY <3>3, <3>7
    <3>10. expected' \subseteq Tokens /\ "string" \notin expected' /\ reserved' \in Nat
           /\ position' \in Nat /\ ast' = ast
      BY <3>1, <3>2, <2>7 DEF Tokens
    <3>11. ParseOK'
      BY <3>4, <3>7, <3>8, <3>9, <3>10, BeginKeeps
    <3> QED BY <2>1, <2>2, <3>10, <3>11, <2>7
  <2>8. CASE token = "EOL"
    <3>0. PICK blank : blank = [NoStatement EXCEPT !.line = EmptyLine(location),
                                  !.first_column = location.first_column,
                                  !.piece = location.piece]
      OBVIOUS
    <3> DEFINE s == IF statement # NoStatement THEN statement ELSE blank
    <3>1. /\ ast' = Append(ast, s) /\ statement' = NoStatement
          /\ expected' = Beginning \cup {"label"} /\ reserved' = reserved
      BY <2>1, <2>8, <3>0 DEF Shift
    <3>2. blank = [line |-> location.line - 1, first_column |-> location.first_column,
                   piece |-> location.piece, kind |-> "empty", offset |-> 0, size |-> 0]
      BY <3>0 DEF NoStatement, EmptyLine
    <3>3. /\ location.piece \in 1 .. position'
          /\ location.line = LineAt(Text, location.piece) + 1
          /\ Plain(Text, location.piece - 1) =>
               location.first_column = ColumnAt(Text, location.piece)
          /\ Below(location.line - 1)
      BY <2>8 DEF PlacedBelow
    <3>4. LineAt(Text, location.piece) \in Nat
      BY <3>3, LineType
    <3>5. location.line - 1 = LineAt(Text, location.piece)
      BY <3>3, <3>4
    <3>6. blank.line = LineAt(Text, location.piece) /\ blank.piece = location.piece
          /\ blank.first_column = location.first_column
      BY <3>2, <3>5
    <3>7. blank \in StatementType
      <4>1. location.line - 1 \in Nat
        BY <3>4, <3>5
      <4> QED BY <2>3, <3>2, <4>1 DEF StatementType, Kinds
    <3>8. Placed(Text, blank, position') /\ Below(blank.line)
      BY <3>3, <3>5, <3>6 DEF Placed
    <3>9. s \in StatementType /\ Placed(Text, s, position') /\ Below(s.line)
      <4>1. CASE statement = NoStatement
        BY <3>7, <3>8, <4>1
      <4>2. CASE statement # NoStatement
        <5>1. s = statement
          BY <4>2
        <5>2. statement \in StatementType /\ Placed(Text, statement, position) /\ Below(statement.line)
          BY <4>2 DEF ParseOK
        <5>3. Placed(Text, statement, position')
          BY <5>2, PlacedLater
        <5> QED BY <5>1, <5>2, <5>3
      <4> QED BY <4>1, <4>2
    <3>10. expected' \subseteq Tokens /\ "string" \notin expected'
      BY <3>1 DEF Beginning, Tokens
    <3> HIDE DEF s
    <3>11. ParseOK' /\ ast' # <<>>
      BY <2>8, <3>1, <3>9, <3>10, EndKeeps
    <3> QED BY <2>1, <2>2, <3>11
  <2> QED BY <2>1, <2>4, <2>5, <2>6, <2>7, <2>8 DEF Tokens
<1> QED BY <1>1, <1>2

-----------------------------------------------------------------------------
\* The invariant of the lexer.

Starts == {"INITIAL", "COMMENT", "STRING"}

\* A syntax error was shown with the line of its token.
ErrorOK ==
  yyparse = "exit" /\ start = "INITIAL" =>
    /\ position \in 1 .. Len(Text)
    /\ Text[position] = NL =>
         yylloc.piece \in 1 .. Len(Text) /\ report.text = LineAt(Text, yylloc.piece)
    /\ Text[position] # NL =>
         report.text = LineAt(Text, position) /\ report.number = report.text

\* Where the lexer is while the parser runs: yylineno and yycolumn are those of
\* the next piece, and yylloc is right for the EOL that ends a text whose last
\* line was ignored.
Running ==
  /\ Plain(Text, position) => yycolumn = ColumnAt(Text, position + 1)
  /\ position > 0 /\ yycolumn = 0 => ast # <<>>
  /\ start = "INITIAL" /\ position > 0 /\ yycolumn > 0 /\ Text[position] = NL =>
       PlacedBelow(Text, yylloc, position) /\ Below(yylloc.line - 1)

LexOK ==
  /\ Source
  /\ position \in 0 .. Len(Text) /\ yycolumn \in Nat
  /\ yylineno = LineAt(Text, position + 1) /\ yylloc \in LocationType
  /\ start \in Starts /\ yyparse \in {"running", "accepted", "exit", "abort"}
  /\ start = "COMMENT" => ~Plain(Text, position)
  /\ start = "STRING" => \E i \in 1 .. position : Text[i] = Quote
  /\ yyparse = "running" => Running
  /\ yyparse = "accepted" => ast # <<>>
  /\ ErrorOK

ScanInv == LexOK /\ ParseOK

LEMMA PlainBefore ==
  ASSUME NEW t, NEW p \in Nat, NEW q \in Nat, p <= q, Plain(t, q)
  PROVE  Plain(t, p)
BY DEF Plain

LEMMA LocationIs ==
  ASSUME LexOK, NEW n \in Nat \ {0}, position + n <= Len(Text)
  PROVE  /\ Location(n) \in LocationType
         /\ Location(n).line = LineAt(Text, position + n + 1)
         /\ Location(n).piece = position + 1 /\ Location(n).first_column = yycolumn
<1>1. position \in Nat /\ yycolumn \in Nat /\ Text \in Seq(Chars)
      /\ yylineno = LineAt(Text, position + 1)
  BY TextIs DEF LexOK
<1>2. NewlinesIn(SubSeq(Text, position + 1, position + n))
        = Upto(Breaks(Text), position + n) - Upto(Breaks(Text), position)
  BY <1>1, NewlinesBetween
<1>3. /\ Upto(Breaks(Text), position + n) \in Nat
      /\ Upto(Breaks(Text), position) \in Nat
      /\ (position + 1) - 1 = position /\ (position + n + 1) - 1 = position + n
  BY <1>1, UptoType
<1>4. yylineno = 1 + Upto(Breaks(Text), position)
      /\ LineAt(Text, position + n + 1) = 1 + Upto(Breaks(Text), position + n)
  BY <1>1, <1>3 DEF LineAt
<1>5. yylineno + NewlinesIn(SubSeq(Text, position + 1, position + n))
        = LineAt(Text, position + n + 1)
  BY <1>2, <1>3, <1>4
<1>6. Location(n) = [line |-> LineAt(Text, position + n + 1),
                     first_column |-> yycolumn, last_column |-> yycolumn + n - 1,
                     piece |-> position + 1]
  BY <1>5, Zenon DEF Location
<1>7. LineAt(Text, position + n + 1) \in Nat
  BY <1>3, <1>4
<1> QED BY <1>1, <1>6, <1>7 DEF LocationType

LEMMA LexemeKeeps ==
  ASSUME LexOK, yyparse = "running",
         NEW n \in Nat \ {0}, position + n <= Len(Text), NEW column \in Nat, Match(n, column),
         start' \in Starts, yyparse' \in {"running", "exit", "abort"},
         start' = "COMMENT" => ~Plain(Text, position + n),
         start' = "STRING" => \E i \in 1 .. position + n : Text[i] = Quote,
         yyparse' = "running" /\ Plain(Text, position + n) =>
           column = ColumnAt(Text, position + n + 1),
         yyparse' = "running" /\ column = 0 => ast' # <<>>,
         yyparse' = "running" /\ start' = "INITIAL" /\ column > 0 /\ Text[position + n] = NL =>
           PlacedBelow(Text, Location(n), position + n)
           /\ \A k \in DOMAIN ast' : ast'[k].line < Location(n).line - 1,
         ErrorOK'
  PROVE  LexOK'
<1>1. /\ file' = file /\ position' = position + n /\ yycolumn' = column
      /\ yylloc' = Location(n) /\ yylineno' = Location(n).line
  BY DEF Match
<1>2. Text' = Text
  BY <1>1 DEF Text
<1>3. /\ Location(n) \in LocationType
      /\ Location(n).line = LineAt(Text, position + n + 1)
  BY LocationIs
<1>4. Source' /\ position' \in 0 .. Len(Text)
  BY <1>1 DEF LexOK, Source
<1>5. yyparse' = "running" => Running'
  <2> SUFFICES ASSUME yyparse' = "running" PROVE Running'
    OBVIOUS
  <2>1. Plain(Text, position') => yycolumn' = ColumnAt(Text, position' + 1)
    BY <1>1
  <2>2. yycolumn' = 0 => ast' # <<>>
    BY <1>1
  <2>3. start' = "INITIAL" /\ yycolumn' > 0 /\ Text[position'] = NL =>
          PlacedBelow(Text, yylloc', position') /\ Below(yylloc.line - 1)'
    BY <1>1 DEF Below
  <2> QED BY <1>2, <2>1, <2>2, <2>3 DEF Running
<1>6. /\ start' = "COMMENT" => ~Plain(Text, position')
      /\ start' = "STRING" => \E i \in 1 .. position' : Text[i] = Quote
      /\ yylineno' = LineAt(Text, position' + 1) /\ yylloc' \in LocationType
      /\ yycolumn' \in Nat
  BY <1>1, <1>3
<1> QED BY <1>2, <1>4, <1>5, <1>6 DEF LexOK

\* A lexeme that is no token.
LEMMA SkipKeeps ==
  ASSUME ScanInv, yyparse = "running",
         NEW n \in Nat \ {0}, position + n <= Len(Text), Skip(n), start' \in Starts,
         start' = "COMMENT" => ~Plain(Text, position + n),
         start' = "STRING" => \E i \in 1 .. position + n : Text[i] = Quote,
         Plain(Text, position + n) => \A i \in position + 1 .. position + n : Text[i] # NL,
         start' = "INITIAL" /\ Text[position + n] = NL =>
           PlacedBelow(Text, Location(n), position + n) /\ Below(Location(n).line - 1)
  PROVE  ScanInv'
<1>1. /\ Match(n, yycolumn + n)
      /\ UNCHANGED <<expected, statement, ast, reserved, report, yyparse>>
  BY DEF Skip, parseVars
<1>2. position' = position + n /\ file' = file /\ position \in Nat /\ yycolumn \in Nat /\ Running
  BY <1>1 DEF Match, ScanInv, LexOK
<1>3. ASSUME Plain(Text, position + n)
      PROVE  yycolumn + n = ColumnAt(Text, position + n + 1)
  <2>1. Plain(Text, position)
    BY <1>2, <1>3, PlainBefore
  <2>2. yycolumn = ColumnAt(Text, position + 1)
    BY <1>2, <2>1 DEF Running
  <2>3. \A i \in position + 1 .. position + n : Text[i] # NL
    BY <1>3
  <2>4. ColumnAt(Text, position + n + 1) = ColumnAt(Text, position + 1) + ((position + n) - position)
    <3>1. position + n \in Nat /\ position <= position + n
      BY <1>2
    <3> QED BY <1>2, <2>3, <3>1, ColumnAfter
  <2> QED BY <1>2, <2>2, <2>4
<1>4. ErrorOK'
  BY <1>1 DEF ErrorOK
<1>5. yycolumn + n \in Nat /\ yycolumn + n # 0
  BY <1>2
<1>6. start' = "INITIAL" /\ Text[position + n] = NL =>
        /\ PlacedBelow(Text, Location(n), position + n)
        /\ \A k \in DOMAIN ast' : ast'[k].line < Location(n).line - 1
  BY <1>1 DEF Below
<1>7. LexOK'
  BY <1>1, <1>3, <1>4, <1>5, <1>6, LexemeKeeps DEF ScanInv
<1>8. position' \in Nat /\ position <= position' /\ Source
  BY <1>2 DEF ScanInv, LexOK
<1>9. ParseOK'
  BY <1>1, <1>2, <1>8, SameParse DEF ScanInv
<1> QED BY <1>7, <1>9 DEF ScanInv

\* Tokens that are no EOL.
LEMMA TokenKeeps ==
  ASSUME ScanInv, yyparse = "running", position < Len(Text), Text[position + 1] # NL,
         NEW token \in {"label", "statement", "ascii", "string", "other"}, NEW piece,
         Match(1, yycolumn + 1), Parse(token, piece, Location(1)),
         token = "statement" => piece \in DOMAIN Statements,
         token = "string" => piece \in Nat,
         start' = "INITIAL"
  PROVE  ScanInv'
<1>1. /\ position \in Nat /\ position + 1 <= Len(Text) /\ Source /\ Text \in Seq(Chars)
      /\ yycolumn \in Nat /\ Running /\ Len(Text) \in Nat
  BY TextIs DEF ScanInv, LexOK
<1>2. file' = file /\ position' = position + 1 /\ yylloc' = Location(1)
  BY DEF Match
<1>3. /\ Location(1) \in LocationType /\ Location(1).line = LineAt(Text, position + 1 + 1)
      /\ Location(1).piece = position + 1 /\ Location(1).first_column = yycolumn
  BY <1>1, LocationIs DEF ScanInv
<1>4. LineAt(Text, position + 1 + 1) = LineAt(Text, position + 1)
      /\ LineAt(Text, position + 1) \in Nat
  <2>1. LineAt(Text, (position + 1) + 1)
          = LineAt(Text, position + 1) + IF Text[position + 1] = NL THEN 1 ELSE 0
    BY <1>1, LineAfter
  <2>2. LineAt(Text, position + 1) \in Nat
    BY <1>1, LineType
  <2> QED BY <2>1, <2>2
<1>5. Placed(Text, Location(1), position')
  <2>1. Plain(Text, (position + 1) - 1) => yycolumn = ColumnAt(Text, position + 1)
    BY <1>1 DEF Running
  <2> QED BY <1>1, <1>2, <1>3, <1>4, <2>1 DEF Placed
<1>6. Below(Location(1).line)
  BY <1>3, <1>4 DEF ScanInv, ParseOK
<1>7. token \in Tokens \cup {"other"} /\ token # "EOL"
  BY DEF Tokens
<1>8. /\ ParseOK'
      /\ \/ yyparse' = "running" /\ token # "other"
         \/ yyparse' = "abort"
         \/ /\ yyparse' = "exit"
            /\ report' = [number |-> Location(1).line, text |-> TextOf(Location(1).line, token)]
  <2>1. ParseOK /\ position' \in Nat \ {0} /\ position <= position' /\ position' <= Len(Text)
    BY <1>1, <1>2 DEF ScanInv
  <2> QED BY <1>1, <1>2, <1>3, <1>5, <1>6, <1>7, <2>1, ParseKeeps
<1>9. ErrorOK'
  <2> SUFFICES ASSUME yyparse' = "exit"
               PROVE  /\ position' \in 1 .. Len(Text)
                      /\ Text[position'] # NL
                      /\ report'.text = LineAt(Text, position')
                      /\ report'.number = report'.text
    <3>1. Text' = Text
      BY <1>2 DEF Text
    <3> QED BY <3>1 DEF ErrorOK
  <2>1. report' = [number |-> Location(1).line, text |-> Location(1).line]
    BY <1>7, <1>8 DEF TextOf
  <2> QED BY <1>1, <1>2, <1>3, <1>4, <2>1
<1>10. ASSUME Plain(Text, position + 1)
       PROVE  yycolumn + 1 = ColumnAt(Text, position + 1 + 1)
  <2>1. Plain(Text, position)
    BY <1>1, <1>10, PlainBefore
  <2>2. yycolumn = ColumnAt(Text, position + 1)
    BY <1>1, <2>1 DEF Running
  <2>3. \A i \in position + 1 .. position + 1 : Text[i] # NL
    BY <1>1
  <2>4. ColumnAt(Text, (position + 1) + 1) = ColumnAt(Text, position + 1) + ((position + 1) - position)
    <3>1. position + 1 \in Nat /\ position <= position + 1
      BY <1>1
    <3> QED BY <1>1, <2>3, <3>1, ColumnAfter
  <2> QED BY <1>1, <2>2, <2>4
<1>11. yycolumn + 1 \in Nat /\ yycolumn + 1 # 0 /\ 1 \in Nat \ {0}
  BY <1>1
<1>12. start' \in Starts /\ yyparse' \in {"running", "exit", "abort"}
       /\ start' # "COMMENT" /\ start' # "STRING"
  BY <1>8 DEF Starts
<1>13. LexOK'
  BY <1>1, <1>9, <1>10, <1>11, <1>12, LexemeKeeps DEF ScanInv
<1> QED BY <1>8, <1>13 DEF ScanInv

LEMMA EndOfLineKeeps ==
  ASSUME ScanInv, EndOfLine
  PROVE  ScanInv'
<1> DEFINE n == ToEndOfLine
<1>1. /\ yyparse = "running" /\ position < Len(Text) /\ start' = start
      /\ start = "INITIAL" /\ Match(n, 0) /\ Parse("EOL", Piece, Location(n))
  BY DEF EndOfLine, In
<1>2. /\ position \in Nat /\ Source /\ Text \in Seq(Chars) /\ Len(Text) \in Nat
      /\ yycolumn \in Nat /\ Running
  BY <1>1, TextIs DEF ScanInv, LexOK
<1>3. /\ n \in Nat \ {0} /\ position + n <= Len(Text) /\ Text[position + n] = NL
      /\ \A i \in position + 1 .. position + n - 1 : Text[i] # NL
  BY <1>1, <1>2, EndOfLineFound
<1> HIDE DEF n
<1>4. file' = file /\ position' = position + n /\ yylloc' = Location(n) /\ Text' = Text
  BY <1>1 DEF Match, Text
<1>5. /\ Location(n) \in LocationType /\ Location(n).line = LineAt(Text, position + n + 1)
      /\ Location(n).piece = position + 1 /\ Location(n).first_column = yycolumn
  BY <1>3, LocationIs DEF ScanInv
<1>6. LineAt(Text, position + n + 1) = LineAt(Text, position + 1) + 1
  <2>1. position + n \in 1 .. Len(Text)
    BY <1>2, <1>3
  <2>2. LineAt(Text, (position + n) + 1)
          = LineAt(Text, position + n) + IF Text[position + n] = NL THEN 1 ELSE 0
    BY <1>2, <2>1, LineAfter
  <2>3. /\ position + n - 1 \in Nat /\ position <= position + n - 1
        /\ position + n - 1 <= Len(Text) /\ (position + n - 1) + 1 = position + n
    BY <1>2, <1>3
  <2>4. LineAt(Text, (position + n - 1) + 1) = LineAt(Text, position + 1)
    BY <1>2, <1>3, <2>3, SameLine
  <2> QED BY <1>3, <2>2, <2>3, <2>4
<1>7. LineAt(Text, position + 1) \in Nat
  BY <1>2, LineType
<1>8. PlacedBelow(Text, Location(n), position + n) /\ Below(Location(n).line - 1)
  <2>1. Plain(Text, (position + 1) - 1) => yycolumn = ColumnAt(Text, position + 1)
    BY <1>2 DEF Running
  <2>2. Below(LineAt(Text, position + 1)) /\ Location(n).line - 1 = LineAt(Text, position + 1)
    BY <1>5, <1>6, <1>7 DEF ScanInv, ParseOK
  <2>3. position + 1 \in 1 .. position + n
    BY <1>2, <1>3
  <2> QED BY <1>5, <1>6, <2>1, <2>2, <2>3 DEF PlacedBelow
<1>9. /\ ParseOK'
      /\ \/ yyparse' = "running"
         \/ yyparse' = "abort"
         \/ /\ yyparse' = "exit"
            /\ report' = [number |-> Location(n).line, text |-> TextOf(Location(n).line, "EOL")]
      /\ yyparse' = "running" => ast' # <<>>
  <2>1. ParseOK /\ position' \in Nat \ {0} /\ position <= position' /\ position' <= Len(Text)
    BY <1>2, <1>3, <1>4 DEF ScanInv
  <2>2. "EOL" \in Tokens \cup {"other"}
    BY DEF Tokens
  <2>3. PlacedBelow(Text, Location(n), position') /\ Text[position'] = NL
    BY <1>3, <1>4, <1>8
  <2> QED BY <1>1, <1>2, <1>4, <1>5, <1>8, <2>1, <2>2, <2>3, ParseKeeps
<1>10. ErrorOK'
  <2> SUFFICES ASSUME yyparse' = "exit"
               PROVE  /\ position' \in 1 .. Len(Text) /\ Text[position'] = NL
                      /\ yylloc'.piece \in 1 .. Len(Text)
                      /\ report'.text = LineAt(Text, yylloc'.piece)
    BY <1>4 DEF ErrorOK
  <2>1. report'.text = Location(n).line - 1
    BY <1>9 DEF TextOf
  <2> QED BY <1>2, <1>3, <1>4, <1>5, <1>6, <1>7, <2>1
<1>11. ColumnAt(Text, position + n + 1) = 0
  <2>1. position + n \in Nat \ {0}
    BY <1>2, <1>3
  <2> QED BY <1>3, <2>1, ColumnOfLineBegin
<1>12. start' \in Starts /\ yyparse' \in {"running", "exit", "abort"}
       /\ start' # "COMMENT" /\ start' # "STRING" /\ 0 \in Nat
  BY <1>1, <1>9 DEF Starts
<1>13. LexOK'
  BY <1>1, <1>3, <1>9, <1>10, <1>11, <1>12, LexemeKeeps DEF ScanInv
<1> QED BY <1>9, <1>13 DEF ScanInv

\* The lexemes that are no token, one by one.
LEMMA OnePiece ==
  ASSUME ScanInv, position < Len(Text)
  PROVE  /\ position \in Nat /\ 1 \in Nat \ {0} /\ position + 1 <= Len(Text)
         /\ Piece # NL => \A i \in position + 1 .. position + 1 : Text[i] # NL
         /\ Piece = "/*" => ~Plain(Text, position + 1)
         /\ Piece = Quote => \E i \in 1 .. position + 1 : Text[i] = Quote
<1>1. position \in Nat /\ Len(Text) \in Nat
  BY TextIs DEF ScanInv, LexOK
<1>2. Piece = Text[position + 1] /\ position + 1 \in 1 .. position + 1
  BY <1>1 DEF Piece
<1>3. Piece = "/*" => ~Plain(Text, position + 1)
  BY <1>2 DEF Plain
<1>4. \A i \in position + 1 .. position + 1 : i = position + 1
  BY <1>1
<1> QED BY <1>1, <1>2, <1>3, <1>4

LEMMA PiecesDiffer ==
  /\ NL \notin {" ", ".global", ";", "/*", "*/", ".ascii", "a:"} /\ Quote # NL
BY DEF NL, Quote

LEMMA WhiteKeeps ==
  ASSUME ScanInv, White \/ BeginComment \/ EndComment \/ BeginString
  PROVE  ScanInv'
<1>1. /\ yyparse = "running" /\ position < Len(Text) /\ Skip(1) /\ Piece # NL
      /\ \/ start' = "INITIAL"
         \/ start' = "COMMENT" /\ Piece = "/*"
         \/ start' = "STRING" /\ Piece = Quote
  BY PiecesDiffer DEF White, BeginComment, EndComment, BeginString, In
<1>2. start' \in Starts
  BY <1>1 DEF Starts
<1>3. /\ position \in Nat /\ 1 \in Nat \ {0} /\ position + 1 <= Len(Text)
      /\ \A i \in position + 1 .. position + 1 : Text[i] # NL
      /\ start' = "COMMENT" => ~Plain(Text, position + 1)
      /\ start' = "STRING" => \E i \in 1 .. position + 1 : Text[i] = Quote
  BY <1>1, OnePiece
<1>4. Text[position + 1] # NL
  BY <1>3
<1> QED BY <1>1, <1>2, <1>3, <1>4, SkipKeeps

LEMMA CommentKeeps ==
  ASSUME ScanInv, Comment
  PROVE  ScanInv'
<1> DEFINE n == Run({"*/"})
<1>1. /\ yyparse = "running" /\ position < Len(Text) /\ start = "COMMENT" /\ Piece \notin {"*/"}
      /\ Skip(n) /\ start' = start
  BY DEF Comment, In
<1>2. position \in Nat /\ Source /\ ~Plain(Text, position)
  BY <1>1 DEF ScanInv, LexOK
<1>3. n \in Nat \ {0} /\ position + n <= Len(Text)
  BY <1>1, <1>2, RunFound
<1> HIDE DEF n
<1>4. ~Plain(Text, position + n)
  <2>1. position + n \in Nat /\ position <= position + n
    BY <1>2, <1>3
  <2> QED BY <1>2, <2>1, PlainBefore
<1>5. start' \in Starts /\ start' # "INITIAL" /\ start' # "STRING"
  BY <1>1 DEF Starts
<1> QED BY <1>1, <1>3, <1>4, <1>5, SkipKeeps

LEMMA StringKeeps ==
  ASSUME ScanInv, String
  PROVE  ScanInv'
<1> DEFINE n == Run({Quote, NL})
<1>1. /\ yyparse = "running" /\ position < Len(Text) /\ start = "STRING"
      /\ Piece \notin {Quote, NL} /\ Skip(n) /\ start' = start
  BY DEF String, In
<1>2. position \in Nat /\ Source /\ \E i \in 1 .. position : Text[i] = Quote
  BY <1>1 DEF ScanInv, LexOK
<1>3. /\ n \in Nat \ {0} /\ position + n <= Len(Text)
      /\ \A i \in position + 1 .. position + n : Text[i] # NL
  BY <1>1, <1>2, RunFound
<1> HIDE DEF n
<1>4. \E i \in 1 .. position + n : Text[i] = Quote
  <2>1. PICK i \in 1 .. position : Text[i] = Quote
    BY <1>2
  <2>2. i \in 1 .. position + n
    BY <1>2, <1>3
  <2> QED BY <2>1, <2>2
<1>5. start' \in Starts /\ start' # "INITIAL" /\ start' # "COMMENT"
  BY <1>1 DEF Starts
<1> QED BY <1>1, <1>3, <1>4, <1>5, SkipKeeps

\* An ignored directive is where the EOL of a text it ends is put.
LEMMA IgnoredKeeps ==
  ASSUME ScanInv, Ignored
  PROVE  ScanInv'
<1> DEFINE n == ToEndOfLine
<1>1. /\ yyparse = "running" /\ position < Len(Text) /\ start = "INITIAL" /\ Piece = ".global"
      /\ Skip(n) /\ start' = start
  BY DEF Ignored, In
<1>2. /\ position \in Nat /\ Source /\ Text \in Seq(Chars) /\ Len(Text) \in Nat
      /\ yycolumn \in Nat /\ Running
  BY <1>1, TextIs DEF ScanInv, LexOK
<1>3. /\ n \in Nat \ {0} /\ position + n <= Len(Text) /\ Text[position + n] = NL
      /\ \A i \in position + 1 .. position + n - 1 : Text[i] # NL
  BY <1>1, <1>2, EndOfLineFound
<1> HIDE DEF n
<1>4. ~Plain(Text, position + n)
  <2>1. position + 1 \in 1 .. position + n /\ Text[position + 1] = ".global"
    BY <1>1, <1>2, <1>3 DEF Piece
  <2> QED BY <2>1 DEF Plain
<1>5. /\ Location(n) \in LocationType /\ Location(n).line = LineAt(Text, position + n + 1)
      /\ Location(n).piece = position + 1 /\ Location(n).first_column = yycolumn
  BY <1>3, LocationIs DEF ScanInv
<1>6. LineAt(Text, position + n + 1) = LineAt(Text, position + 1) + 1
  <2>1. position + n \in 1 .. Len(Text)
    BY <1>2, <1>3
  <2>2. LineAt(Text, (position + n) + 1)
          = LineAt(Text, position + n) + IF Text[position + n] = NL THEN 1 ELSE 0
    BY <1>2, <2>1, LineAfter
  <2>3. /\ position + n - 1 \in Nat /\ position <= position + n - 1
        /\ position + n - 1 <= Len(Text) /\ (position + n - 1) + 1 = position + n
    BY <1>2, <1>3
  <2>4. LineAt(Text, (position + n - 1) + 1) = LineAt(Text, position + 1)
    BY <1>2, <1>3, <2>3, SameLine
  <2> QED BY <1>3, <2>2, <2>3, <2>4
<1>7. LineAt(Text, position + 1) \in Nat
  BY <1>2, LineType
<1>8. PlacedBelow(Text, Location(n), position + n) /\ Below(Location(n).line - 1)
  <2>1. Plain(Text, (position + 1) - 1) => yycolumn = ColumnAt(Text, position + 1)
    BY <1>2 DEF Running
  <2>2. Below(LineAt(Text, position + 1)) /\ Location(n).line - 1 = LineAt(Text, position + 1)
    BY <1>5, <1>6, <1>7 DEF ScanInv, ParseOK
  <2>3. position + 1 \in 1 .. position + n
    BY <1>2, <1>3
  <2> QED BY <1>5, <1>6, <2>1, <2>2, <2>3 DEF PlacedBelow
<1>9. start' \in Starts /\ start' # "COMMENT" /\ start' # "STRING"
  BY <1>1 DEF Starts
<1> QED BY <1>1, <1>3, <1>4, <1>8, <1>9, SkipKeeps

LEMMA WordKeeps ==
  ASSUME ScanInv, Word
  PROVE  ScanInv'
<1>1. /\ yyparse = "running" /\ position < Len(Text) /\ start = "INITIAL" /\ start' = start
      /\ Piece # NL
      /\ Match(1, yycolumn + 1) /\ Parse(TokenOf(Piece), Piece, Location(1))
  BY DEF Word, In
<1>2. /\ TokenOf(Piece) \in {"label", "statement", "ascii", "string", "other"}
      /\ TokenOf(Piece) # "string"
      /\ TokenOf(Piece) = "statement" => Piece \in DOMAIN Statements
  BY DEF TokenOf
<1>3. Text[position + 1] # NL
  BY <1>1 DEF Piece
<1> QED BY <1>1, <1>2, <1>3, TokenKeeps

LEMMA EndStringKeeps ==
  ASSUME ScanInv, EndString
  PROVE  ScanInv'
<1>1. /\ yyparse = "running" /\ position < Len(Text) /\ start = "STRING" /\ Piece = Quote
      /\ start' = "INITIAL"
      /\ Match(1, yycolumn + 1) /\ Parse("string", position - LastQuote, Location(1))
  BY DEF EndString, In
<1>2. Text[position + 1] # NL
  BY <1>1, PiecesDiffer DEF Piece
<1>3. position - LastQuote \in Nat
  <2> DEFINE S == {i \in 1 .. position : Text[i] = Quote}
  <2>1. position \in Nat /\ S \subseteq 0 .. position /\ S # {}
    BY <1>1 DEF ScanInv, LexOK
  <2>2. Max(S) \in 0 .. position
    <3> HIDE DEF S
    <3>1. Max(S) \in S
      BY <2>1, GreatestIs
    <3> QED BY <2>1, <3>1
  <2>3. LastQuote = Max(S)
    BY DEF LastQuote
  <2> HIDE DEF S
  <2> QED BY <2>1, <2>2, <2>3
<1> QED BY <1>1, <1>2, <1>3, TokenKeeps

\* An error inside a comment or a string is not one of ErrorOK.
LEMMA UnterminatedStringKeeps ==
  ASSUME ScanInv, UnterminatedString
  PROVE  ScanInv'
<1>1. /\ yyparse = "running" /\ position < Len(Text) /\ start = "STRING" /\ start' = start
      /\ Match(1, yycolumn + 1) /\ Yyerror(Location(1), "none")
  BY DEF UnterminatedString, In
<1>2. /\ yyparse' \in {"exit", "abort"}
      /\ UNCHANGED <<expected, statement, ast, reserved>>
  BY <1>1 DEF Yyerror
<1>3. /\ position \in Nat /\ position + 1 <= Len(Text) /\ yycolumn \in Nat
      /\ Source /\ 1 \in Nat \ {0} /\ yycolumn + 1 \in Nat
      /\ \E i \in 1 .. position : Text[i] = Quote
  BY <1>1, TextIs DEF ScanInv, LexOK
<1>4. position' = position + 1 /\ file' = file
  BY <1>1 DEF Match
<1>5. \E i \in 1 .. position + 1 : Text[i] = Quote
  <2>1. PICK i \in 1 .. position : Text[i] = Quote
    BY <1>3
  <2>2. i \in 1 .. position + 1
    BY <1>3
  <2> QED BY <2>1, <2>2
<1>6. ErrorOK' /\ start' \in Starts /\ start' # "COMMENT"
  BY <1>1 DEF ErrorOK, Starts
<1>7. LexOK'
  BY <1>1, <1>2, <1>3, <1>5, <1>6, LexemeKeeps DEF ScanInv
<1>8. position' \in Nat /\ position <= position'
  BY <1>3, <1>4
<1>9. ParseOK'
  BY <1>2, <1>3, <1>4, <1>8, SameParse DEF ScanInv
<1> QED BY <1>7, <1>9 DEF ScanInv

LEMMA UnterminatedCommentKeeps ==
  ASSUME ScanInv, UnterminatedComment
  PROVE  ScanInv'
<1>1. /\ yyparse = "running" /\ start = "COMMENT" /\ Yyerror(yylloc, "none")
      /\ UNCHANGED <<file, position, start, yylineno, yycolumn, yylloc>>
  BY DEF UnterminatedComment, lexVars
<1>2. /\ yyparse' \in {"exit", "abort"}
      /\ UNCHANGED <<expected, statement, ast, reserved>>
  BY <1>1 DEF Yyerror
<1>3. Text' = Text
  BY <1>1 DEF Text
<1>4. ErrorOK'
  BY <1>1 DEF ErrorOK
<1>5. LexOK'
  BY <1>1, <1>2, <1>3, <1>4 DEF ScanInv, LexOK, Source
<1>6. position \in Nat /\ position' \in Nat /\ position <= position' /\ Source /\ ParseOK
  BY <1>1 DEF ScanInv, LexOK
<1>7. ParseOK'
  BY <1>1, <1>2, <1>6, SameParse
<1> QED BY <1>5, <1>7 DEF ScanInv

\* The EOL made at the end of the text is that of its last line, which was ignored.
LEMMA EndOfTextKeeps ==
  ASSUME ScanInv, EndOfText
  PROVE  ScanInv'
<1>1. /\ yyparse = "running" /\ position = Len(Text) /\ start = "INITIAL"
      /\ UNCHANGED <<file, position, start, yylineno, yylloc>>
  BY DEF EndOfText
<1>2. /\ position \in Nat \ {0} /\ Text[position] = NL /\ Source /\ Len(Text) \in Nat
      /\ yycolumn \in Nat /\ Running /\ yylloc \in LocationType
  BY <1>1, TextIs DEF ScanInv, LexOK
<1>3. Text' = Text
  BY <1>1 DEF Text
<1>4. CASE yycolumn > 0
  <2>1. yycolumn' = 0 /\ Parse("EOL", NL, yylloc)
    BY <1>4 DEF EndOfText, LineEnded
  <2>2. PlacedBelow(Text, yylloc, position) /\ Below(yylloc.line - 1)
    BY <1>1, <1>2, <1>4 DEF Running
  <2>3. /\ ParseOK'
        /\ \/ yyparse' = "running"
           \/ yyparse' = "abort"
           \/ /\ yyparse' = "exit"
              /\ report' = [number |-> yylloc.line, text |-> TextOf(yylloc.line, "EOL")]
        /\ yyparse' = "running" => ast' # <<>>
    <3>1. ParseOK /\ position' \in Nat \ {0} /\ position <= position' /\ position' <= Len(Text)
      BY <1>1, <1>2 DEF ScanInv
    <3>2. "EOL" \in Tokens \cup {"other"}
      BY DEF Tokens
    <3>3. PlacedBelow(Text, yylloc, position') /\ Text[position'] = NL
      BY <1>1, <1>2, <2>2
    <3> QED BY <1>1, <1>2, <2>1, <2>2, <3>1, <3>2, <3>3, ParseKeeps
  <2>4. ErrorOK'
    <3> SUFFICES ASSUME yyparse' = "exit"
                 PROVE  /\ position \in 1 .. Len(Text) /\ Text[position] = NL
                        /\ yylloc.piece \in 1 .. Len(Text)
                        /\ report'.text = LineAt(Text, yylloc.piece)
      BY <1>1, <1>3 DEF ErrorOK
    <3>1. report'.text = yylloc.line - 1
      BY <2>3 DEF TextOf
    <3>2. yylloc.piece \in 1 .. Len(Text) /\ yylloc.line = LineAt(Text, yylloc.piece) + 1
      BY <1>1, <2>2 DEF PlacedBelow
    <3>3. LineAt(Text, yylloc.piece) \in Nat
      BY <3>2, LineType
    <3> QED BY <1>1, <1>2, <3>1, <3>2, <3>3
  <2>5. yyparse' = "running" => Running'
    <3>1. ColumnAt(Text, position + 1) = 0
      BY <1>2, ColumnOfLineBegin
    <3> QED BY <1>1, <1>3, <2>1, <2>3, <3>1 DEF Running
  <2>6. yycolumn' \in Nat /\ yyparse' \in {"running", "exit", "abort"}
    BY <2>1, <2>3
  <2>7. LexOK'
    BY <1>1, <1>3, <2>4, <2>5, <2>6 DEF ScanInv, LexOK, Source
  <2> QED BY <2>3, <2>7 DEF ScanInv
<1>5. CASE yycolumn = 0
  <2>1. /\ yyparse' = "accepted"
        /\ UNCHANGED <<yycolumn, expected, statement, ast, reserved, report>>
    BY <1>5 DEF EndOfText
  <2>2. ast # <<>>
    BY <1>2, <1>5 DEF Running
  <2>3. ErrorOK'
    BY <2>1 DEF ErrorOK
  <2>4. LexOK'
    BY <1>1, <1>3, <2>1, <2>2, <2>3 DEF ScanInv, LexOK, Source
  <2>5. position' \in Nat /\ position <= position' /\ ParseOK
    BY <1>1, <1>2 DEF ScanInv
  <2>6. ParseOK'
    BY <1>1, <1>2, <2>1, <2>5, SameParse
  <2> QED BY <2>4, <2>6 DEF ScanInv
<1> QED BY <1>2, <1>4, <1>5

LEMMA ScanKeeps ==
  ASSUME ScanInv, Scan
  PROVE  ScanInv'
BY WhiteKeeps, IgnoredKeeps, EndOfLineKeeps, WordKeeps, CommentKeeps, StringKeeps,
   EndStringKeeps, UnterminatedStringKeeps, UnterminatedCommentKeeps, EndOfTextKeeps DEF Scan

LEMMA SameScan ==
  ASSUME ScanInv, UNCHANGED scannerVars
  PROVE  ScanInv'
<1>1. UNCHANGED <<file, position, start, yylineno, yycolumn, yylloc, expected, statement, ast,
                  reserved, report, yyparse>>
  BY DEF scannerVars, lexVars, parseVars
<1>2. Text' = Text
  BY <1>1 DEF Text
<1>3. ErrorOK'
  BY <1>1, <1>2 DEF ErrorOK, ScanInv, LexOK
<1>4. yyparse' = "running" => Running'
  BY <1>1, <1>2 DEF Running, Below, ScanInv, LexOK
<1>5. LexOK'
  BY <1>1, <1>2, <1>3, <1>4 DEF ScanInv, LexOK, Source
<1>6. position' \in Nat /\ position \in Nat /\ position <= position' /\ Source
  BY <1>1 DEF ScanInv, LexOK
<1>7. ParseOK'
  BY <1>1, <1>6, SameParse DEF ScanInv
<1> QED BY <1>5, <1>7 DEF ScanInv

LEMMA ScannerBegins ==
  ASSUME NEW source \in Seq(STRING), ScannerInit(source)
  PROVE  ScanInv
<1>1. Source
  BY DEF ScannerInit, Source
<1>2. LineAt(Text, 0 + 1) = 1
  <2>1. (0 + 1) - 1 = 0
    OBVIOUS
  <2>2. Upto(Breaks(Text), 0) = 0
    BY UptoZero
  <2> QED BY <2>1, <2>2 DEF LineAt
<1>3. ColumnAt(Text, 0 + 1) = 0
  <2>1. {0} \cup {k \in 1 .. (0 + 1) - 1 : Text[k] = NL} = {0}
    OBVIOUS
  <2>2. Max({0}) = 0
    <3>1. {0} \subseteq 0 .. 0 /\ {0} # {} /\ 0 \in Nat
      OBVIOUS
    <3>2. Max({0}) \in {0}
      BY <3>1, GreatestIs
    <3> QED BY <3>2
  <2> QED BY <2>1, <2>2 DEF ColumnAt
<1>4. /\ position = 0 /\ start = "INITIAL" /\ yylineno = 1 /\ yycolumn = 0
      /\ yylloc = [line |-> 1, first_column |-> 0, last_column |-> 0, piece |-> 0]
      /\ expected = Beginning \cup {"label"} /\ statement = NoStatement
      /\ ast = <<>> /\ reserved = 0 /\ yyparse = "running"
  BY DEF ScannerInit
<1>5. ErrorOK
  BY <1>4 DEF ErrorOK
<1>6. Running
  BY <1>3, <1>4 DEF Running
<1>7. LexOK
  BY <1>1, <1>2, <1>4, <1>5, <1>6, TextIs DEF LexOK, Starts, LocationType
<1>8. ParseOK
  BY <1>4, NoStatementIs DEF ParseOK, Below, Beginning, Tokens
<1> QED BY <1>7, <1>8 DEF ScanInv

-----------------------------------------------------------------------------
\* Scanning in every run of the program.

LEMMA ScanBegins ==
  ASSUME Init
  PROVE  ScanInv
<1>1. PICK i \in Inputs : OptionsInit(i.command) /\ ScannerInit(i.file)
  BY DEF Init
<1>2. i.file \in Seq(STRING)
  BY InputsAssumption
<1> QED BY <1>1, <1>2, ScannerBegins

LEMMA ScanStays ==
  ASSUME ScanInv, [Next]_vars
  PROVE  ScanInv'
<1>1. CASE ReadSource
  BY <1>1, ScanKeeps DEF ReadSource
<1>2. CASE UNCHANGED scannerVars
  BY <1>2, SameScan
<1>3. CASE Next /\ ~ReadSource
  BY <1>2, <1>3 DEF Next, ReadCommand, Help, OptionsRefused, EndOfOptions, SourceRefused,
     Assemble, WriteRows, EndOfListing, WriteImages
<1>4. CASE UNCHANGED vars
  BY <1>2, <1>4 DEF vars
<1> QED BY <1>1, <1>3, <1>4

\* What the lexer and the parser keep true of a source of any length: where
\* they are in it, the line and column they hold, the statements they have
\* built, each where it begins and no two of them on one line.
THEOREM SourceIsTracked == Spec => []ScanInv
<1>1. Init => ScanInv
  BY ScanBegins
<1>2. ScanInv /\ [Next]_vars => ScanInv'
  BY ScanStays
<1> QED BY <1>1, <1>2, PTL DEF Spec

\* Every statement of every source keeps the line on which it begins, a line
\* of its own, and the column unless an ignored directive or a block comment comes before it:
\* yylineno counts the newlines of each lexeme before yylloc is set from it.
THEOREM StatementsKeepTheirPlace == Spec => []StatementsNameTheirPlace
<1>1. ASSUME ScanInv
      PROVE  StatementsNameTheirPlace
  <2>1. Text \in Seq(Chars) /\ Len(Text) \in Nat /\ position \in 0 .. Len(Text)
    BY <1>1, TextIs DEF ScanInv, LexOK
  <2>2. ASSUME NEW k \in DOMAIN ast
        PROVE  /\ ast[k].line = LineOf(ast[k].piece)
               /\ {Text[i] : i \in 1 .. ast[k].piece - 1} \cap {".global", "/*"} = {} =>
                    ast[k].first_column = ColumnOf(ast[k].piece)
    <3>1. Placed(Text, ast[k], position)
      BY <1>1 DEF ScanInv, ParseOK
    <3>2. ast[k].piece \in 1 .. position /\ ast[k].line = LineAt(Text, ast[k].piece)
      BY <3>1 DEF Placed
    <3>3. ast[k].piece \in 1 .. Len(Text) + 1
      BY <2>1, <3>2
    <3>4. ast[k].line = LineOf(ast[k].piece)
      BY <2>1, <3>2, <3>3, LineOfPiece
    <3>5. ASSUME {Text[i] : i \in 1 .. ast[k].piece - 1} \cap {".global", "/*"} = {}
          PROVE  ast[k].first_column = ColumnOf(ast[k].piece)
      <4>1. Plain(Text, ast[k].piece - 1)
        BY <3>5, Zenon DEF Plain
      <4> QED BY <3>1, <4>1, ColumnOfPiece DEF Placed
    <3> QED BY <3>4, <3>5
  <2>3. \A j, k \in DOMAIN ast : j < k => ast[j].line < ast[k].line
    BY <1>1 DEF ScanInv, ParseOK
  <2> QED BY <2>2, <2>3 DEF StatementsNameTheirPlace
<1> QED BY <1>1, SourceIsTracked, PTL

\* yyerror shows the line of the token that cannot be shifted, and that of the
\* line that ends when the token is its end.
THEOREM ErrorsShowTheLine == Spec => []ErrorsShowTheirLine
<1>1. ASSUME ScanInv
      PROVE  ErrorsShowTheirLine
  <2>1. Text \in Seq(Chars) /\ Len(Text) \in Nat /\ ErrorOK
    BY <1>1, TextIs DEF ScanInv, LexOK
  <2> SUFFICES ASSUME yyparse = "exit", start = "INITIAL"
               PROVE  /\ report.text = LineOf(IF Text[position] = NL THEN yylloc.piece
                                              ELSE position)
                      /\ Text[position] # NL => report.number = report.text
    BY DEF ErrorsShowTheirLine
  <2>2. position \in 1 .. Len(Text)
    BY <2>1 DEF ErrorOK
  <2>3. CASE Text[position] = NL
    <3>1. yylloc.piece \in 1 .. Len(Text) /\ report.text = LineAt(Text, yylloc.piece)
      BY <2>1, <2>3 DEF ErrorOK
    <3>2. yylloc.piece \in 1 .. Len(Text) + 1
      BY <2>1, <3>1
    <3> QED BY <2>1, <2>3, <3>1, <3>2, LineOfPiece
  <2>4. CASE Text[position] # NL
    <3>1. report.text = LineAt(Text, position) /\ report.number = report.text
      BY <2>1, <2>4 DEF ErrorOK
    <3>2. position \in 1 .. Len(Text) + 1
      BY <2>1, <2>2
    <3> QED BY <2>1, <2>4, <3>1, <3>2, LineOfPiece
  <2> QED BY <2>3, <2>4
<1> QED BY <1>1, SourceIsTracked, PTL

-----------------------------------------------------------------------------
\* Options and their arguments.

CommandOK == /\ command \in Seq(Seq(STRING))
             /\ \A k \in DOMAIN command : IsToken(command[k])

LEMMA ShortAre ==
  /\ DOMAIN ShortOptions = {"h", "v", "l", "i", "o", "s", "f", "a"}
  /\ \A n \in {"h", "v", "l"} : ShortOptions[n] = Flag(n)
  /\ \A n \in {"i", "o", "s", "f", "a"} : ShortOptions[n] = Argument(n)
BY DEF ShortOptions

LEMMA LongAre ==
  /\ DOMAIN LongOptions = {"verbose", "help", "input", "output", "section", "format",
                           "addresses", "interleave"}
  /\ LongOptions["verbose"] = Flag("0") /\ LongOptions["help"] = Flag("h")
  /\ LongOptions["input"] = Argument("i") /\ LongOptions["output"] = Argument("o")
  /\ LongOptions["section"] = Argument("s") /\ LongOptions["format"] = Argument("f")
  /\ LongOptions["addresses"] = Argument("a") /\ LongOptions["interleave"] = Argument("l")
BY DEF LongOptions

\* An option with a char of its own takes an argument or does not; only l does
\* both.
LEMMA OptionIs ==
  ASSUME NEW t
  PROVE  \/ \E c \in {"h", "v", "l", "0", "?"} : Option(t) = Flag(c)
         \/ \E c \in {"i", "o", "s", "f", "a", "l"} : Option(t) = Argument(c)
<1> DEFINE known == IF t[1] = "-" THEN ShortOptions ELSE LongOptions
<1>1. Option(t) = IF t[2] \in DOMAIN known THEN known[t[2]] ELSE Flag("?")
  BY DEF Option
<1>2. CASE t[2] \notin DOMAIN known
  BY <1>1, <1>2
<1>3. CASE t[1] = "-" /\ t[2] \in DOMAIN ShortOptions
  <2>1. Option(t) = ShortOptions[t[2]]
    BY <1>1, <1>3
  <2> QED BY <1>3, <2>1, ShortAre
<1>4. CASE t[1] # "-" /\ t[2] \in DOMAIN LongOptions
  <2>1. Option(t) = LongOptions[t[2]]
    BY <1>1, <1>4
  <2> QED BY <1>4, <2>1, LongAre
<1> QED BY <1>2, <1>3, <1>4

LEMMA OptionTakes ==
  ASSUME NEW t
  PROVE  /\ Option(t).char \in {"i", "o", "s", "f", "a"} => Option(t).argument
         /\ Option(t).char \in {"h", "v", "0", "?"} => ~Option(t).argument
BY OptionIs DEF Flag, Argument

\* The function that ArgumentAt chooses, up to token n.
IsArgument(f, n) ==
  f = [i \in 1 .. n |-> i > 1 /\ IsOption(command[i - 1]) /\ ~f[i - 1]
                          /\ Option(command[i - 1]).argument]

LEMMA ArgumentExists ==
  ASSUME NEW m \in Nat
  PROVE  \E f : IsArgument(f, m)
<1> DEFINE Takes(i) == IsOption(command[i]) /\ Option(command[i]).argument
           S == {n \in Nat : \E f : IsArgument(f, n)}
<1>1. 0 \in S
  <2> DEFINE f == [i \in 1 .. 0 |-> FALSE]
  <2>1. f = [i \in 1 .. 0 |-> i > 1 /\ IsOption(command[i - 1]) /\ ~f[i - 1]
                                /\ Option(command[i - 1]).argument]
    OBVIOUS
  <2> QED BY <2>1 DEF IsArgument
<1>2. ASSUME NEW n \in Nat, n \in S
      PROVE  n + 1 \in S
  <2>1. PICK f : IsArgument(f, n)
    BY <1>2
  <2> DEFINE g == [i \in 1 .. n + 1 |->
                     IF i <= n THEN f[i] ELSE n > 0 /\ Takes(n) /\ ~f[n]]
  <2>2. DOMAIN f = 1 .. n /\ DOMAIN g = 1 .. n + 1
    BY <2>1 DEF IsArgument
  <2>3. \A i \in 1 .. n : g[i] = f[i]
    OBVIOUS
  <2>4. \A i \in 1 .. n : f[i] = (i > 1 /\ IsOption(command[i - 1]) /\ ~f[i - 1]
                                    /\ Option(command[i - 1]).argument)
    BY <2>1 DEF IsArgument
  <2>5. g[n + 1] = (n > 0 /\ Takes(n) /\ ~f[n])
    OBVIOUS
  <2> HIDE DEF g
  <2>6. ASSUME NEW i \in 1 .. n + 1
        PROVE  g[i] = (i > 1 /\ IsOption(command[i - 1]) /\ ~g[i - 1]
                         /\ Option(command[i - 1]).argument)
    <3>1. CASE i = n + 1
      <4>1. i - 1 = n /\ (n > 0 => g[n] = f[n])
        BY <2>3, <3>1
      <4> QED BY <2>5, <3>1, <4>1
    <3>2. CASE i # n + 1
      <4>1. i \in 1 .. n /\ (i > 1 => i - 1 \in 1 .. n)
        BY <3>2
      <4>2. i > 1 => g[i - 1] = f[i - 1]
        BY <2>3, <4>1
      <4> QED BY <2>3, <2>4, <4>1, <4>2
    <3> QED BY <3>1, <3>2
  <2>7. IsArgument(g, n + 1)
    <3>1. g = [i \in 1 .. n + 1 |-> g[i]]
      BY DEF g
    <3> QED BY <2>6, <3>1 DEF IsArgument
  <2> QED BY <2>7
<1> HIDE DEF S
<1>3. Nat \subseteq S
  BY <1>1, <1>2, SetInduction
<1>4. m \in S
  BY <1>3
<1> QED BY <1>4 DEF S

\* A token is the argument of the option before it unless that is one itself.
LEMMA ArgumentSteps ==
  ASSUME CommandOK
  PROVE  /\ ArgumentAt \subseteq 1 .. Len(command)
         /\ \A i \in 1 .. Len(command) :
              i \in ArgumentAt <=> /\ i > 1 /\ IsOption(command[i - 1])
                                   /\ Option(command[i - 1]).argument
                                   /\ i - 1 \notin ArgumentAt
<1> DEFINE n == Len(command)
           g == CHOOSE f : IsArgument(f, n)
<1>1. n \in Nat
  BY DEF CommandOK
<1> HIDE DEF n
<1>2. IsArgument(g, n)
  BY <1>1, ArgumentExists
<1>3. ArgumentAt = {i \in 1 .. n : g[i]}
  BY DEF ArgumentAt, IsArgument, n
<1> HIDE DEF g
<1>4. \A i \in 1 .. n : g[i] = (i > 1 /\ IsOption(command[i - 1]) /\ ~g[i - 1]
                                  /\ Option(command[i - 1]).argument)
  BY <1>2 DEF IsArgument
<1>5. ASSUME NEW i \in 1 .. n
      PROVE  i \in ArgumentAt <=> /\ i > 1 /\ IsOption(command[i - 1])
                                  /\ Option(command[i - 1]).argument
                                  /\ i - 1 \notin ArgumentAt
  <2>1. i > 1 => i - 1 \in 1 .. n
    BY <1>1
  <2> QED BY <1>3, <1>4, <2>1
<1> QED BY <1>3, <1>5 DEF n

-----------------------------------------------------------------------------
\* What was read before token p.

ArgumentsTo(c, p) == {i \in ArgumentsOf(c) : i < p}

OperandsTo(p) == {i \in GivenOperands : i < p}

InterleaveTo(p) == \E i \in 1 .. Len(command) \ ArgumentAt :
                     i < p /\ IsOption(command[i]) /\ Option(command[i]).char = "l"

LastTo(c, p, default) ==
  LET at == ArgumentsTo(c, p) IN IF at = {} THEN default ELSE command[Max(at)]

\* Token i is the first argument of -s for the section.
NamesFirst(i, name) ==
  /\ i \in ArgumentsOf("s") /\ command[i][1] = name
  /\ \A j \in ArgumentsOf("s") : command[j][1] = name => i <= j

\* The token getopt_long looks at.
OptindOK == /\ CommandOK
            /\ optind \in 1 .. Len(command) + 1
            /\ optind \notin ArgumentAt

LEMMA SameCommand ==
  ASSUME command' = command
  PROVE  /\ CommandOK' = CommandOK /\ ArgumentAt' = ArgumentAt
         /\ \A c : (ArgumentsOf(c))' = ArgumentsOf(c)
         /\ GivenOperands' = GivenOperands
<1>1. ArgumentAt' = ArgumentAt
  BY SMT DEF ArgumentAt
<1>2. CommandOK' = CommandOK
  BY DEF CommandOK
<1>3. \A c : (ArgumentsOf(c))' = ArgumentsOf(c)
  BY <1>1 DEF ArgumentsOf
<1>4. GivenOperands' = GivenOperands
  BY <1>1 DEF GivenOperands
<1> QED BY <1>1, <1>2, <1>3, <1>4

\* Every option takes its argument with it, and nothing else.
Takes == option_char # "?" /\ Option(command[optind]).argument

LEMMA OptionCharIs ==
  ASSUME OptindOK, optind <= Len(command)
  PROVE  /\ Takes => /\ option_char = Option(command[optind]).char
                     /\ optind < Len(command) /\ Option(command[optind]).argument
         /\ Option(command[optind]).argument /\ optind < Len(command) => Takes
         /\ option_char \in {"i", "o", "s", "f", "a"} => Takes
         /\ option_char \in {"h", "v", "0", "?"} => ~Takes
         /\ option_char # "?" => option_char = Option(command[optind]).char
<1>1. optind \in Nat /\ Len(command) \in Nat
  BY DEF OptindOK, CommandOK
<1>2. option_char = IF Option(command[optind]).argument /\ optind = Len(command) THEN "?"
                    ELSE Option(command[optind]).char
  BY DEF option_char
<1>3. /\ Option(command[optind]).char \in {"i", "o", "s", "f", "a"} =>
           Option(command[optind]).argument
      /\ Option(command[optind]).char \in {"h", "v", "0", "?"} =>
           ~Option(command[optind]).argument
  BY OptionTakes
<1> QED BY <1>1, <1>2, <1>3 DEF Takes

LEMMA OptionReads ==
  ASSUME OptindOK, optind <= Len(command), IsOption(command[optind]), Advance
  PROVE  /\ OptindOK' /\ optind < optind'
         /\ OperandsTo(optind') = OperandsTo(optind)
         /\ \A c : ArgumentsTo(c, optind') =
                     IF Takes /\ c = option_char THEN ArgumentsTo(c, optind) \cup {optind + 1}
                     ELSE ArgumentsTo(c, optind)
         /\ InterleaveTo(optind')
              <=> InterleaveTo(optind) \/ Option(command[optind]).char = "l"
<1> DEFINE A == ArgumentAt
           n == Len(command)
<1>1. optind \in 1 .. n /\ n \in Nat /\ optind \notin A
  BY DEF OptindOK, CommandOK
<1>2. /\ optind' = optind + (IF Takes THEN 2 ELSE 1) /\ command' = command
  BY DEF Advance, Takes
<1>3. /\ A \subseteq 1 .. n
      /\ \A i \in 1 .. n : i \in A <=> /\ i > 1 /\ IsOption(command[i - 1])
                                       /\ Option(command[i - 1]).argument /\ i - 1 \notin A
  BY ArgumentSteps DEF OptindOK
<1>4. A' = A /\ CommandOK' /\ n' = n
  BY <1>2, SameCommand DEF OptindOK
<1>5. Takes => optind + 1 \in A /\ optind < n /\ option_char = Option(command[optind]).char
  <2>1. Takes => optind < n /\ Option(command[optind]).argument
                 /\ option_char = Option(command[optind]).char
    BY OptionCharIs
  <2>2. (optind + 1) - 1 = optind
    BY <1>1
  <2> QED BY <1>1, <1>3, <2>1, <2>2
<1>6. optind' \notin A /\ optind' \in 1 .. n + 1
  <2>1. CASE Takes
    <3>1. optind' = optind + 2 /\ (optind + 2) - 1 = optind + 1
      BY <1>1, <1>2, <2>1
    <3> QED BY <1>1, <1>3, <1>5, <2>1, <3>1
  <2>2. CASE ~Takes
    <3>1. optind' = optind + 1 /\ (optind + 1) - 1 = optind
      BY <1>1, <1>2, <2>2
    <3>2. optind < n => ~Option(command[optind]).argument
      BY <2>2, OptionCharIs
    <3>3. optind + 1 \in A => optind + 1 \in 1 .. n
      BY <1>3
    <3> QED BY <1>1, <1>3, <3>1, <3>2, <3>3
  <2> QED BY <2>1, <2>2
<1>7. OptindOK'
  BY <1>4, <1>6 DEF OptindOK
<1>8. optind < optind' /\ optind' \in Nat
      /\ \A i \in 1 .. n : i < optind' <=> i < optind \/ i = optind \/ (Takes /\ i = optind + 1)
  BY <1>1, <1>2
<1>9. OperandsTo(optind') = OperandsTo(optind)
  BY <1>1, <1>5, <1>8 DEF OperandsTo, GivenOperands
<1>10. ASSUME NEW c
       PROVE  ArgumentsTo(c, optind') =
                IF Takes /\ c = option_char THEN ArgumentsTo(c, optind) \cup {optind + 1}
                ELSE ArgumentsTo(c, optind)
  <2>1. optind \notin ArgumentsOf(c) /\ ArgumentsOf(c) \subseteq 1 .. n
    BY <1>1, <1>3 DEF ArgumentsOf
  <2>2. Takes => (optind + 1 \in ArgumentsOf(c) <=> c = option_char)
    <3>1. (optind + 1) - 1 = optind
      BY <1>1
    <3> QED BY <1>5, <3>1 DEF ArgumentsOf
  <2> HIDE DEF n
  <2> QED BY <1>8, <2>1, <2>2 DEF ArgumentsTo
<1>11. InterleaveTo(optind')
         <=> InterleaveTo(optind) \/ Option(command[optind]).char = "l"
  BY <1>1, <1>5, <1>8 DEF InterleaveTo
<1> QED BY <1>7, <1>8, <1>9, <1>10, <1>11

LEMMA OperandReads ==
  ASSUME OptindOK, Operand
  PROVE  /\ OptindOK' /\ optind < optind'
         /\ OperandsTo(optind') = OperandsTo(optind) \cup {optind}
         /\ \A c : ArgumentsTo(c, optind') = ArgumentsTo(c, optind)
         /\ InterleaveTo(optind') <=> InterleaveTo(optind)
<1> DEFINE A == ArgumentAt
           n == Len(command)
<1>1. optind \in 1 .. n /\ n \in Nat /\ optind \notin A /\ ~IsOption(command[optind])
      /\ optind' = optind + 1 /\ command' = command
  BY DEF OptindOK, CommandOK, Operand
<1>2. /\ A \subseteq 1 .. n
      /\ \A i \in 1 .. n : i \in A => IsOption(command[i - 1])
  BY ArgumentSteps DEF OptindOK
<1>3. A' = A /\ CommandOK' /\ n' = n
  BY <1>1, SameCommand DEF OptindOK
<1>4. (optind + 1) - 1 = optind
  BY <1>1
<1>5. optind + 1 \notin A
  BY <1>1, <1>2, <1>4
<1>6. OptindOK'
  BY <1>1, <1>3, <1>5 DEF OptindOK
<1>7. \A i \in 1 .. n : i < optind' <=> i < optind \/ i = optind
  BY <1>1
<1>8. OperandsTo(optind') = OperandsTo(optind) \cup {optind}
  BY <1>1, <1>7 DEF OperandsTo, GivenOperands
<1>9. \A c : ArgumentsTo(c, optind') = ArgumentsTo(c, optind)
  BY <1>1, <1>2, <1>7 DEF ArgumentsTo, ArgumentsOf
<1>10. InterleaveTo(optind') <=> InterleaveTo(optind)
  BY <1>1, <1>7 DEF InterleaveTo
<1> QED BY <1>1, <1>6, <1>8, <1>9, <1>10

\* The settings are what the options before optind say: the formats and names
\* are those of the last one, the address of a section that of the first.
IsSettings ==
  settings = [input_filename    |-> settings.input_filename,
              output_filename   |-> settings.output_filename,
              section_addresses |-> settings.section_addresses,
              output_format     |-> settings.output_format,
              word_size         |-> settings.word_size,
              addresses         |-> settings.addresses]

FormatRead == settings.output_format = LastTo("f", optind, <<"hexintel">>)[1]

WidthRead ==
  ~error_in_options => settings.word_size = IF InterleaveTo(optind) THEN 2 ELSE 1

SectionsRead ==
  ~error_in_options =>
    /\ \A i \in ArgumentsTo("s", optind) : command[i][1] \in DOMAIN settings.section_addresses
    /\ \A name \in DOMAIN settings.section_addresses :
         \E i : /\ NamesFirst(i, name)
                /\ settings.section_addresses[name] = Hex[command[i][3]]

OperandsRead ==
  /\ operands \in Seq(Seq(STRING))
  /\ operands = <<>> <=> OperandsTo(optind) = {}
  /\ operands # <<>> => operands[1] = command[Min(OperandsTo(optind))]

NamesRead == /\ settings.output_filename = LastTo("o", optind, <<>>)
             /\ settings.input_filename = LastTo("i", optind, <<>>)

OptionsOK == /\ OptindOK /\ IsSettings /\ FormatRead /\ WidthRead
             /\ SectionsRead /\ OperandsRead

LEMMA SameReading ==
  ASSUME command' = command
  PROVE  /\ \A c, d : (LastTo(c, optind, d))' = LastTo(c, optind', d)
         /\ \A c : (ArgumentsTo(c, optind))' = ArgumentsTo(c, optind')
         /\ (OperandsTo(optind))' = OperandsTo(optind')
         /\ (InterleaveTo(optind))' <=> InterleaveTo(optind')
         /\ \A i, name : (NamesFirst(i, name))' <=> NamesFirst(i, name)
<1>1. /\ ArgumentAt' = ArgumentAt
      /\ \A c : (ArgumentsOf(c))' = ArgumentsOf(c)
      /\ GivenOperands' = GivenOperands
  BY SameCommand
<1>2. \A c : (ArgumentsTo(c, optind))' = ArgumentsTo(c, optind')
  BY <1>1 DEF ArgumentsTo
<1>3. \A c, d : (LastTo(c, optind, d))' = LastTo(c, optind', d)
  BY <1>2 DEF LastTo
<1>4. (OperandsTo(optind))' = OperandsTo(optind')
  BY <1>1 DEF OperandsTo
<1>5. (InterleaveTo(optind))' <=> InterleaveTo(optind')
  BY <1>1 DEF InterleaveTo
<1>6. \A i, name : (NamesFirst(i, name))' <=> NamesFirst(i, name)
  BY <1>1 DEF NamesFirst
<1> QED BY <1>2, <1>3, <1>4, <1>5, <1>6

LEMMA LastSame ==
  ASSUME NEW c, NEW p, NEW q, ArgumentsTo(c, q) = ArgumentsTo(c, p)
  PROVE  \A d : LastTo(c, q, d) = LastTo(c, p, d)
BY DEF LastTo

LEMMA LastStep ==
  ASSUME CommandOK, NEW c, NEW p \in Nat, NEW q,
         ArgumentsTo(c, q) = ArgumentsTo(c, p) \cup {p + 1}
  PROVE  \A d : LastTo(c, q, d) = command[p + 1]
<1> DEFINE S == ArgumentsTo(c, p) \cup {p + 1}
<1>1. S \subseteq 0 .. p + 1 /\ S # {} /\ p + 1 \in Nat
  <2>1. ArgumentsTo(c, p) \subseteq 0 .. p + 1
    <3>1. ArgumentsOf(c) \subseteq Nat
      BY ArgumentSteps DEF ArgumentsOf
    <3> QED BY <3>1 DEF ArgumentsTo
  <2> QED BY <2>1
<1>2. p + 1 \in S
  OBVIOUS
<1> HIDE DEF S
<1>3. Max(S) \in S /\ \A i \in S : i <= Max(S)
  BY <1>1, GreatestIs
<1>4. Max(S) = p + 1
  <2>1. PICK m : m = Max(S)
    OBVIOUS
  <2>2. m \in 0 .. p + 1 /\ p + 1 <= m
    BY <1>1, <1>2, <1>3, <2>1
  <2>3. m = p + 1
    BY <1>1, <2>2
  <2> QED BY <2>1, <2>3
<1>5. ArgumentsTo(c, q) = S
  BY DEF S
<1> QED BY <1>1, <1>4, <1>5 DEF LastTo

\* What an option leaves alone, and what it tells.
LEMMA OptionTells ==
  ASSUME OptindOK, optind <= Len(command), IsOption(command[optind]), Advance
  PROVE  /\ \A c, d : (LastTo(c, optind, d))' = IF Takes /\ c = option_char THEN optarg
                                                ELSE LastTo(c, optind, d)
         /\ (OperandsTo(optind))' = OperandsTo(optind)
         /\ (InterleaveTo(optind))'
              <=> InterleaveTo(optind) \/ Option(command[optind]).char = "l"
         /\ \A c : (ArgumentsTo(c, optind))' =
                     IF Takes /\ c = option_char THEN ArgumentsTo(c, optind) \cup {optind + 1}
                     ELSE ArgumentsTo(c, optind)
         /\ \A i, name : (NamesFirst(i, name))' <=> NamesFirst(i, name)
<1>1. command' = command /\ CommandOK /\ optind \in Nat
  BY DEF Advance, OptindOK, CommandOK
<1>2. /\ OperandsTo(optind') = OperandsTo(optind)
      /\ \A c : ArgumentsTo(c, optind') =
                  IF Takes /\ c = option_char THEN ArgumentsTo(c, optind) \cup {optind + 1}
                  ELSE ArgumentsTo(c, optind)
      /\ InterleaveTo(optind')
           <=> InterleaveTo(optind) \/ Option(command[optind]).char = "l"
  BY OptionReads
<1>3. ASSUME NEW c, NEW d
      PROVE  LastTo(c, optind', d) = IF Takes /\ c = option_char THEN optarg
                                     ELSE LastTo(c, optind, d)
  <2>1. CASE Takes /\ c = option_char
    <3>1. ArgumentsTo(c, optind') = ArgumentsTo(c, optind) \cup {optind + 1}
      BY <1>2, <2>1
    <3>2. LastTo(c, optind', d) = command[optind + 1]
      BY <1>1, <3>1, LastStep
    <3> QED BY <2>1, <3>2 DEF optarg
  <2>2. CASE ~(Takes /\ c = option_char)
    <3>1. ArgumentsTo(c, optind') = ArgumentsTo(c, optind)
      BY <1>2, <2>2
    <3>2. LastTo(c, optind', d) = LastTo(c, optind, d)
      BY <3>1, LastSame
    <3> QED BY <2>2, <3>2
  <2> QED BY <2>1, <2>2
<1>4. \A c, d : (LastTo(c, optind, d))' = LastTo(c, optind', d)
  BY <1>1, SameReading
<1> QED BY <1>1, <1>2, <1>3, <1>4, SameReading

\* Each option of the loop.

LEMMA OperandKeeps ==
  ASSUME OptionsOK, NamesRead, Operand
  PROVE  OptionsOK' /\ NamesRead'
<1>1. /\ OptindOK' /\ optind < optind'
      /\ OperandsTo(optind') = OperandsTo(optind) \cup {optind}
      /\ \A c : ArgumentsTo(c, optind') = ArgumentsTo(c, optind)
      /\ InterleaveTo(optind') <=> InterleaveTo(optind)
  BY OperandReads DEF OptionsOK
<1>2. /\ command' = command /\ settings' = settings /\ error_in_options' = error_in_options
      /\ operands' = Append(operands, command[optind]) /\ optind \in 1 .. Len(command)
      /\ command \in Seq(Seq(STRING))
  BY DEF Operand, OptionsOK, OptindOK, CommandOK
<1>3. /\ \A c, d : (LastTo(c, optind, d))' = LastTo(c, optind, d)
      /\ \A c : (ArgumentsTo(c, optind))' = ArgumentsTo(c, optind)
      /\ (OperandsTo(optind))' = OperandsTo(optind) \cup {optind}
      /\ (InterleaveTo(optind))' <=> InterleaveTo(optind)
      /\ \A i, name : (NamesFirst(i, name))' <=> NamesFirst(i, name)
  <2>1. \A c, d : LastTo(c, optind', d) = LastTo(c, optind, d)
    BY <1>1, LastSame
  <2> QED BY <1>1, <1>2, <2>1, SameReading
<1>4. IsSettings' /\ FormatRead' /\ NamesRead'
  BY <1>2, <1>3 DEF OptionsOK, IsSettings, FormatRead, NamesRead
<1>5. WidthRead'
  BY <1>2, <1>3 DEF OptionsOK, WidthRead
<1>6. SectionsRead'
  BY <1>2, <1>3 DEF OptionsOK, SectionsRead
<1>7. OperandsRead'
  <2> DEFINE S == OperandsTo(optind)
  <2>1. /\ operands \in Seq(Seq(STRING))
        /\ operands = <<>> <=> S = {}
        /\ operands # <<>> => operands[1] = command[Min(S)]
    BY DEF OptionsOK, OperandsRead
  <2>2. command[optind] \in Seq(STRING)
    BY <1>2
  <2>3. operands' \in Seq(Seq(STRING)) /\ operands' # <<>>
    BY <1>2, <2>1, <2>2
  <2>4. S \subseteq Nat /\ \A i \in S : i < optind
    BY <1>2 DEF OperandsTo, GivenOperands
  <2>5. (OperandsTo(optind))' = S \cup {optind}
    BY <1>3
  <2> HIDE DEF S
  <2>6. PICK m : m = Min(S \cup {optind})
    OBVIOUS
  <2>7. m \in S \cup {optind} /\ \A i \in S \cup {optind} : m <= i
    <3>1. S \cup {optind} \subseteq Nat /\ S \cup {optind} # {}
      BY <1>2, <2>4
    <3> QED BY <2>6, <3>1, LeastIs
  <2>8. operands'[1] = command[m]
    <3>1. CASE S = {}
      <4>1. operands = <<>> /\ m = optind
        BY <2>1, <2>7, <3>1
      <4> QED BY <1>2, <2>2, <4>1
    <3>2. CASE S # {}
      <4>1. PICK k : k = Min(S)
        OBVIOUS
      <4>2. k \in S /\ \A i \in S : k <= i
        BY <2>4, <3>2, <4>1, LeastIs
      <4>3. m = k
        BY <1>2, <2>4, <2>7, <4>2
      <4>4. operands # <<>> /\ operands[1] = command[k]
        BY <2>1, <3>2, <4>1
      <4>5. operands'[1] = operands[1]
        BY <1>2, <2>1, <2>2, <4>4
      <4> QED BY <4>3, <4>4, <4>5
    <3> QED BY <3>1, <3>2
  <2> QED BY <1>2, <2>3, <2>5, <2>6, <2>8 DEF OperandsRead
<1> QED BY <1>1, <1>4, <1>5, <1>6, <1>7 DEF OptionsOK

\* What every option leaves as it is.
LEMMA OptionLeaves ==
  ASSUME OptionsOK, optind <= Len(command), IsOption(command[optind]), Advance
  PROVE  OptindOK' /\ OperandsRead'
<1>1. OptindOK /\ OperandsRead
  BY DEF OptionsOK
<1>2. OptindOK'
  BY <1>1, OptionReads
<1>3. (OperandsTo(optind))' = OperandsTo(optind)
  BY <1>1, OptionTells
<1>4. operands' = operands /\ command' = command
  BY DEF Advance
<1>5. OperandsRead'
  BY <1>1, <1>3, <1>4 DEF OperandsRead
<1> QED BY <1>2, <1>5

LEMMA SectionsStay ==
  ASSUME OptionsOK, optind <= Len(command), IsOption(command[optind]), Advance,
         error_in_options' = error_in_options, ~(Takes /\ option_char = "s"),
         settings'.section_addresses = settings.section_addresses
  PROVE  SectionsRead'
<1>1. OptindOK /\ SectionsRead /\ command' = command
  BY DEF OptionsOK, Advance
<1>2. /\ (ArgumentsTo("s", optind))' = ArgumentsTo("s", optind)
      /\ \A i, name : (NamesFirst(i, name))' <=> NamesFirst(i, name)
  BY <1>1, OptionTells
<1> QED BY <1>1, <1>2 DEF SectionsRead

LEMMA VerboseKeeps ==
  ASSUME OptionsOK, NamesRead, Verbose
  PROVE  OptionsOK' /\ NamesRead'
<1>1. /\ optind <= Len(command) /\ IsOption(command[optind]) /\ Advance
      /\ settings' = settings /\ error_in_options' = error_in_options
      /\ option_char \in {"0", "v"}
  BY DEF Verbose, Accept, At
<1>2. ~Takes /\ option_char = Option(command[optind]).char
  BY <1>1, OptionCharIs DEF OptionsOK
<1>3. /\ \A c, d : (LastTo(c, optind, d))' = LastTo(c, optind, d)
      /\ (InterleaveTo(optind))' <=> InterleaveTo(optind)
  BY <1>1, <1>2, OptionTells DEF OptionsOK
<1>4. IsSettings' /\ FormatRead' /\ NamesRead'
  BY <1>1, <1>3 DEF OptionsOK, IsSettings, FormatRead, NamesRead
<1>5. WidthRead'
  BY <1>1, <1>3 DEF OptionsOK, WidthRead
<1>6. SectionsRead'
  BY <1>1, <1>2, SectionsStay
<1> QED BY <1>1, <1>4, <1>5, <1>6, OptionLeaves DEF OptionsOK

LEMMA UnknownKeeps ==
  ASSUME OptionsOK, NamesRead, Unknown
  PROVE  OptionsOK' /\ NamesRead'
<1>1. /\ optind <= Len(command) /\ IsOption(command[optind]) /\ Advance
      /\ settings' = settings /\ error_in_options' = TRUE /\ option_char = "?"
  BY DEF Unknown, Refuse, At
<1>2. ~Takes
  BY <1>1, OptionCharIs DEF OptionsOK
<1>3. \A c, d : (LastTo(c, optind, d))' = LastTo(c, optind, d)
  BY <1>1, <1>2, OptionTells DEF OptionsOK
<1>4. IsSettings' /\ FormatRead' /\ NamesRead'
  BY <1>1, <1>3 DEF OptionsOK, IsSettings, FormatRead, NamesRead
<1>5. WidthRead' /\ SectionsRead'
  BY <1>1 DEF WidthRead, SectionsRead
<1> QED BY <1>1, <1>4, <1>5, OptionLeaves DEF OptionsOK

LEMMA InputKeeps ==
  ASSUME OptionsOK, NamesRead, Input
  PROVE  OptionsOK' /\ NamesRead'
<1>1. /\ optind <= Len(command) /\ IsOption(command[optind]) /\ Advance
      /\ settings' = [settings EXCEPT !.input_filename = optarg]
      /\ error_in_options' = error_in_options /\ option_char = "i"
  BY DEF Input, Accept, At
<1>2. Takes /\ option_char = Option(command[optind]).char
  BY <1>1, OptionCharIs DEF OptionsOK
<1>3. /\ \A c, d : (LastTo(c, optind, d))' = IF c = "i" THEN optarg ELSE LastTo(c, optind, d)
      /\ (InterleaveTo(optind))' <=> InterleaveTo(optind)
  BY <1>1, <1>2, OptionTells DEF OptionsOK
<1>4. /\ IsSettings' /\ settings'.input_filename = optarg
      /\ settings'.output_filename = settings.output_filename
      /\ settings'.section_addresses = settings.section_addresses
      /\ settings'.output_format = settings.output_format
      /\ settings'.word_size = settings.word_size
  BY <1>1 DEF OptionsOK, IsSettings
<1>5. FormatRead' /\ NamesRead'
  BY <1>3, <1>4 DEF OptionsOK, FormatRead, NamesRead
<1>6. WidthRead'
  BY <1>1, <1>3, <1>4 DEF OptionsOK, WidthRead
<1>7. SectionsRead'
  BY <1>1, <1>4, SectionsStay
<1> QED BY <1>1, <1>4, <1>5, <1>6, <1>7, OptionLeaves DEF OptionsOK

LEMMA OutputKeeps ==
  ASSUME OptionsOK, NamesRead, Output
  PROVE  OptionsOK' /\ NamesRead'
<1>1. /\ optind <= Len(command) /\ IsOption(command[optind]) /\ Advance
      /\ settings' = [settings EXCEPT !.output_filename = optarg]
      /\ error_in_options' = error_in_options /\ option_char = "o"
  BY DEF Output, Accept, At
<1>2. Takes /\ option_char = Option(command[optind]).char
  BY <1>1, OptionCharIs DEF OptionsOK
<1>3. /\ \A c, d : (LastTo(c, optind, d))' = IF c = "o" THEN optarg ELSE LastTo(c, optind, d)
      /\ (InterleaveTo(optind))' <=> InterleaveTo(optind)
  BY <1>1, <1>2, OptionTells DEF OptionsOK
<1>4. /\ IsSettings' /\ settings'.output_filename = optarg
      /\ settings'.input_filename = settings.input_filename
      /\ settings'.section_addresses = settings.section_addresses
      /\ settings'.output_format = settings.output_format
      /\ settings'.word_size = settings.word_size
  BY <1>1 DEF OptionsOK, IsSettings
<1>5. FormatRead' /\ NamesRead'
  BY <1>3, <1>4 DEF OptionsOK, FormatRead, NamesRead
<1>6. WidthRead'
  BY <1>1, <1>3, <1>4 DEF OptionsOK, WidthRead
<1>7. SectionsRead'
  BY <1>1, <1>4, SectionsStay
<1> QED BY <1>1, <1>4, <1>5, <1>6, <1>7, OptionLeaves DEF OptionsOK

LEMMA InterleavingKeeps ==
  ASSUME OptionsOK, NamesRead, Interleaving
  PROVE  OptionsOK' /\ NamesRead'
<1>1. /\ optind <= Len(command) /\ IsOption(command[optind]) /\ Advance
      /\ settings' = [settings EXCEPT !.word_size = 2]
      /\ error_in_options' = error_in_options /\ option_char = "l"
  BY DEF Interleaving, Accept, At
<1>2. Option(command[optind]).char = "l"
  BY <1>1, OptionCharIs DEF OptionsOK
<1>3. /\ \A c, d : c # "l" => (LastTo(c, optind, d))' = LastTo(c, optind, d)
      /\ (InterleaveTo(optind))'
  BY <1>1, <1>2, OptionTells DEF OptionsOK
<1>4. /\ IsSettings' /\ settings'.word_size = 2
      /\ settings'.input_filename = settings.input_filename
      /\ settings'.output_filename = settings.output_filename
      /\ settings'.section_addresses = settings.section_addresses
      /\ settings'.output_format = settings.output_format
  BY <1>1 DEF OptionsOK, IsSettings
<1>5. FormatRead' /\ NamesRead'
  BY <1>3, <1>4 DEF OptionsOK, FormatRead, NamesRead
<1>6. WidthRead'
  BY <1>3, <1>4 DEF WidthRead
<1>7. SectionsRead'
  BY <1>1, <1>4, SectionsStay
<1> QED BY <1>1, <1>4, <1>5, <1>6, <1>7, OptionLeaves DEF OptionsOK

LEMMA FormatKeeps ==
  ASSUME OptionsOK, NamesRead, Format
  PROVE  OptionsOK' /\ NamesRead'
<1>1. /\ optind <= Len(command) /\ IsOption(command[optind]) /\ Advance
      /\ settings' = [settings EXCEPT !.output_format = optarg[1]]
      /\ error_in_options' = error_in_options \/ error_in_options' = TRUE
      /\ option_char = "f"
  BY DEF Format, Refuse, At
<1>2. Takes /\ option_char = Option(command[optind]).char
  BY <1>1, OptionCharIs DEF OptionsOK
<1>3. /\ \A c, d : (LastTo(c, optind, d))' = IF c = "f" THEN optarg ELSE LastTo(c, optind, d)
      /\ (InterleaveTo(optind))' <=> InterleaveTo(optind)
  BY <1>1, <1>2, OptionTells DEF OptionsOK
<1>4. /\ IsSettings' /\ settings'.output_format = optarg[1]
      /\ settings'.input_filename = settings.input_filename
      /\ settings'.output_filename = settings.output_filename
      /\ settings'.section_addresses = settings.section_addresses
      /\ settings'.word_size = settings.word_size
  BY <1>1 DEF OptionsOK, IsSettings
<1>5. FormatRead' /\ NamesRead'
  BY <1>3, <1>4 DEF OptionsOK, FormatRead, NamesRead
<1>6. WidthRead'
  BY <1>1, <1>3, <1>4 DEF OptionsOK, WidthRead
<1>7. SectionsRead'
  <2>1. CASE error_in_options' = error_in_options
    BY <1>1, <1>4, <2>1, SectionsStay
  <2>2. CASE error_in_options' = TRUE
    BY <2>2 DEF SectionsRead
  <2> QED BY <1>1, <2>1, <2>2
<1> QED BY <1>1, <1>4, <1>5, <1>6, <1>7, OptionLeaves DEF OptionsOK

LEMMA AddressesKeeps ==
  ASSUME OptionsOK, NamesRead, Addresses
  PROVE  OptionsOK' /\ NamesRead'
<1>1. /\ optind <= Len(command) /\ IsOption(command[optind]) /\ Advance
      /\ \/ /\ error_in_options' = error_in_options
            /\ settings' = [settings EXCEPT !.addresses =
                              <<Hex[optarg[1]], Hex[optarg[3]]>>]
         \/ error_in_options' = TRUE /\ settings' = settings
      /\ option_char = "a"
  BY DEF Addresses, Accept, Refuse, At
<1>2. Takes /\ option_char = Option(command[optind]).char
  BY <1>1, OptionCharIs DEF OptionsOK
<1>3. /\ \A c, d : c # "a" => (LastTo(c, optind, d))' = LastTo(c, optind, d)
      /\ (InterleaveTo(optind))' <=> InterleaveTo(optind)
  BY <1>1, <1>2, OptionTells DEF OptionsOK
<1>4. /\ IsSettings'
      /\ settings'.input_filename = settings.input_filename
      /\ settings'.output_filename = settings.output_filename
      /\ settings'.section_addresses = settings.section_addresses
      /\ settings'.output_format = settings.output_format
      /\ settings'.word_size = settings.word_size
  BY <1>1 DEF OptionsOK, IsSettings
<1>5. FormatRead' /\ NamesRead'
  BY <1>3, <1>4 DEF OptionsOK, FormatRead, NamesRead
<1>6. WidthRead'
  BY <1>1, <1>3, <1>4 DEF OptionsOK, WidthRead
<1>7. SectionsRead'
  <2>1. CASE error_in_options' = error_in_options
    BY <1>1, <1>4, <2>1, SectionsStay
  <2>2. CASE error_in_options' = TRUE
    BY <2>2 DEF SectionsRead
  <2> QED BY <1>1, <2>1, <2>2
<1> QED BY <1>1, <1>4, <1>5, <1>6, <1>7, OptionLeaves DEF OptionsOK

\* insert keeps the address a section has: the one of its first -s.
LEMMA SectionKeeps ==
  ASSUME OptionsOK, NamesRead, Section
  PROVE  OptionsOK' /\ NamesRead'
<1> DEFINE map == settings.section_addresses
           added == With(map, optarg[1], Hex[optarg[3]])
<1>1. /\ optind <= Len(command) /\ IsOption(command[optind]) /\ Advance
      /\ \/ /\ error_in_options' = error_in_options
            /\ settings' = [settings EXCEPT !.section_addresses = added]
         \/ error_in_options' = TRUE /\ settings' = settings
      /\ option_char = "s"
  BY DEF Section, Accept, Refuse, At
<1>2. Takes /\ option_char = Option(command[optind]).char /\ optind \in Nat
  BY <1>1, OptionCharIs DEF OptionsOK, OptindOK, CommandOK
<1>3. /\ \A c, d : c # "s" => (LastTo(c, optind, d))' = LastTo(c, optind, d)
      /\ (InterleaveTo(optind))' <=> InterleaveTo(optind)
      /\ (ArgumentsTo("s", optind))' = ArgumentsTo("s", optind) \cup {optind + 1}
      /\ \A i, name : (NamesFirst(i, name))' <=> NamesFirst(i, name)
  BY <1>1, <1>2, OptionTells DEF OptionsOK
<1>4. /\ IsSettings'
      /\ settings'.input_filename = settings.input_filename
      /\ settings'.output_filename = settings.output_filename
      /\ settings'.output_format = settings.output_format
      /\ settings'.word_size = settings.word_size
      /\ ~error_in_options' => /\ settings'.section_addresses = added
                               /\ error_in_options' = error_in_options
  BY <1>1 DEF OptionsOK, IsSettings
<1>5. FormatRead' /\ NamesRead'
  BY <1>3, <1>4 DEF OptionsOK, FormatRead, NamesRead
<1>6. WidthRead'
  BY <1>1, <1>3, <1>4 DEF OptionsOK, WidthRead
<1>7. SectionsRead'
  <2> SUFFICES ASSUME ~error_in_options'
               PROVE  /\ \A i \in (ArgumentsTo("s", optind))' :
                           command'[i][1] \in DOMAIN settings'.section_addresses
                      /\ \A name \in DOMAIN settings'.section_addresses :
                           \E i : /\ (NamesFirst(i, name))'
                                  /\ settings'.section_addresses[name] = Hex[command'[i][3]]
    BY DEF SectionsRead
  <2>1. settings'.section_addresses = added /\ ~error_in_options /\ command' = command
    BY <1>1, <1>4 DEF Advance
  <2>2. /\ \A i \in ArgumentsTo("s", optind) : command[i][1] \in DOMAIN map
        /\ \A name \in DOMAIN map :
             \E i : NamesFirst(i, name) /\ map[name] = Hex[command[i][3]]
    BY <2>1 DEF OptionsOK, SectionsRead
  <2>3. /\ DOMAIN added = DOMAIN map \cup {optarg[1]}
        /\ \A name \in DOMAIN map : added[name] = map[name]
        /\ optarg[1] \notin DOMAIN map => added[optarg[1]] = Hex[optarg[3]]
    BY DEF With
  <2>4. optarg = command[optind + 1]
    BY DEF optarg
  <2>5. ASSUME optarg[1] \notin DOMAIN map
        PROVE  NamesFirst(optind + 1, optarg[1])
    <3>1. optind + 1 \in ArgumentsTo("s", optind')
      <4>1. ArgumentsTo("s", optind') = ArgumentsTo("s", optind) \cup {optind + 1}
        BY <1>1, <1>2, OptionReads DEF OptionsOK
      <4> QED BY <4>1
    <3>2. optind + 1 \in ArgumentsOf("s")
      BY <3>1 DEF ArgumentsTo
    <3>3. ASSUME NEW j \in ArgumentsOf("s"), command[j][1] = optarg[1]
          PROVE  optind + 1 <= j
      <4>1. j \notin ArgumentsTo("s", optind)
        BY <2>2, <2>5, <3>3
      <4>2. j \in Nat /\ j # optind
        BY ArgumentSteps DEF OptionsOK, OptindOK, ArgumentsOf
      <4>3. ~(j < optind)
        BY <4>1 DEF ArgumentsTo
      <4> QED BY <1>2, <4>2, <4>3
    <3> QED BY <2>4, <3>2, <3>3 DEF NamesFirst
  <2> HIDE DEF added, map
  <2>6. \A i \in (ArgumentsTo("s", optind))' :
          command'[i][1] \in DOMAIN settings'.section_addresses
    BY <1>3, <2>1, <2>2, <2>3, <2>4
  <2>7. ASSUME NEW name \in DOMAIN added
        PROVE  \E i : NamesFirst(i, name) /\ added[name] = Hex[command[i][3]]
    <3>1. CASE name \in DOMAIN map
      BY <2>2, <2>3, <3>1
    <3>2. CASE name \notin DOMAIN map
      BY <2>3, <2>4, <2>5, <3>2
    <3> QED BY <3>1, <3>2
  <2>8. \A name \in DOMAIN settings'.section_addresses :
          \E i : /\ (NamesFirst(i, name))'
                 /\ settings'.section_addresses[name] = Hex[command'[i][3]]
    BY <1>3, <2>1, <2>7
  <2> QED BY <2>6, <2>8
<1> QED BY <1>1, <1>4, <1>5, <1>6, <1>7, OptionLeaves DEF OptionsOK

LEMMA OptionsKeep ==
  ASSUME OptionsOK, NamesRead, ReadOption
  PROVE  OptionsOK' /\ NamesRead'
BY OperandKeeps, VerboseKeeps, InputKeeps, OutputKeeps, InterleavingKeeps, FormatKeeps,
   SectionKeeps, AddressesKeeps, UnknownKeeps DEF ReadOption

LEMMA SameOptions ==
  ASSUME OptionsOK, UNCHANGED <<command, optind, operands, error_in_options>>, IsSettings',
         settings'.output_format = settings.output_format,
         settings'.word_size = settings.word_size,
         settings'.section_addresses = settings.section_addresses
  PROVE  OptionsOK'
<1>1. /\ command' = command /\ optind' = optind
      /\ operands' = operands /\ error_in_options' = error_in_options
  OBVIOUS
<1>2. /\ \A c, d : (LastTo(c, optind, d))' = LastTo(c, optind, d)
      /\ \A c : (ArgumentsTo(c, optind))' = ArgumentsTo(c, optind)
      /\ (OperandsTo(optind))' = OperandsTo(optind)
      /\ (InterleaveTo(optind))' <=> InterleaveTo(optind)
      /\ \A i, name : (NamesFirst(i, name))' <=> NamesFirst(i, name)
  BY <1>1, SameReading
<1>3. OptindOK'
  BY <1>1, SameCommand DEF OptionsOK, OptindOK
<1>4. FormatRead' /\ WidthRead'
  BY <1>1, <1>2 DEF OptionsOK, FormatRead, WidthRead
<1>5. SectionsRead'
  BY <1>1, <1>2 DEF OptionsOK, SectionsRead
<1>6. OperandsRead'
  BY <1>1, <1>2 DEF OptionsOK, OperandsRead
<1> QED BY <1>3, <1>4, <1>5, <1>6 DEF OptionsOK

LEMMA OptionsBegin ==
  ASSUME NEW argv \in Seq(Seq(STRING)), \A k \in DOMAIN argv : IsToken(argv[k]),
         OptionsInit(argv)
  PROVE  OptionsOK /\ NamesRead
<1>1. /\ command = argv /\ optind = 1 /\ operands = <<>> /\ ~error_in_options
      /\ settings = [input_filename |-> <<>>, output_filename |-> <<>>,
                     section_addresses |-> <<>>, output_format |-> "hexintel",
                     word_size |-> 1, addresses |-> <<>>]
  BY DEF OptionsInit
<1>2. CommandOK /\ Len(command) \in Nat
  BY <1>1 DEF CommandOK
<1>3. /\ ArgumentAt \subseteq 1 .. Len(command)
      /\ 1 \in 1 .. Len(command) => 1 \notin ArgumentAt
  BY <1>2, ArgumentSteps
<1>4. OptindOK
  BY <1>1, <1>2, <1>3 DEF OptindOK
<1>5. (\A c : ArgumentsTo(c, 1) = {}) /\ OperandsTo(1) = {} /\ ~InterleaveTo(1)
  <2>1. \A i \in 1 .. Len(command) : ~(i < 1)
    BY <1>2
  <2>2. \A c : ArgumentsTo(c, 1) = {}
    BY <1>3, <2>1 DEF ArgumentsTo, ArgumentsOf
  <2>3. OperandsTo(1) = {}
    BY <2>1 DEF OperandsTo, GivenOperands
  <2>4. ~InterleaveTo(1)
    BY <2>1, Zenon DEF InterleaveTo
  <2> QED BY <2>2, <2>3, <2>4
<1>6. \A c, d : LastTo(c, 1, d) = d
  BY <1>5 DEF LastTo
<1>7. IsSettings /\ settings.output_format = "hexintel" /\ settings.word_size = 1
      /\ settings.section_addresses = <<>>
      /\ settings.input_filename = <<>> /\ settings.output_filename = <<>>
  BY <1>1 DEF IsSettings
<1>8. FormatRead
  <2>1. LastTo("f", optind, <<"hexintel">>) = <<"hexintel">>
    BY <1>1, <1>6
  <2> QED BY <1>7, <2>1 DEF FormatRead
<1>9. NamesRead
  BY <1>1, <1>6, <1>7 DEF NamesRead
<1>10. WidthRead
  BY <1>1, <1>5, <1>7 DEF WidthRead
<1>11. SectionsRead
  BY <1>1, <1>5, <1>7 DEF SectionsRead
<1>12. OperandsRead
  BY <1>1, <1>5 DEF OperandsRead
<1> QED BY <1>4, <1>7, <1>8, <1>9, <1>10, <1>11, <1>12 DEF OptionsOK

-----------------------------------------------------------------------------
\* What the whole command line asks for.

AskedFormat == LastOf("f", <<"hexintel">>)[1]
AskedBase   == LastOf("o", Base(GivenInput))
AskedParts  == IF GivenInterleave /\ AskedFormat # "logisim16" THEN {"_0", "_1"} ELSE {""}

AskedImages == {ImageFile(AskedBase, p, AskedFormat) : p \in AskedParts}

Writable(names) == {n \in names : Directory(n) \in Directories}

NewFiles == {n \in DOMAIN files : files[n] = "new"}

\* The first address given to each section is the one it has.
AddressesGiven == \A n \in DOMAIN settings.section_addresses :
                    settings.section_addresses[n] = GivenAddress(n)

\* The files are those named after Base, which cuts at any dot.
FilesMatch ==
  phase = "exit" =>
    /\ NewFiles = IF Ended THEN Writable({ListingFile(AskedBase)} \cup AskedImages) ELSE {}
    /\ OldFiles \subseteq DOMAIN files
    /\ Ended => AddressesGiven

DocumentedBase == LastOf("o", SourceBase(GivenInput))

DocumentedImages == {ImageFile(DocumentedBase, p, AskedFormat) : p \in AskedParts}

LEMMA BaseIsDocumented ==
  ASSUME ~NamedAfterADirectory
  PROVE  AskedBase = DocumentedBase
<1>1. CASE ArgumentsOf("o") # {}
  BY <1>1 DEF AskedBase, DocumentedBase, LastOf
<1>2. CASE ArgumentsOf("o") = {}
  <2>1. UpToLast(GivenInput, ".") = 0 \/ ~(UpToLast(GivenInput, ".") < UpToLast(GivenInput, "/"))
    BY <1>2, Zenon DEF NamedAfterADirectory
  <2>2. UpToLast(GivenInput, ".") = 0 =>
          Base(GivenInput) = GivenInput /\ SourceBase(GivenInput) = GivenInput
    BY Zenon DEF Base, SourceBase
  <2>3. UpToLast(GivenInput, ".") # 0 =>
          /\ Base(GivenInput) = SubSeq(GivenInput, 1, UpToLast(GivenInput, ".") - 1)
          /\ ~(UpToLast(GivenInput, ".") < UpToLast(GivenInput, "/")) =>
               SourceBase(GivenInput) = SubSeq(GivenInput, 1, UpToLast(GivenInput, ".") - 1)
    BY Zenon DEF Base, SourceBase
  <2>4. Base(GivenInput) = SourceBase(GivenInput)
    BY <2>1, <2>2, <2>3, Zenon
  <2> QED BY <2>4, Zenon DEF AskedBase, DocumentedBase
<1> QED BY <1>1, <1>2

LEMMA FilesMatchMeans ==
  ASSUME FilesMatch
  PROVE  FilesMatchTheOptions
<1>1. ~NamedAfterADirectory => ListingFile(AskedBase) = ListingFile(DocumentedBase)
                               /\ AskedImages = DocumentedImages
  BY BaseIsDocumented DEF AskedImages, DocumentedImages
<1>2. ASSUME phase = "exit"
      PROVE  /\ ~Ended => NewFiles = {}
             /\ Ended /\ ~NamedAfterADirectory =>
                  NewFiles = Writable({ListingFile(DocumentedBase)} \cup DocumentedImages)
             /\ OldFiles \subseteq DOMAIN files
             /\ Ended => AddressesGiven
  <2>1. /\ NewFiles = IF Ended THEN Writable({ListingFile(AskedBase)} \cup AskedImages) ELSE {}
        /\ OldFiles \subseteq DOMAIN files
        /\ Ended => AddressesGiven
    BY <1>2 DEF FilesMatch
  <2> QED BY <1>1, <2>1
<1> QED BY <1>2, Zenon DEF FilesMatchTheOptions, NewFiles, Writable, DocumentedImages,
     AskedParts, DocumentedBase, AskedFormat, AddressesGiven

\* The end of the command line: all of it was read.
LEMMA AllRead ==
  ASSUME OptionsOK, optind > Len(command)
  PROVE  /\ \A c, d : LastTo(c, optind, d) = LastOf(c, d)
         /\ OperandsTo(optind) = GivenOperands
         /\ InterleaveTo(optind) <=> GivenInterleave
<1>1. optind = Len(command) + 1 /\ Len(command) \in Nat /\ ArgumentAt \subseteq 1 .. Len(command)
  BY ArgumentSteps DEF OptionsOK, OptindOK, CommandOK
<1>2. \A i \in 1 .. Len(command) : i < optind
  BY <1>1
<1>3. \A c : ArgumentsTo(c, optind) = ArgumentsOf(c)
  BY <1>1, <1>2 DEF ArgumentsTo, ArgumentsOf
<1>4. \A c, d : LastTo(c, optind, d) = LastOf(c, d)
  BY <1>3 DEF LastTo, LastOf
<1>5. OperandsTo(optind) = GivenOperands
  BY <1>1, <1>2 DEF OperandsTo, GivenOperands
<1>6. InterleaveTo(optind) <=> GivenInterleave
  BY <1>2 DEF InterleaveTo, GivenInterleave
<1> QED BY <1>4, <1>5, <1>6

\* The input is the first operand or else that of the last -i, and the outputs
\* are named after the last -o or else after the input.
LEMMA NamesAreAsked ==
  ASSUME OptionsOK, NamesRead, optind > Len(command)
  PROVE  LET input == IF operands # <<>> THEN operands[1] ELSE settings.input_filename
         IN  /\ input = GivenInput
             /\ (IF settings.output_filename = <<>> THEN Base(input)
                 ELSE settings.output_filename) = AskedBase
<1> DEFINE input == IF operands # <<>> THEN operands[1] ELSE settings.input_filename
<1>1. /\ settings.output_filename = LastOf("o", <<>>)
      /\ settings.input_filename = LastOf("i", <<>>)
      /\ operands = <<>> <=> GivenOperands = {}
      /\ operands # <<>> => operands[1] = command[Min(GivenOperands)]
  BY AllRead DEF OptionsOK, NamesRead, OperandsRead
<1>2. input = GivenInput
  BY <1>1 DEF GivenInput
<1> HIDE DEF input
<1>3. (IF settings.output_filename = <<>> THEN Base(input) ELSE settings.output_filename)
        = AskedBase
  <2>1. CASE ArgumentsOf("o") = {}
    BY <1>1, <1>2, <2>1 DEF AskedBase, LastOf
  <2>2. CASE ArgumentsOf("o") # {}
    <3>1. PICK m : m = Max(ArgumentsOf("o"))
      OBVIOUS
    <3>2. m \in 1 .. Len(command)
      <4>1. Len(command) \in Nat /\ ArgumentsOf("o") \subseteq 1 .. Len(command)
        BY ArgumentSteps DEF ArgumentsOf, OptionsOK, OptindOK, CommandOK
      <4>2. ArgumentsOf("o") \subseteq 0 .. Len(command)
        BY <4>1
      <4>3. m \in ArgumentsOf("o")
        BY <2>2, <3>1, <4>1, <4>2, GreatestIs
      <4> QED BY <4>1, <4>3
    <3>3. command[m] # <<>>
      BY <3>2 DEF OptionsOK, OptindOK, CommandOK, IsToken
    <3>4. settings.output_filename = command[m] /\ AskedBase = command[m]
      BY <1>1, <2>2, <3>1 DEF AskedBase, LastOf
    <3> QED BY <3>3, <3>4
  <2> QED BY <2>1, <2>2
<1> QED BY <1>2, <1>3 DEF input

LEMMA FormatIsAsked ==
  ASSUME OptionsOK, optind > Len(command), ~error_in_options
  PROVE  /\ settings.output_format = AskedFormat
         /\ ImageParts(settings.output_format, settings.word_size) = AskedParts
<1>1. settings.output_format = AskedFormat
  BY AllRead DEF OptionsOK, FormatRead, AskedFormat
<1>2. settings.word_size = IF GivenInterleave THEN 2 ELSE 1
  BY AllRead DEF OptionsOK, WidthRead
<1>3. settings.word_size = 1 <=> ~GivenInterleave
  BY <1>2
<1>4. ImageParts(settings.output_format, settings.word_size) = AskedParts
  BY <1>1, <1>3, Zenon DEF ImageParts, AskedParts
<1> QED BY <1>1, <1>4

LEMMA AddressesAreGiven ==
  ASSUME OptionsOK, ~error_in_options
  PROVE  AddressesGiven
<1> SUFFICES ASSUME NEW n \in DOMAIN settings.section_addresses
             PROVE  settings.section_addresses[n] = GivenAddress(n)
  BY DEF AddressesGiven
<1>1. PICK i : NamesFirst(i, n) /\ settings.section_addresses[n] = Hex[command[i][3]]
  BY DEF OptionsOK, SectionsRead
<1> DEFINE S == {j \in ArgumentsOf("s") : command[j][1] = n}
<1>2. i \in S /\ \A j \in S : i <= j
  BY <1>1 DEF NamesFirst
<1>3. S \subseteq Nat
  <2>1. ArgumentsOf("s") \subseteq 1 .. Len(command)
    BY ArgumentSteps DEF ArgumentsOf, OptionsOK, OptindOK
  <2> QED BY <2>1
<1>4. GivenAddress(n) = Hex[command[Min(S)][3]]
  BY DEF GivenAddress
<1> HIDE DEF S
<1>5. PICK m : m = Min(S)
  OBVIOUS
<1>6. m \in S /\ \A j \in S : m <= j
  BY <1>2, <1>3, <1>5, LeastIs
<1>7. m = i
  BY <1>2, <1>3, <1>6
<1> QED BY <1>1, <1>4, <1>5, <1>7

-----------------------------------------------------------------------------
\* The invariant of main: which files are new in each phase.

OnlyOldFiles == files = [n \in OldFiles |-> "old"]

PhaseOK ==
  /\ phase \in {"options", "parse", "listing", "image", "exit"}
  /\ phase = "options" => NamesRead /\ yyparse = "running"
  /\ phase \in {"options", "parse", "listing"} => OnlyOldFiles
  /\ phase \in {"parse", "listing", "image"} =>
       /\ optind > Len(command) /\ ~error_in_options
       /\ settings.output_filename = AskedBase
  /\ phase \in {"listing", "image"} => yyparse = "accepted"
  /\ phase = "image" => /\ NewFiles = Writable({ListingFile(AskedBase)})
                        /\ OldFiles \subseteq DOMAIN files

MainInv == OptionsOK /\ PhaseOK /\ FilesMatch

LEMMA NoNewFiles ==
  ASSUME OnlyOldFiles
  PROVE  NewFiles = {} /\ OldFiles \subseteq DOMAIN files
BY DEF OnlyOldFiles, NewFiles

LEMMA WriteAdds ==
  ASSUME NEW names, Write(names)
  PROVE  /\ NewFiles' = NewFiles \cup Writable(names)
         /\ OldFiles \subseteq DOMAIN files => OldFiles \subseteq DOMAIN files'
<1>1. files' = [n \in DOMAIN files \cup Writable(names) |->
                  IF n \in Writable(names) THEN "new" ELSE files[n]]
  BY Zenon DEF Write, Writable
<1> DEFINE new == Writable(names)
<1> HIDE DEF new
<1>2. files' = [n \in DOMAIN files \cup new |-> IF n \in new THEN "new" ELSE files[n]]
  BY <1>1 DEF new
<1>3. NewFiles' = NewFiles \cup new /\ DOMAIN files' = DOMAIN files \cup new
  BY <1>2 DEF NewFiles
<1> QED BY <1>3 DEF new

LEMMA SameAsked ==
  ASSUME command' = command
  PROVE  /\ AskedBase' = AskedBase /\ AskedFormat' = AskedFormat
         /\ AskedParts' = AskedParts /\ AskedImages' = AskedImages
<1>1. /\ ArgumentAt' = ArgumentAt /\ \A c : (ArgumentsOf(c))' = ArgumentsOf(c)
      /\ GivenOperands' = GivenOperands
  BY SameCommand
<1>2. \A c, d : (LastOf(c, d))' = LastOf(c, d)
  BY <1>1 DEF LastOf
<1>3. GivenInput' = GivenInput
  BY <1>1, <1>2 DEF GivenInput
<1>4. GivenInterleave' <=> GivenInterleave
  BY <1>1 DEF GivenInterleave
<1>5. AskedBase' = AskedBase
  BY <1>2, <1>3 DEF AskedBase
<1>6. AskedFormat' = AskedFormat
  BY <1>2 DEF AskedFormat
<1>7. AskedParts' = AskedParts
  BY <1>4, <1>6, Zenon DEF AskedParts
<1>8. AskedImages' = AskedImages
  BY <1>5, <1>6, <1>7 DEF AskedImages
<1> QED BY <1>5, <1>6, <1>7, <1>8

\* Nothing is written when the program gives up.
LEMMA ExitKeeps ==
  ASSUME MainInv, OnlyOldFiles, UNCHANGED <<optionVars, scannerVars>>, NEW code, ExitWith(code),
         code \notin {0, 2} \/ yyparse # "accepted"
  PROVE  MainInv'
<1>1. phase' = "exit" /\ status' = code /\ files' = files /\ ~Ended' /\ yyparse' = yyparse
  BY DEF ExitWith, Ended, scannerVars, parseVars
<1>2. OptionsOK'
  <2>1. UNCHANGED <<command, optind, operands, error_in_options, settings>>
    BY DEF optionVars
  <2>2. IsSettings'
    BY <2>1 DEF MainInv, OptionsOK, IsSettings
  <2> QED BY <2>1, <2>2, SameOptions DEF MainInv
<1>3. NewFiles' = {} /\ OldFiles \subseteq DOMAIN files'
  BY <1>1, NoNewFiles DEF NewFiles
<1>4. PhaseOK'
  BY <1>1 DEF PhaseOK
<1>5. FilesMatch'
  BY <1>1, <1>3 DEF FilesMatch
<1> QED BY <1>2, <1>4, <1>5 DEF MainInv

LEMMA SameSettings ==
  ASSUME OptionsOK, UNCHANGED optionVars
  PROVE  OptionsOK' /\ NamesRead' = NamesRead
<1>1. UNCHANGED <<command, optind, operands, error_in_options, settings>>
  BY DEF optionVars
<1>2. IsSettings'
  BY <1>1 DEF OptionsOK, IsSettings
<1>3. NamesRead' = NamesRead
  BY <1>1, SameReading DEF NamesRead
<1> QED BY <1>1, <1>2, <1>3, SameOptions

LEMMA ReadCommandKeeps ==
  ASSUME MainInv, ReadCommand
  PROVE  MainInv'
<1>1. /\ phase = "options" /\ phase' = phase /\ files' = files /\ status' = status
      /\ yyparse' = yyparse /\ ReadOption
  BY DEF ReadCommand, mainVars, scannerVars, parseVars
<1>2. OptionsOK' /\ NamesRead'
  BY <1>1, OptionsKeep DEF MainInv, PhaseOK
<1>3. PhaseOK'
  BY <1>1, <1>2 DEF MainInv, PhaseOK, OnlyOldFiles
<1>4. FilesMatch'
  BY <1>1 DEF FilesMatch
<1> QED BY <1>2, <1>3, <1>4 DEF MainInv

LEMMA EndOfOptionsKeeps ==
  ASSUME MainInv, EndOfOptions
  PROVE  MainInv'
<1> DEFINE input == IF operands # <<>> THEN operands[1] ELSE settings.input_filename
           base == IF settings.output_filename = <<>> THEN Base(input)
                   ELSE settings.output_filename
<1>1. /\ phase = "options" /\ optind > Len(command) /\ ~error_in_options
      /\ settings' = [settings EXCEPT !.input_filename = input, !.output_filename = base]
      /\ ExitWith(1) \/ (phase' = "parse" /\ UNCHANGED <<files, warned, status>>)
      /\ UNCHANGED <<command, optind, operands, error_in_options, scannerVars, listingVars>>
  BY DEF EndOfOptions
<1>2. base = AskedBase
  BY <1>1, NamesAreAsked DEF MainInv, PhaseOK
<1> HIDE DEF base, input
<1>3. /\ IsSettings' /\ settings'.output_filename = base
      /\ settings'.section_addresses = settings.section_addresses
      /\ settings'.output_format = settings.output_format
      /\ settings'.word_size = settings.word_size
  BY <1>1 DEF MainInv, OptionsOK, IsSettings
<1>4. OptionsOK'
  BY <1>1, <1>3, SameOptions DEF MainInv
<1>5. AskedBase' = AskedBase
  BY <1>1, SameAsked
<1>6. OnlyOldFiles /\ yyparse = "running" /\ yyparse' = yyparse
  BY <1>1 DEF MainInv, PhaseOK, scannerVars, parseVars
<1>7. files' = files
  BY <1>1 DEF ExitWith
<1>8. OnlyOldFiles'
  BY <1>6, <1>7 DEF OnlyOldFiles
<1>9. PhaseOK'
  <2>1. CASE phase' = "exit"
    BY <2>1 DEF PhaseOK
  <2>2. CASE phase' = "parse"
    BY <1>1, <1>2, <1>3, <1>5, <1>8, <2>2 DEF PhaseOK
  <2> QED BY <1>1, <2>1, <2>2 DEF ExitWith
<1>10. FilesMatch'
  <2>1. NewFiles' = {} /\ OldFiles \subseteq DOMAIN files' /\ ~Ended'
    BY <1>6, <1>7, NoNewFiles DEF NewFiles, Ended
  <2> QED BY <2>1 DEF FilesMatch
<1> QED BY <1>4, <1>9, <1>10 DEF MainInv

LEMMA AssembleKeeps ==
  ASSUME MainInv, Assemble
  PROVE  MainInv'
<1>1. /\ phase = "parse" /\ yyparse = "accepted" /\ UNCHANGED <<optionVars, scannerVars>>
      /\ ExitWith(1) \/ (phase' = "listing" /\ files' = files /\ status' = status)
  BY DEF Assemble
<1>2. OnlyOldFiles /\ OptionsOK
  BY <1>1 DEF MainInv, PhaseOK
<1>3. CASE ExitWith(1)
  BY <1>1, <1>2, <1>3, ExitKeeps
<1>4. CASE phase' = "listing" /\ files' = files /\ status' = status
  <2>1. /\ command' = command /\ optind' = optind /\ error_in_options' = error_in_options
        /\ settings' = settings /\ yyparse' = yyparse
    BY <1>1 DEF optionVars, scannerVars, parseVars
  <2>2. OptionsOK' /\ OnlyOldFiles'
    BY <1>1, <1>2, <1>4, SameSettings DEF OnlyOldFiles
  <2>3. AskedBase' = AskedBase
    BY <2>1, SameAsked
  <2>4. PhaseOK'
    BY <1>1, <1>4, <2>1, <2>2, <2>3 DEF MainInv, PhaseOK
  <2>5. FilesMatch'
    BY <1>4 DEF FilesMatch
  <2> QED BY <2>2, <2>4, <2>5 DEF MainInv
<1> QED BY <1>1, <1>3, <1>4

LEMMA EndOfListingKeeps ==
  ASSUME MainInv, EndOfListing
  PROVE  MainInv'
<1>1. /\ phase = "listing" /\ phase' = "image" /\ UNCHANGED <<optionVars, scannerVars>>
      /\ Write({ListingFile(settings.output_filename)})
  BY DEF EndOfListing
<1>2. OnlyOldFiles /\ OptionsOK /\ settings.output_filename = AskedBase
  BY <1>1 DEF MainInv, PhaseOK
<1>3. /\ command' = command /\ optind' = optind /\ error_in_options' = error_in_options
      /\ settings' = settings /\ yyparse' = yyparse
  BY <1>1 DEF optionVars, scannerVars, parseVars
<1>4. OptionsOK' /\ AskedBase' = AskedBase
  BY <1>1, <1>2, <1>3, SameSettings, SameAsked
<1>5. /\ NewFiles' = Writable({ListingFile(AskedBase)})
      /\ OldFiles \subseteq DOMAIN files'
  <2>1. NewFiles = {} /\ OldFiles \subseteq DOMAIN files
    BY <1>2, NoNewFiles
  <2>2. NewFiles' = NewFiles \cup Writable({ListingFile(settings.output_filename)})
    BY <1>1, WriteAdds
  <2> QED BY <1>1, <1>2, <2>1, <2>2, WriteAdds
<1>6. (Writable({ListingFile(AskedBase)}))' = Writable({ListingFile(AskedBase)})
  BY <1>4
<1>7. PhaseOK'
  BY <1>1, <1>2, <1>3, <1>4, <1>5, <1>6 DEF MainInv, PhaseOK
<1>8. FilesMatch'
  BY <1>1 DEF FilesMatch
<1> QED BY <1>4, <1>7, <1>8 DEF MainInv

LEMMA WriteImagesKeeps ==
  ASSUME MainInv, WriteImages
  PROVE  MainInv'
<1> DEFINE images == {ImageFile(settings.output_filename, p, settings.output_format) :
                        p \in ImageParts(settings.output_format, settings.word_size)}
<1>1. /\ phase = "image" /\ phase' = "exit" /\ UNCHANGED <<optionVars, scannerVars>>
      /\ Write(images)
  BY Zenon DEF WriteImages
<1>2. /\ OptionsOK /\ optind > Len(command) /\ ~error_in_options
      /\ settings.output_filename = AskedBase /\ yyparse = "accepted"
      /\ NewFiles = Writable({ListingFile(AskedBase)}) /\ OldFiles \subseteq DOMAIN files
  BY <1>1 DEF MainInv, PhaseOK
<1>3. images = AskedImages
  BY <1>2, FormatIsAsked, Zenon DEF AskedImages
<1> HIDE DEF images
<1>4. /\ command' = command /\ settings' = settings /\ yyparse' = yyparse
      /\ error_in_options' = error_in_options
  BY <1>1 DEF optionVars, scannerVars, parseVars
<1>5. OptionsOK' /\ AskedBase' = AskedBase /\ AskedImages' = AskedImages
  BY <1>1, <1>2, <1>4, SameSettings, SameAsked
<1>6. /\ NewFiles' = Writable({ListingFile(AskedBase)}) \cup Writable(AskedImages)
      /\ OldFiles \subseteq DOMAIN files'
  BY <1>1, <1>2, <1>3, WriteAdds
<1>7. NewFiles' = Writable({ListingFile(AskedBase)} \cup AskedImages)
  BY <1>6 DEF Writable
<1>8. status' \in {0, 2} /\ Ended'
  BY <1>1, <1>2, <1>4 DEF WriteImages, Ended
<1>9. AddressesGiven'
  <2>1. AddressesGiven
    BY <1>2, AddressesAreGiven
  <2>2. \A c : (ArgumentsOf(c))' = ArgumentsOf(c)
    BY <1>4, SameCommand
  <2>3. \A n : (GivenAddress(n))' = GivenAddress(n)
    BY <1>4, <2>2 DEF GivenAddress
  <2> QED BY <1>4, <2>1, <2>3 DEF AddressesGiven
<1>10. FilesMatch'
  <2>1. (Writable({ListingFile(AskedBase)} \cup AskedImages))'
          = Writable({ListingFile(AskedBase)} \cup AskedImages)
    BY <1>5
  <2> QED BY <1>6, <1>7, <1>8, <1>9, <2>1 DEF FilesMatch
<1>11. PhaseOK'
  BY <1>1 DEF PhaseOK
<1> QED BY <1>5, <1>10, <1>11 DEF MainInv

\* Reading the source and writing rows.
LEMMA OthersKeep ==
  ASSUME MainInv, UNCHANGED <<optionVars, mainVars>>, yyparse' = yyparse \/ phase = "parse"
  PROVE  MainInv'
<1>1. /\ command' = command /\ optind' = optind /\ error_in_options' = error_in_options
      /\ settings' = settings /\ phase' = phase /\ files' = files /\ status' = status
  BY DEF optionVars, mainVars
<1>2. OptionsOK' /\ NamesRead' = NamesRead
  BY SameSettings DEF MainInv
<1>3. /\ AskedBase' = AskedBase /\ AskedImages' = AskedImages /\ NewFiles' = NewFiles
      /\ OnlyOldFiles' = OnlyOldFiles
  BY <1>1, SameAsked DEF NewFiles, OnlyOldFiles
<1>4. (Writable({ListingFile(AskedBase)}))' = Writable({ListingFile(AskedBase)})
      /\ (Writable({ListingFile(AskedBase)} \cup AskedImages))'
           = Writable({ListingFile(AskedBase)} \cup AskedImages)
  BY <1>3
<1>5. PhaseOK'
  BY <1>1, <1>2, <1>3, <1>4 DEF MainInv, PhaseOK
<1>6. FilesMatch'
  <2>1. CASE phase # "exit"
    BY <1>1, <2>1 DEF FilesMatch
  <2>2. CASE phase = "exit"
    <3>1. yyparse' = yyparse /\ Ended' = Ended
      BY <1>1, <2>2 DEF Ended
    <3>2. AddressesGiven' = AddressesGiven
      <4>1. \A c : (ArgumentsOf(c))' = ArgumentsOf(c)
        BY <1>1, SameCommand
      <4>2. \A n : (GivenAddress(n))' = GivenAddress(n)
        BY <1>1, <4>1 DEF GivenAddress
      <4> QED BY <1>1, <4>2 DEF AddressesGiven
    <3>3. FilesMatch
      BY DEF MainInv
    <3> QED BY <1>1, <1>3, <1>4, <2>2, <3>1, <3>2, <3>3 DEF FilesMatch
  <2> QED BY <2>1, <2>2
<1> QED BY <1>2, <1>5, <1>6 DEF MainInv

LEMMA MainBegins ==
  ASSUME Init
  PROVE  MainInv
<1>1. PICK i \in Inputs : OptionsInit(i.command) /\ ScannerInit(i.file)
  BY DEF Init
<1>2. OptionsOK /\ NamesRead
  BY <1>1, InputsAssumption, OptionsBegin
<1>3. phase = "options" /\ OnlyOldFiles /\ yyparse = "running"
  BY <1>1 DEF Init, OnlyOldFiles, ScannerInit
<1>4. PhaseOK
  BY <1>2, <1>3 DEF PhaseOK
<1>5. FilesMatch
  BY <1>3 DEF FilesMatch
<1> QED BY <1>2, <1>4, <1>5 DEF MainInv

LEMMA MainStays ==
  ASSUME MainInv, [Next]_vars
  PROVE  MainInv'
<1>1. CASE ReadCommand
  BY <1>1, ReadCommandKeeps
<1>2. CASE Help
  BY <1>2, ExitKeeps DEF Help, MainInv, PhaseOK
<1>3. CASE OptionsRefused
  BY <1>3, ExitKeeps DEF OptionsRefused, MainInv, PhaseOK
<1>4. CASE EndOfOptions
  BY <1>4, EndOfOptionsKeeps
<1>5. CASE ReadSource
  BY <1>5, OthersKeep DEF ReadSource
<1>6. CASE SourceRefused
  BY <1>6, ExitKeeps DEF SourceRefused, MainInv, PhaseOK
<1>7. CASE Assemble
  BY <1>7, AssembleKeeps
<1>8. CASE WriteRows
  BY <1>8, OthersKeep DEF WriteRows, scannerVars, parseVars
<1>9. CASE EndOfListing
  BY <1>9, EndOfListingKeeps
<1>10. CASE WriteImages
  BY <1>10, WriteImagesKeeps
<1>11. CASE UNCHANGED vars
  BY <1>11, OthersKeep DEF vars, scannerVars, parseVars
<1> QED BY <1>1, <1>2, <1>3, <1>4, <1>5, <1>6, <1>7, <1>8, <1>9, <1>10, <1>11 DEF Next

\* Whatever the order of options and operands, the run that succeeds has
\* written the listing and the images the command line asks for, where their
\* directories exist, and no other file, named after -o or else after the
\* source, whose last dot is then in the name of the file; a run that fails has
\* written none.
\* Each section named by -s has the address of its first -s.
THEOREM FilesAreAsked == Spec => []FilesMatchTheOptions
<1>1. Init => MainInv
  BY MainBegins
<1>2. MainInv /\ [Next]_vars => MainInv'
  BY MainStays
<1>3. MainInv => FilesMatchTheOptions
  BY FilesMatchMeans DEF MainInv
<1> QED BY <1>1, <1>2, <1>3, PTL DEF Spec

-----------------------------------------------------------------------------
\* Sequences put end to end.

LEMMA FlattenIs ==
  ASSUME NEW X, NEW s \in Seq(Seq(X))
  PROVE  \E f : IsQueue(f, s, Len(s)) /\ f \in [0 .. Len(s) -> Seq(X)]
                /\ FlattenSeq(s) = f[Len(s)]
<1> DEFINE n == Len(s)
           body(g) == [i \in 1 .. n |-> IF i = 1 THEN s[i] ELSE g[i - 1] \o s[i]]
<1>1. n \in Nat /\ \A k \in 1 .. n : s[k] \in Seq(X)
  OBVIOUS
<1>2. PICK f : IsQueue(f, s, n) /\ f \in [0 .. n -> Seq(X)]
  <2> HIDE DEF n
  <2> QED BY <1>1, QueueExists
<1>3. f[0] = <<>> /\ \A k \in 1 .. n : f[k] = f[k - 1] \o s[k]
  <2> HIDE DEF n
  <2> QED BY <1>1, <1>2, QueueSteps, ZenonT(40) DEF Extends
<1>4. CASE n = 0
  <2>1. s = <<>>
    BY <1>4
  <2>2. FlattenSeq(s) = s
    BY <1>4 DEF FlattenSeq
  <2> QED BY <1>2, <1>3, <1>4, <2>1, <2>2
<1>5. CASE n # 0
  <2> DEFINE g == CHOOSE h : h = body(h)
             h == [i \in 1 .. n |-> f[i]]
  <2>1. FlattenSeq(s) = g[n]
    BY <1>5, Zenon DEF FlattenSeq
  <2>2. h = body(h)
    <3>1. ASSUME NEW i \in 1 .. n
          PROVE  h[i] = IF i = 1 THEN s[i] ELSE h[i - 1] \o s[i]
      <4>1. CASE i = 1
        <5>1. f[0] \o s[1] = s[1] /\ i - 1 = 0
          BY <1>1, <1>3, <4>1
        <5> QED BY <1>3, <4>1, <5>1
      <4>2. CASE i # 1
        <5>1. i - 1 \in 1 .. n
          BY <1>1, <4>2
        <5>2. h[i] = f[i] /\ h[i - 1] = f[i - 1]
          BY <5>1
        <5> QED BY <1>3, <4>2, <5>2
      <4> QED BY <4>1, <4>2
    <3>2. h = [i \in 1 .. n |-> h[i]]
      OBVIOUS
    <3> HIDE DEF h, n
    <3> QED BY <3>1, <3>2, Zenon
  <2>3. g = body(g)
    <3> HIDE DEF h, n
    <3> QED BY <2>2, Zenon
  <2> HIDE DEF g, h
  <2>4. \A i \in 1 .. n : g[i] = IF i = 1 THEN s[i] ELSE g[i - 1] \o s[i]
    <3> HIDE DEF n
    <3> QED BY <2>3, Zenon
  <2> DEFINE S == {m \in Nat : m + 1 <= n => g[m + 1] = f[m + 1]}
  <2>5. 0 \in S
    <3>1. f[0] \o s[1] = s[1] /\ 1 \in 1 .. n
      BY <1>1, <1>3, <1>5
    <3>2. g[1] = s[1] /\ f[1] = f[0] \o s[1]
      <4>1. 1 - 1 = 0
        OBVIOUS
      <4> QED BY <1>3, <2>4, <3>1, <4>1
    <3>3. g[0 + 1] = f[0 + 1]
      <4>1. 0 + 1 = 1
        OBVIOUS
      <4> QED BY <3>1, <3>2, <4>1
    <3> QED BY <3>3
  <2>6. ASSUME NEW m \in Nat, m \in S
        PROVE  m + 1 \in S
    <3> SUFFICES ASSUME (m + 1) + 1 <= n
                 PROVE  g[(m + 1) + 1] = f[(m + 1) + 1]
      OBVIOUS
    <3>1. PICK i \in Nat : i = (m + 1) + 1
      OBVIOUS
    <3>2. i \in 1 .. n /\ i # 1 /\ i - 1 = m + 1 /\ g[m + 1] = f[m + 1]
      BY <1>1, <2>6, <3>1
    <3> HIDE DEF n
    <3>3. g[i] = g[m + 1] \o s[i] /\ f[i] = f[m + 1] \o s[i]
      BY <1>3, <2>4, <3>2
    <3> QED BY <3>1, <3>2, <3>3
  <2>7. Nat \subseteq S
    <3> HIDE DEF S
    <3> QED BY <2>5, <2>6, SetInduction
  <2>8. n - 1 \in Nat /\ (n - 1) + 1 = n
    BY <1>1, <1>5
  <2>9. g[n] = f[n]
    <3>1. n - 1 \in S
      BY <2>7, <2>8
    <3> HIDE DEF n
    <3> QED BY <1>1, <2>8, <3>1
  <2> QED BY <1>2, <2>1, <2>9
<1> QED BY <1>4, <1>5

LEMMA FlattenType ==
  ASSUME NEW X, NEW s \in Seq(Seq(X))
  PROVE  FlattenSeq(s) \in Seq(X)
<1>1. PICK f : f \in [0 .. Len(s) -> Seq(X)] /\ FlattenSeq(s) = f[Len(s)]
  BY FlattenIs
<1>2. Len(s) \in 0 .. Len(s)
  OBVIOUS
<1> QED BY <1>1, <1>2

LEMMA FlattenNone == FlattenSeq(<<>>) = <<>>
BY DEF FlattenSeq

LEMMA FlattenAppend ==
  ASSUME NEW X, NEW s \in Seq(Seq(X)), NEW x \in Seq(X)
  PROVE  FlattenSeq(Append(s, x)) = FlattenSeq(s) \o x
<1> DEFINE n == Len(s)
           t == Append(s, x)
<1>1. /\ t \in Seq(Seq(X)) /\ Len(t) = n + 1 /\ n \in Nat
      /\ t[n + 1] = x /\ \A k \in 1 .. n : t[k] = s[k]
  OBVIOUS
<1>2. PICK f : IsQueue(f, s, n) /\ FlattenSeq(s) = f[n]
  <2>1. \E f : IsQueue(f, s, Len(s)) /\ FlattenSeq(s) = f[Len(s)]
    BY FlattenIs
  <2> QED BY <2>1
<1> HIDE DEF t, n
<1>3. PICK g : IsQueue(g, t, n + 1) /\ FlattenSeq(t) = g[n + 1]
  <2>1. \E g : IsQueue(g, t, Len(t)) /\ FlattenSeq(t) = g[Len(t)]
    BY <1>1, FlattenIs
  <2> QED BY <1>1, <2>1
<1>4. PICK m \in Nat : m = n + 1 /\ n <= m
  BY <1>1
<1>5. IsQueue(g, t, m) /\ Agree(s, t, 1, n)
  BY <1>1, <1>3, <1>4 DEF Agree
<1>6. f[n] = g[n]
  <2>1. Agree(f, g, 0, n)
    BY <1>1, <1>2, <1>4, <1>5, QueuesAgree
  <2> QED BY <1>1, <2>1 DEF Agree
<1>7. g[m] = g[n] \o t[m]
  <2>1. m \in 1 .. m /\ m - 1 = n
    BY <1>1, <1>4
  <2>2. Extends(g, t, m)
    BY <1>5, <2>1, QueueSteps
  <2> QED BY <2>1, <2>2 DEF Extends
<1> QED BY <1>1, <1>2, <1>3, <1>4, <1>6, <1>7 DEF t

LEMMA FlattenConcat ==
  ASSUME NEW X, NEW s \in Seq(Seq(X)), NEW t \in Seq(Seq(X))
  PROVE  FlattenSeq(s \o t) = FlattenSeq(s) \o FlattenSeq(t)
<1> DEFINE Q == Seq(X)
           P(m) == [i \in 1 .. m |-> t[i]]
           S == {m \in Nat : m <= Len(t) => FlattenSeq(s \o P(m)) = FlattenSeq(s) \o FlattenSeq(P(m))}
<1>0. s \in Seq(Q) /\ t \in Seq(Q) /\ Len(t) \in Nat /\ Len(s) \in Nat
  OBVIOUS
<1> HIDE DEF Q
<1>1. FlattenSeq(s) \in Seq(X)
  BY FlattenType
<1>2. 0 \in S
  <2>1. P(0) = <<>>
    OBVIOUS
  <2>2. s \o <<>> = s /\ FlattenSeq(s) \o <<>> = FlattenSeq(s)
    BY <1>0, <1>1, ConcatEmptySeq
  <2> HIDE DEF P
  <2> QED BY <2>1, <2>2, FlattenNone
<1>3. ASSUME NEW m \in Nat, m \in S
      PROVE  m + 1 \in S
  <2> SUFFICES ASSUME m + 1 <= Len(t)
               PROVE  FlattenSeq(s \o P(m + 1)) = FlattenSeq(s) \o FlattenSeq(P(m + 1))
    OBVIOUS
  <2>1. P(m) \in Seq(Q) /\ Len(P(m)) = m /\ t[m + 1] \in Q
    BY <1>0
  <2>2. P(m + 1) = Append(P(m), t[m + 1])
    <3>1. P(m + 1) \in Seq(Q) /\ Len(P(m + 1)) = m + 1
      BY <1>0
    <3>2. Append(P(m), t[m + 1]) \in Seq(Q) /\ Len(Append(P(m), t[m + 1])) = m + 1
      BY <2>1
    <3>3. \A i \in 1 .. m + 1 : P(m + 1)[i] = Append(P(m), t[m + 1])[i]
      BY <2>1
    <3> HIDE DEF P
    <3> QED BY <3>1, <3>2, <3>3, SeqEqual
  <2>3. FlattenSeq(s \o P(m)) = FlattenSeq(s) \o FlattenSeq(P(m))
    BY <1>3
  <2> HIDE DEF P
  <2>4. s \o P(m) \in Seq(Q)
    BY <1>0, <2>1
  <2>5. s \o P(m + 1) = Append(s \o P(m), t[m + 1])
    <3>1. PICK p \in Seq(Q), x \in Q : p = P(m) /\ x = t[m + 1]
      BY <2>1
    <3>2. /\ Append(p, x) = p \o <<x>> /\ Append(s \o p, x) = (s \o p) \o <<x>>
          /\ <<x>> \in Seq(Q)
      BY <1>0, <3>1, AppendIsConcat, ConcatProperties, SMTT(40)
    <3>3. (s \o p) \o <<x>> = s \o (p \o <<x>>)
      <4>1. s \in Seq(Q) /\ <<x>> \in Seq(Q)
        BY <1>0, <3>2
      <4> QED BY <4>1, SMTT(40)
    <3> QED BY <2>2, <3>1, <3>2, <3>3
  <2>6. /\ FlattenSeq(Append(s \o P(m), t[m + 1])) = FlattenSeq(s \o P(m)) \o t[m + 1]
        /\ FlattenSeq(Append(P(m), t[m + 1])) = FlattenSeq(P(m)) \o t[m + 1]
        /\ FlattenSeq(P(m)) \in Seq(X) /\ t[m + 1] \in Seq(X)
    BY <2>1, <2>4, FlattenAppend, FlattenType DEF Q
  <2>7. (FlattenSeq(s) \o FlattenSeq(P(m))) \o t[m + 1]
          = FlattenSeq(s) \o (FlattenSeq(P(m)) \o t[m + 1])
    <3>1. PICK a \in Seq(X), b \in Seq(X), c \in Seq(X) :
            a = FlattenSeq(s) /\ b = FlattenSeq(P(m)) /\ c = t[m + 1]
      BY <1>1, <2>6
    <3>2. (a \o b) \o c = a \o (b \o c)
      BY SMTT(40)
    <3> QED BY <3>1, <3>2
  <2> QED BY <2>2, <2>3, <2>5, <2>6, <2>7
<1> HIDE DEF S
<1>4. Len(t) \in S
  BY <1>0, <1>2, <1>3, SetInduction
<1>5. FlattenSeq(s \o P(Len(t))) = FlattenSeq(s) \o FlattenSeq(P(Len(t)))
  BY <1>0, <1>4 DEF S
<1>6. P(Len(t)) = t
  BY <1>0
<1> QED BY <1>5, <1>6

-----------------------------------------------------------------------------
\* The bytes a listing shows.

RowType == [number : Nat, text : Nat, cells : Seq(Nat)]

\* The bytes of the rows with the number, in order.
CellsOf(line, s) ==
  FlattenSeq([n \in DOMAIN s |-> IF s[n].number = line THEN s[n].cells ELSE <<>>])

LEMMA CellsAre ==
  ASSUME NEW o \in Nat, NEW n \in Nat
  PROVE  /\ Cells(o, n) \in Seq(Nat) /\ Len(Cells(o, n)) = n
         /\ \A k \in 1 .. n : Cells(o, n)[k] = o + k - 1
BY DEF Cells

LEMMA OneCell ==
  ASSUME NEW o \in Nat
  PROVE  Cells(o, 1) = <<o>>
<1>1. PICK n \in Nat : n = 1
  OBVIOUS
<1>2. PICK c : c = Cells(o, n)
  OBVIOUS
<1>3. c \in Seq(Nat) /\ Len(c) = n /\ \A k \in 1 .. n : c[k] = o + k - 1
  BY <1>2, CellsAre
<1>4. c[1] = o
  BY <1>1, <1>3
<1>5. c = <<o>>
  BY <1>1, <1>3, <1>4
<1> QED BY <1>1, <1>2, <1>5

LEMMA NoCell ==
  ASSUME NEW o \in Nat
  PROVE  Cells(o, 0) = <<>>
<1>1. PICK n \in Nat : n = 0
  OBVIOUS
<1>2. PICK c : c = Cells(o, n)
  OBVIOUS
<1>3. c \in Seq(Nat) /\ Len(c) = n
  BY <1>2, CellsAre
<1> QED BY <1>1, <1>2, <1>3

LEMMA Pair ==
  ASSUME NEW X, NEW x \in X, NEW y \in X
  PROVE  <<x>> \o <<y>> = <<x, y>>
<1>1. <<x>> \in Seq(X) /\ <<y>> \in Seq(X) /\ <<x, y>> \in Seq(X)
  OBVIOUS
<1>2. PICK s \in Seq(X), t \in Seq(X), u \in Seq(X) : s = <<x>> /\ t = <<y>> /\ u = <<x, y>>
  BY <1>1, Zenon
<1>3. Len(s) = 1 /\ s[1] = x /\ Len(t) = 1 /\ t[1] = y /\ Len(u) = 2 /\ u[1] = x /\ u[2] = y
  BY <1>2
<1>4. PICK c : c = s \o t
  OBVIOUS
<1>5. /\ c \in Seq(X) /\ Len(c) = Len(s) + Len(t)
      /\ \A i \in 1 .. Len(s) + Len(t) : c[i] = IF i <= Len(s) THEN s[i] ELSE t[i - Len(s)]
  BY <1>4
<1>6. Len(c) = 2 /\ c[1] = x /\ c[2] = y
  BY <1>3, <1>5
<1>7. c = u
  BY <1>3, <1>5, <1>6, SeqEqual
<1> QED BY <1>2, <1>4, <1>7, Zenon

LEMMA CellsJoin ==
  ASSUME NEW o \in Nat, NEW m \in Nat, NEW n \in Nat
  PROVE  Cells(o, m) \o Cells(o + m, n) = Cells(o, m + n)
<1>1. PICK a, b, c : a = Cells(o, m) /\ b = Cells(o + m, n) /\ c = Cells(o, m + n)
  OBVIOUS
<1>2. /\ a \in Seq(Nat) /\ Len(a) = m /\ \A k \in 1 .. m : a[k] = o + k - 1
      /\ b \in Seq(Nat) /\ Len(b) = n /\ \A k \in 1 .. n : b[k] = (o + m) + k - 1
      /\ c \in Seq(Nat) /\ Len(c) = m + n /\ \A k \in 1 .. m + n : c[k] = o + k - 1
  <2>1. o + m \in Nat /\ m + n \in Nat
    OBVIOUS
  <2> QED BY <1>1, <2>1, CellsAre
<1>3. /\ a \o b \in Seq(Nat) /\ Len(a \o b) = m + n
      /\ \A k \in 1 .. m + n : (a \o b)[k] = IF k <= m THEN a[k] ELSE b[k - m]
  BY <1>2, ConcatProperties, ZenonT(40)
<1>4. ASSUME NEW k \in 1 .. m + n
      PROVE  (a \o b)[k] = c[k]
  <2>1. CASE k <= m
    <3>1. k \in 1 .. m
      BY <2>1
    <3> QED BY <1>2, <1>3, <2>1, <3>1
  <2>2. CASE ~(k <= m)
    <3>1. k - m \in 1 .. n
      BY <2>2
    <3>2. (a \o b)[k] = b[k - m] /\ b[k - m] = (o + m) + (k - m) - 1 /\ c[k] = o + k - 1
      BY <1>2, <1>3, <2>2, <3>1
    <3> QED BY <3>2
  <2> QED BY <2>1, <2>2
<1>5. a \o b = c
  <2>1. PICK d : d = a \o b
    OBVIOUS
  <2>2. d \in Seq(Nat) /\ Len(d) = Len(c) /\ \A k \in 1 .. Len(d) : d[k] = c[k]
    BY <1>2, <1>3, <1>4, <2>1
  <2>3. d = c
    BY <1>2, <2>2, SeqEqual
  <2> QED BY <2>1, <2>3
<1> QED BY <1>1, <1>5

\* Parts that show consecutive bytes show them all: part k those from b[k - 1]
\* up to b[k].
LEMMA FlattenCells ==
  ASSUME NEW s \in Seq(Seq(Nat)), NEW b \in [0 .. Len(s) -> Nat],
         \A k \in 1 .. Len(s) : /\ b[k - 1] <= b[k]
                                /\ s[k] = Cells(b[k - 1], b[k] - b[k - 1])
  PROVE  b[0] <= b[Len(s)] /\ FlattenSeq(s) = Cells(b[0], b[Len(s)] - b[0])
<1> DEFINE n == Len(s)
<1>1. n \in Nat
  OBVIOUS
<1>2. PICK f : IsQueue(f, s, n) /\ FlattenSeq(s) = f[n]
  <2>1. \E f : IsQueue(f, s, Len(s)) /\ FlattenSeq(s) = f[Len(s)]
    BY FlattenIs
  <2> QED BY <2>1
<1> HIDE DEF n
<1>3. f[0] = <<>> /\ \A k \in 1 .. n : f[k] = f[k - 1] \o s[k]
  BY <1>1, <1>2, QueueSteps, ZenonT(40) DEF Extends
<1>4. \A k \in 0 .. n : b[k] \in Nat
  BY <1>1 DEF n
<1> DEFINE S == {m \in Nat : m <= n => b[0] <= b[m] /\ f[m] = Cells(b[0], b[m] - b[0])}
<1>5. 0 \in S
  <2>1. b[0] \in Nat /\ b[0] - b[0] = 0
    BY <1>1, <1>4
  <2>2. Cells(b[0], 0) = <<>>
    BY <2>1, NoCell
  <2> QED BY <1>3, <2>1, <2>2
<1>6. ASSUME NEW m \in Nat, m \in S
      PROVE  m + 1 \in S
  <2> SUFFICES ASSUME m + 1 <= n
               PROVE  b[0] <= b[m + 1] /\ f[m + 1] = Cells(b[0], b[m + 1] - b[0])
    OBVIOUS
  <2>1. PICK k \in 1 .. n : k = m + 1 /\ k - 1 = m
    BY <1>1
  <2>2. b[0] <= b[m] /\ f[m] = Cells(b[0], b[m] - b[0])
    BY <1>1, <1>6
  <2>3. b[0] \in Nat /\ b[m] \in Nat /\ b[k] \in Nat
    <3>1. 0 \in 0 .. n /\ m \in 0 .. n /\ k \in 0 .. n
      BY <1>1, <2>1
    <3> QED BY <1>4, <3>1
  <2>4. b[m] <= b[k] /\ s[k] = Cells(b[m], b[k] - b[m])
    BY <2>1 DEF n
  <2>5. f[k] = f[m] \o s[k]
    BY <1>3, <2>1
  <2>6. PICK d \in Nat, e \in Nat : d = b[m] - b[0] /\ e = b[k] - b[m]
    BY <2>2, <2>3, <2>4
  <2>7. b[m] = b[0] + d /\ b[k] - b[0] = d + e
    BY <2>3, <2>6
  <2>8. Cells(b[0], d) \o Cells(b[0] + d, e) = Cells(b[0], d + e)
    <3>1. PICK o \in Nat : o = b[0]
      BY <2>3
    <3>2. Cells(o, d) \o Cells(o + d, e) = Cells(o, d + e)
      BY CellsJoin
    <3> QED BY <3>1, <3>2
  <2>9. f[k] = Cells(b[0], b[k] - b[0])
    BY <2>2, <2>4, <2>5, <2>6, <2>7, <2>8
  <2>10. b[0] <= b[k]
    BY <2>2, <2>3, <2>4
  <2> QED BY <2>1, <2>9, <2>10
<1>7. n \in S
  <2> HIDE DEF S
  <2> QED BY <1>1, <1>5, <1>6, SetInduction
<1>8. b[0] <= b[n] /\ f[n] = Cells(b[0], b[n] - b[0])
  BY <1>1, <1>7
<1> QED BY <1>2, <1>8 DEF n

LEMMA CellsOfType ==
  ASSUME NEW line, NEW s \in Seq(RowType)
  PROVE  CellsOf(line, s) \in Seq(Nat)
         /\ [n \in DOMAIN s |-> IF s[n].number = line THEN s[n].cells ELSE <<>>] \in Seq(Seq(Nat))
<1> DEFINE A == [n \in DOMAIN s |-> IF s[n].number = line THEN s[n].cells ELSE <<>>]
<1>1. \A n \in DOMAIN s : s[n].cells \in Seq(Nat)
  <2>1. \A n \in DOMAIN s : s[n] \in RowType
    OBVIOUS
  <2> QED BY <2>1 DEF RowType
<1>2. <<>> \in Seq(Nat) /\ DOMAIN s = 1 .. Len(s) /\ Len(s) \in Nat
  OBVIOUS
<1>3. PICK Q : Q = Seq(Nat)
  OBVIOUS
<1>4. A \in Seq(Q)
  BY <1>1, <1>2, <1>3
<1>5. FlattenSeq(A) \in Seq(Nat)
  <2> HIDE DEF A
  <2> QED BY <1>3, <1>4, FlattenType
<1> QED BY <1>3, <1>4, <1>5 DEF CellsOf

LEMMA CellsOfConcat ==
  ASSUME NEW line, NEW s \in Seq(RowType), NEW t \in Seq(RowType)
  PROVE  CellsOf(line, s \o t) = CellsOf(line, s) \o CellsOf(line, t)
<1> DEFINE A(r) == [n \in DOMAIN r |-> IF r[n].number = line THEN r[n].cells ELSE <<>>]
<1>1. PICK u : u = s \o t
  OBVIOUS
<1>2. u \in Seq(RowType) /\ Len(u) = Len(s) + Len(t)
      /\ \A n \in 1 .. Len(s) + Len(t) : u[n] = IF n <= Len(s) THEN s[n] ELSE t[n - Len(s)]
  BY <1>1, ConcatProperties
<1>3. PICK Q : Q = Seq(Nat)
  OBVIOUS
<1>4. A(s) \in Seq(Q) /\ A(t) \in Seq(Q) /\ A(u) \in Seq(Q)
  BY <1>2, <1>3, CellsOfType, Zenon
<1>5. /\ Len(A(s)) = Len(s) /\ Len(A(t)) = Len(t) /\ Len(A(u)) = Len(u)
      /\ \A n \in 1 .. Len(s) : A(s)[n] = IF s[n].number = line THEN s[n].cells ELSE <<>>
      /\ \A n \in 1 .. Len(t) : A(t)[n] = IF t[n].number = line THEN t[n].cells ELSE <<>>
      /\ \A n \in 1 .. Len(u) : A(u)[n] = IF u[n].number = line THEN u[n].cells ELSE <<>>
  BY <1>2
<1> HIDE DEF A
<1>6. PICK a \in Seq(Q), b \in Seq(Q), c \in Seq(Q) : a = A(s) /\ b = A(t) /\ c = A(u)
  BY <1>4
<1>7. Len(s) \in Nat /\ Len(t) \in Nat
  OBVIOUS
<1>8. PICK d : d = a \o b
  OBVIOUS
<1>9. /\ d \in Seq(Q) /\ Len(d) = Len(s) + Len(t)
      /\ \A n \in 1 .. Len(s) + Len(t) : d[n] = IF n <= Len(s) THEN a[n] ELSE b[n - Len(s)]
  <2>1. Len(a) = Len(s) /\ Len(b) = Len(t)
    BY <1>5, <1>6
  <2>2. /\ a \o b \in Seq(Q) /\ Len(a \o b) = Len(a) + Len(b)
        /\ \A n \in 1 .. Len(a) + Len(b) :
             (a \o b)[n] = IF n <= Len(a) THEN a[n] ELSE b[n - Len(a)]
    OBVIOUS
  <2> QED BY <1>8, <2>1, <2>2
<1>10. ASSUME NEW n \in 1 .. Len(s) + Len(t)
       PROVE  c[n] = d[n]
  <2>1. c[n] = IF u[n].number = line THEN u[n].cells ELSE <<>>
    BY <1>2, <1>5, <1>6
  <2>2. CASE n <= Len(s)
    <3>1. n \in 1 .. Len(s) /\ u[n] = s[n] /\ d[n] = a[n]
      BY <1>2, <1>7, <1>9, <2>2
    <3> QED BY <1>5, <1>6, <2>1, <3>1
  <2>3. CASE ~(n <= Len(s))
    <3>1. n - Len(s) \in 1 .. Len(t) /\ u[n] = t[n - Len(s)] /\ d[n] = b[n - Len(s)]
      BY <1>2, <1>7, <1>9, <2>3
    <3> QED BY <1>5, <1>6, <2>1, <3>1
  <2> QED BY <2>2, <2>3
<1>11. c = d
  <2>1. Len(c) = Len(d) /\ Len(d) = Len(s) + Len(t)
    BY <1>2, <1>5, <1>6, <1>9
  <2> QED BY <1>9, <1>10, <2>1, SeqEqual
<1>12. FlattenSeq(a \o b) = FlattenSeq(a) \o FlattenSeq(b)
  BY <1>3, FlattenConcat
<1>13. /\ CellsOf(line, s) = FlattenSeq(A(s)) /\ CellsOf(line, t) = FlattenSeq(A(t))
       /\ CellsOf(line, u) = FlattenSeq(A(u))
  BY Zenon DEF A, CellsOf
<1> QED BY <1>1, <1>6, <1>8, <1>11, <1>12, <1>13

LEMMA CellsOfOthers ==
  ASSUME NEW line, NEW s \in Seq(RowType), \A n \in DOMAIN s : s[n].number # line
  PROVE  CellsOf(line, s) = <<>>
<1> DEFINE A == [n \in DOMAIN s |-> IF s[n].number = line THEN s[n].cells ELSE <<>>]
           b == [k \in 0 .. Len(A) |-> 0]
<1>1. PICK Q : Q = Seq(Nat)
  OBVIOUS
<1>2. A \in Seq(Seq(Nat))
  BY CellsOfType
<1>3. Len(A) = Len(s) /\ Len(s) \in Nat /\ \A k \in 1 .. Len(s) : A[k] = <<>>
  OBVIOUS
<1> HIDE DEF A
<1>4. Cells(0, 0) = <<>>
  BY NoCell
<1>5. b \in [0 .. Len(A) -> Nat] /\ \A k \in 0 .. Len(A) : b[k] = 0
  OBVIOUS
<1> HIDE DEF b
<1>6. ASSUME NEW k \in 1 .. Len(A)
      PROVE  b[k - 1] <= b[k] /\ A[k] = Cells(b[k - 1], b[k] - b[k - 1])
  <2>1. k - 1 \in 0 .. Len(A) /\ k \in 0 .. Len(A) /\ 0 - 0 = 0
    BY <1>3
  <2>2. b[k - 1] = 0 /\ b[k] = 0 /\ A[k] = <<>>
    BY <1>3, <1>5, <2>1
  <2> QED BY <1>4, <2>1, <2>2
<1>7. FlattenSeq(A) = Cells(b[0], b[Len(A)] - b[0])
  BY <1>2, <1>5, <1>6, FlattenCells
<1>8. b[0] = 0 /\ b[Len(A)] = 0 /\ 0 - 0 = 0
  BY <1>3, <1>5
<1> QED BY <1>4, <1>7, <1>8, Zenon DEF A, CellsOf

-----------------------------------------------------------------------------
\* The rows of a statement.

\* Rows of one statement that show consecutive bytes.
LEMMA RowsShow ==
  ASSUME NEW line, NEW m \in Seq(RowType), \A n \in DOMAIN m : m[n].number = line,
         NEW b \in [0 .. Len(m) -> Nat],
         \A k \in 1 .. Len(m) : /\ b[k - 1] <= b[k]
                                /\ m[k].cells = Cells(b[k - 1], b[k] - b[k - 1])
  PROVE  b[0] <= b[Len(m)] /\ CellsOf(line, m) = Cells(b[0], b[Len(m)] - b[0])
<1> DEFINE A == [n \in DOMAIN m |-> IF m[n].number = line THEN m[n].cells ELSE <<>>]
<1>1. A \in Seq(Seq(Nat))
  BY CellsOfType
<1>2. Len(A) = Len(m) /\ Len(m) \in Nat /\ \A k \in 1 .. Len(m) : A[k] = m[k].cells
  OBVIOUS
<1> HIDE DEF A
<1>3. b \in [0 .. Len(A) -> Nat]
      /\ \A k \in 1 .. Len(A) : b[k - 1] <= b[k] /\ A[k] = Cells(b[k - 1], b[k] - b[k - 1])
  BY <1>2
<1>4. b[0] <= b[Len(A)] /\ FlattenSeq(A) = Cells(b[0], b[Len(A)] - b[0])
  BY <1>1, <1>3, FlattenCells
<1>5. CellsOf(line, m) = FlattenSeq(A)
  BY Zenon DEF A, CellsOf
<1> QED BY <1>2, <1>4, <1>5

\* Rows that belong to a statement and have no source line.
RowsOf(m, s) == /\ m \in Seq(RowType)
                /\ \A n \in DOMAIN m : m[n].number = s.line /\ m[n].text = 0

\* hex_dump shows every byte, in order and once.
LEMMA HexDumpShows ==
  ASSUME NEW s \in StatementType
  PROVE  RowsOf(HexDump(s), s) /\ CellsOf(s.line, HexDump(s)) = Cells(s.offset, s.size)
<1>1. PICK o \in Nat, z \in Nat, line \in Nat : o = s.offset /\ z = s.size /\ line = s.line
  BY DEF StatementType
<1>2. PICK W \in Nat \ {0} : W = HexWidth
  BY HexWidthAssumption
<1>3. PICK full, rest : full = z \div W /\ rest = z % W
  OBVIOUS
<1>4. full \in Nat /\ rest \in 0 .. W - 1 /\ z = full * W + rest
  <2>1. full \in Int /\ rest \in 0 .. W - 1 /\ z = full * W + rest
    BY <1>3, QuotientAndRest
  <2>2. full >= 0
    <3>1. full <= -1 => full * W <= -W
      BY <2>1, Multiples
    <3>2. full * W \in Int
      BY <2>1
    <3> QED BY <2>1, <3>1, <3>2
  <2> QED BY <2>1, <2>2
<1> DEFINE n == full + (IF rest > 0 THEN 1 ELSE 0)
           m == [k \in 1 .. n |->
                   Row(line, 0, Cells(o + (k - 1) * W, IF k <= full THEN W ELSE rest))]
           b == [k \in 0 .. n |-> o + (IF k <= full THEN k * W ELSE z)]
<1>5. HexDump(s) = m
  BY <1>1, <1>2, <1>3, Zenon DEF HexDump
<1>6. n \in Nat /\ n >= full /\ n <= full + 1 /\ (n > full <=> rest > 0)
  BY <1>4
<1> HIDE DEF n
<1>7. \A k \in Nat : k * W \in Nat
  OBVIOUS
<1>8. \A k \in 1 .. n : Cells(o + (k - 1) * W, IF k <= full THEN W ELSE rest) \in Seq(Nat)
  <2> SUFFICES ASSUME NEW k \in 1 .. n
               PROVE  Cells(o + (k - 1) * W, IF k <= full THEN W ELSE rest) \in Seq(Nat)
    OBVIOUS
  <2>1. k - 1 \in Nat
    BY <1>6
  <2>2. (k - 1) * W \in Nat
    BY <1>7, <2>1
  <2>3. PICK x \in Nat, y \in Nat : x = o + (k - 1) * W /\ y = IF k <= full THEN W ELSE rest
    BY <1>4, <2>2
  <2>4. Cells(x, y) \in Seq(Nat)
    BY CellsAre
  <2> QED BY <2>3, <2>4
<1>9. RowsOf(m, s) /\ Len(m) = n
  <2>1. \A k \in 1 .. n : m[k] \in RowType /\ m[k].number = line /\ m[k].text = 0
    BY <1>8 DEF Row, RowType
  <2>2. DOMAIN m = 1 .. n
    OBVIOUS
  <2>3. m = [k \in 1 .. n |-> m[k]]
    OBVIOUS
  <2> HIDE DEF m
  <2>4. m \in Seq(RowType) /\ Len(m) = n
    BY <1>6, <2>1, <2>2, <2>3
  <2> QED BY <1>1, <2>1, <2>2, <2>4 DEF RowsOf
<1>10. b \in [0 .. n -> Nat] /\ \A k \in 0 .. n : b[k] = o + (IF k <= full THEN k * W ELSE z)
  BY <1>6, <1>7
<1>11. \A k \in 1 .. n : m[k].cells = Cells(o + (k - 1) * W, IF k <= full THEN W ELSE rest)
  BY DEF Row
<1> HIDE DEF m, b
<1>12. ASSUME NEW k \in 1 .. n
       PROVE  b[k - 1] <= b[k] /\ m[k].cells = Cells(b[k - 1], b[k] - b[k - 1])
  <2>1. k \in Nat /\ k - 1 \in 0 .. n /\ k \in 0 .. n /\ k - 1 <= full /\ k - 1 \in Nat
    BY <1>4, <1>6
  <2>2. b[k - 1] = o + (k - 1) * W /\ (k - 1) * W \in Nat
    BY <1>7, <1>10, <2>1
  <2>3. (k - 1) * W + W = k * W
    BY <2>1
  <2>4. CASE k <= full
    <3>1. b[k] = o + k * W
      BY <1>10, <2>1, <2>4
    <3>2. b[k] - b[k - 1] = W /\ b[k - 1] <= b[k]
      BY <2>2, <2>3, <3>1
    <3> QED BY <1>11, <2>2, <2>4, <3>2
  <2>5. CASE ~(k <= full)
    <3>1. b[k] = o + z /\ k - 1 = full
      BY <1>4, <1>10, <2>1, <2>5
    <3>2. b[k] - b[k - 1] = rest /\ b[k - 1] <= b[k]
      BY <1>4, <2>2, <3>1
    <3> QED BY <1>11, <2>2, <2>5, <3>2
  <2> QED BY <2>4, <2>5
<1>13. CellsOf(line, m) = Cells(b[0], b[n] - b[0])
  BY <1>1, <1>9, <1>10, <1>12, RowsShow DEF RowsOf
<1>14. b[0] = o /\ b[n] - b[0] = z
  <2>1. 0 \in 0 .. n /\ n \in 0 .. n /\ 0 <= full /\ 0 * W = 0
    BY <1>4, <1>6
  <2>2. b[0] = o
    BY <1>10, <2>1
  <2>3. b[n] = o + z
    <3>1. CASE rest > 0
      BY <1>4, <1>6, <1>10, <2>1, <3>1
    <3>2. CASE ~(rest > 0)
      <4>1. rest = 0 /\ n = full
        BY <1>4, <1>6, <3>2
      <4>2. full * W \in Nat
        BY <1>4, <1>7
      <4> QED BY <1>4, <1>10, <2>1, <4>1, <4>2
    <3> QED BY <3>1, <3>2
  <2> QED BY <2>2, <2>3
<1> QED BY <1>1, <1>5, <1>9, <1>13, <1>14

\* The rows of one byte show those after the first.
LEMMA ByteRowsShow ==
  ASSUME NEW s \in StatementType, s.size > 0
  PROVE  RowsOf(ByteRows(s), s)
         /\ CellsOf(s.line, ByteRows(s)) = Cells(s.offset + 1, s.size - 1)
<1>1. PICK o \in Nat, z \in Nat \ {0}, line \in Nat :
        o = s.offset /\ z = s.size /\ line = s.line
  BY DEF StatementType
<1>2. PICK n \in Nat : n = z - 1
  OBVIOUS
<1> DEFINE m == [k \in 1 .. n |-> Row(line, 0, Cells(o + k, 1))]
           b == [k \in 0 .. n |-> o + 1 + k]
<1>3. ByteRows(s) = m
  BY <1>1, <1>2 DEF ByteRows
<1>4. \A k \in 1 .. n : Cells(o + k, 1) \in Seq(Nat)
  <2> SUFFICES ASSUME NEW k \in 1 .. n
               PROVE  Cells(o + k, 1) \in Seq(Nat)
    OBVIOUS
  <2>1. PICK x \in Nat : x = o + k
    OBVIOUS
  <2>2. Cells(x, 1) \in Seq(Nat)
    BY CellsAre
  <2> QED BY <2>1, <2>2
<1>5. RowsOf(m, s) /\ Len(m) = n
  <2>1. \A k \in 1 .. n : m[k] \in RowType /\ m[k].number = line /\ m[k].text = 0
    BY <1>4 DEF Row, RowType
  <2>2. DOMAIN m = 1 .. n /\ m = [k \in 1 .. n |-> m[k]]
    OBVIOUS
  <2> HIDE DEF m
  <2>3. m \in Seq(RowType) /\ Len(m) = n
    BY <2>1, <2>2
  <2> QED BY <1>1, <2>1, <2>2, <2>3 DEF RowsOf
<1>6. b \in [0 .. n -> Nat] /\ \A k \in 0 .. n : b[k] = o + 1 + k
  OBVIOUS
<1>7. \A k \in 1 .. n : m[k].cells = Cells(o + k, 1)
  BY DEF Row
<1> HIDE DEF m, b
<1>8. ASSUME NEW k \in 1 .. n
      PROVE  b[k - 1] <= b[k] /\ m[k].cells = Cells(b[k - 1], b[k] - b[k - 1])
  <2>1. k - 1 \in 0 .. n /\ k \in 0 .. n
    OBVIOUS
  <2>2. b[k - 1] = o + 1 + (k - 1) /\ b[k] = o + 1 + k
    BY <1>6, <2>1
  <2>3. b[k - 1] = o + k /\ b[k] - b[k - 1] = 1 /\ b[k - 1] <= b[k]
    BY <2>2
  <2> QED BY <1>7, <2>3
<1>9. CellsOf(line, m) = Cells(b[0], b[n] - b[0])
  BY <1>1, <1>5, <1>6, <1>8, RowsShow DEF RowsOf
<1>10. b[0] = o + 1 /\ b[n] - b[0] = n
  BY <1>6
<1> QED BY <1>1, <1>2, <1>3, <1>5, <1>9, <1>10

\* What ListingShowsTheBytes says of the bytes c shown of statement s.
Shown(s, c) ==
  IF s.kind = "space" /\ s.size > 3
  THEN c = <<s.offset, s.offset + s.size - 1>>
  ELSE (s.kind = "space" /\ s.size = 0) \/ c = Cells(s.offset, s.size)

\* The bytes that its first row and the rows after it show.
ShownBy(s) == FirstCells(s) \o CellsOf(s.line, MoreRows(s))

LEMMA NoRows ==
  ASSUME NEW s
  PROVE  RowsOf(<<>>, s) /\ CellsOf(s.line, <<>>) = <<>>
<1>1. <<>> \in Seq(RowType) /\ \A n \in DOMAIN <<>> : FALSE
  OBVIOUS
<1>2. RowsOf(<<>>, s)
  BY <1>1 DEF RowsOf
<1>3. PICK r \in Seq(RowType) : r = <<>> /\ \A n \in DOMAIN r : r[n].number # s.line
  BY <1>1
<1>4. CellsOf(s.line, r) = <<>>
  BY <1>3, CellsOfOthers
<1> QED BY <1>2, <1>3, <1>4

\* The end of a long .space, below dots.
LEMMA LastByteShows ==
  ASSUME NEW s \in StatementType, s.size > 3
  PROVE  LET m == <<Row(s.line, 0, <<>>), Row(s.line, 0, Cells(s.offset + s.size - 1, 1))>>
         IN  RowsOf(m, s) /\ CellsOf(s.line, m) = <<s.offset + s.size - 1>>
<1>1. PICK o \in Nat, line \in Nat : o = s.offset + s.size - 1 /\ line = s.line
  BY DEF StatementType
<1> DEFINE m == <<Row(line, 0, <<>>), Row(line, 0, Cells(o, 1))>>
           b == [k \in 0 .. 2 |-> IF k = 2 THEN o + 1 ELSE o]
<1>2. Cells(o, 1) \in Seq(Nat) /\ <<>> \in Seq(Nat)
  BY CellsAre
<1>3. RowsOf(m, s) /\ Len(m) = 2
  BY <1>1, <1>2 DEF RowsOf, Row, RowType
<1>4. b \in [0 .. 2 -> Nat] /\ b[0] = o /\ b[1] = o /\ b[2] = o + 1
  OBVIOUS
<1>5. m[1].cells = <<>> /\ m[2].cells = Cells(o, 1)
  BY DEF Row
<1> HIDE DEF m, b
<1>6. Cells(o, 0) = <<>>
  BY NoCell
<1>7. ASSUME NEW k \in 1 .. 2
      PROVE  b[k - 1] <= b[k] /\ m[k].cells = Cells(b[k - 1], b[k] - b[k - 1])
  <2>1. CASE k = 1
    <3>1. k - 1 = 0 /\ o - o = 0
      BY <2>1
    <3> QED BY <1>4, <1>5, <1>6, <2>1, <3>1
  <2>2. CASE k = 2
    <3>1. k - 1 = 1 /\ (o + 1) - o = 1 /\ o <= o + 1
      BY <2>2
    <3> QED BY <1>4, <1>5, <2>2, <3>1
  <2> QED BY <2>1, <2>2
<1>8. CellsOf(line, m) = Cells(b[0], b[2] - b[0])
  BY <1>1, <1>3, <1>4, <1>7, RowsShow DEF RowsOf
<1>9. Cells(o, 1) = <<o>>
  BY OneCell
<1>10. b[2] - b[0] = 1
  BY <1>4
<1> QED BY <1>1, <1>3, <1>4, <1>8, <1>9, <1>10 DEF m

\* The first row of a statement and those after it show its bytes.
LEMMA StatementShows ==
  ASSUME NEW s \in StatementType
  PROVE  /\ FirstCells(s) \in Seq(Nat) /\ RowsOf(MoreRows(s), s)
         /\ Shown(s, ShownBy(s))
<1>1. s.kind \in Kinds /\ s.offset \in Nat /\ s.size \in Nat /\ s.line \in Nat
      /\ (s.kind = "inst" => s.size = 2)
      /\ (s.kind \in {"equ", "label", "empty"} => s.size = 0)
  BY DEF StatementType
<1>2. PICK o \in Nat, z \in Nat : o = s.offset /\ z = s.size
  BY <1>1
<1>3. Cells(o, z) \in Seq(Nat) /\ Cells(o, 1) \in Seq(Nat) /\ <<>> \in Seq(Nat)
      /\ Cells(o, 2) \in Seq(Nat)
  BY CellsAre
<1>4. Cells(o, 0) = <<>>
  BY NoCell
<1>5. Cells(o, z) \o <<>> = Cells(o, z) /\ <<>> \o Cells(o, z) = Cells(o, z)
  <2>1. PICK c \in Seq(Nat) : c = Cells(o, z)
    BY <1>3
  <2>2. c \o <<>> = c /\ <<>> \o c = c
    OBVIOUS
  <2> QED BY <2>1, <2>2
<1>6. z > 0 => Cells(o, 1) \o Cells(o + 1, z - 1) = Cells(o, z)
  <2> SUFFICES ASSUME z > 0
               PROVE  Cells(o, 1) \o Cells(o + 1, z - 1) = Cells(o, z)
    OBVIOUS
  <2>1. PICK y \in Nat : y = z - 1 /\ 1 + y = z
    OBVIOUS
  <2>2. PICK x \in Nat : x = 1
    OBVIOUS
  <2>3. Cells(o, x) \o Cells(o + x, y) = Cells(o, x + y)
    BY CellsJoin
  <2> QED BY <2>1, <2>2, <2>3
<1>7. CASE s.kind \in {"inst", "equ", "label", "empty"}
  <2>1. MoreRows(s) = <<>>
    BY <1>7 DEF MoreRows
  <2>2. FirstCells(s) = Cells(o, z)
    BY <1>1, <1>2, <1>4, <1>7 DEF FirstCells
  <2>3. RowsOf(<<>>, s) /\ CellsOf(s.line, <<>>) = <<>>
    BY NoRows
  <2> QED BY <1>2, <1>3, <1>5, <1>7, <2>1, <2>2, <2>3 DEF Shown, ShownBy
<1>8. CASE s.kind = "data" /\ s.size <= 2
  <2>1. MoreRows(s) = <<>>
    BY <1>1, <1>8 DEF MoreRows
  <2>2. FirstCells(s) = Cells(o, z)
    BY <1>1, <1>2, <1>4, <1>8 DEF FirstCells
  <2>3. RowsOf(<<>>, s) /\ CellsOf(s.line, <<>>) = <<>>
    BY NoRows
  <2> QED BY <1>2, <1>3, <1>5, <1>8, <2>1, <2>2, <2>3 DEF Shown, ShownBy
<1>9. CASE s.kind = "data" /\ s.size > 2
  <2>1. MoreRows(s) = HexDump(s)
    BY <1>9 DEF MoreRows
  <2>2. FirstCells(s) = <<>>
    BY <1>1, <1>9 DEF FirstCells
  <2>3. RowsOf(HexDump(s), s) /\ CellsOf(s.line, HexDump(s)) = Cells(o, z)
    BY <1>2, HexDumpShows
  <2> QED BY <1>2, <1>3, <1>5, <1>9, <2>1, <2>2, <2>3 DEF Shown, ShownBy
<1>10. CASE s.kind \in {"space", "align"} /\ s.size = 0
  <2>1. MoreRows(s) = ByteRows(s)
    BY <1>10 DEF MoreRows
  <2>2. ByteRows(s) = <<>>
    <3>1. 0 - 1 = -1 /\ 1 .. -1 = {}
      OBVIOUS
    <3> QED BY <1>10, <3>1 DEF ByteRows
  <2>3. FirstCells(s) = (IF s.kind = "align" THEN <<>> ELSE Cells(o, 1))
    BY <1>2, <1>10 DEF FirstCells
  <2>4. RowsOf(<<>>, s) /\ CellsOf(s.line, <<>>) = <<>>
    BY NoRows
  <2>5. Cells(s.offset, s.size) = <<>> /\ <<>> \o <<>> = <<>>
    BY <1>2, <1>4, <1>10
  <2>6. CASE s.kind = "align"
    BY <1>3, <1>10, <2>1, <2>2, <2>3, <2>4, <2>5, <2>6 DEF Shown, ShownBy
  <2>7. CASE s.kind = "space"
    BY <1>3, <1>10, <2>1, <2>2, <2>3, <2>4, <2>7 DEF Shown, ShownBy
  <2> QED BY <1>10, <2>6, <2>7
<1>11. CASE (s.kind = "align" /\ s.size > 0) \/ (s.kind = "space" /\ s.size \in 1 .. 3)
  <2>1. MoreRows(s) = ByteRows(s)
    BY <1>1, <1>11 DEF MoreRows
  <2>2. FirstCells(s) = Cells(o, 1)
    BY <1>1, <1>2, <1>11 DEF FirstCells
  <2>3. RowsOf(ByteRows(s), s) /\ CellsOf(s.line, ByteRows(s)) = Cells(o + 1, z - 1)
    BY <1>2, <1>11, ByteRowsShow
  <2> QED BY <1>2, <1>3, <1>6, <1>11, <2>1, <2>2, <2>3, SMTT(40) DEF Shown, ShownBy
<1>12. CASE s.kind = "space" /\ s.size > 3
  <2> DEFINE m == <<Row(s.line, 0, <<>>), Row(s.line, 0, Cells(s.offset + s.size - 1, 1))>>
  <2>1. MoreRows(s) = m
    BY <1>1, <1>12 DEF MoreRows
  <2>2. FirstCells(s) = Cells(o, 1)
    BY <1>2, <1>12 DEF FirstCells
  <2>3. RowsOf(m, s) /\ CellsOf(s.line, m) = <<s.offset + s.size - 1>>
    BY <1>12, LastByteShows
  <2> HIDE DEF m
  <2>4. Cells(o, 1) \o <<o + z - 1>> = <<o, o + z - 1>>
    <3>1. Cells(o, 1) = <<o>>
      BY OneCell
    <3>2. PICK y \in Nat : y = o + z - 1
      BY <1>2, <1>12
    <3>3. <<o>> \o <<y>> = <<o, y>>
      BY Pair
    <3> QED BY <3>1, <3>2, <3>3
  <2> QED BY <1>2, <1>3, <1>12, <2>1, <2>2, <2>3, <2>4 DEF Shown, ShownBy
<1> QED BY <1>1, <1>7, <1>8, <1>9, <1>10, <1>11, <1>12 DEF Kinds

-----------------------------------------------------------------------------
\* The invariant of the listing.

SourceRows(s) == {n \in DOMAIN s : s[n].text # 0}

\* The rows with a line of the source have the lines in order.
InOrder(s) == \A n \in SourceRows(s) : /\ s[n].number = s[n].text
                                       /\ s[n].text = Upto(SourceRows(s), n)

\* Rows down to the line before the next; those of each statement show its
\* bytes, and no row has a number yet to come.
ListingOK ==
  /\ rows \in Seq(RowType) /\ listed \in 0 .. Len(ast)
  /\ current_line = IF listed = 0 THEN 1 ELSE ast[listed].line + 1
  /\ \A n \in DOMAIN rows : rows[n].number < current_line
  /\ InOrder(rows) /\ Upto(SourceRows(rows), Len(rows)) = current_line - 1
  /\ \A k \in 1 .. listed : Shown(ast[k], CellsOf(ast[k].line, rows))

ListingStarts == rows = <<>> /\ listed = 0 /\ current_line = 1

\* Rows of the source that follow one another count on.
LEMMA UptoAll ==
  ASSUME NEW S, NEW p \in Nat, NEW q \in Nat, \A i \in 1 .. q : p + i \in S
  PROVE  \A i \in 0 .. q : Upto(S, p + i) = Upto(S, p) + i
<1> DEFINE T == {i \in Nat : i <= q => Upto(S, p + i) = Upto(S, p) + i}
<1>1. Upto(S, p) \in Nat
  BY UptoType
<1>2. 0 \in T
  BY <1>1
<1>3. ASSUME NEW i \in Nat, i \in T
      PROVE  i + 1 \in T
  <2> SUFFICES ASSUME i + 1 <= q
               PROVE  Upto(S, p + (i + 1)) = Upto(S, p) + (i + 1)
    OBVIOUS
  <2>1. PICK n \in Nat : n = p + i
    OBVIOUS
  <2>2. i + 1 \in 1 .. q /\ p + (i + 1) = n + 1
    BY <2>1
  <2>3. n + 1 \in S
    BY <2>2
  <2>4. Upto(S, n + 1) = Upto(S, n) + 1
    BY <2>3, UptoStep
  <2>5. Upto(S, n) = Upto(S, p) + i
    BY <1>3, <2>1
  <2> QED BY <1>1, <2>2, <2>4, <2>5
<1>4. Nat \subseteq T
  <2> HIDE DEF T
  <2> QED BY <1>2, <1>3, SetInduction
<1> QED BY <1>4

LEMMA RowsAre ==
  ASSUME NEW X, NEW n \in Nat, NEW f \in [1 .. n -> X]
  PROVE  f \in Seq(X) /\ Len(f) = n
OBVIOUS

\* The rows that a statement adds: l blank lines from c on, and its own.
Adds(s, c, l, r, u) ==
  \E blank \in Seq(RowType), first \in RowType :
    /\ Len(blank) = l
    /\ \A i \in 1 .. l : blank[i] = Row(c + i - 1, c + i - 1, <<>>)
    /\ first = Row(s.line, s.line, FirstCells(s))
    /\ u = r \o blank \o <<first>> \o MoreRows(s)

LEMMA RowsAdded ==
  ASSUME NEW s \in StatementType, rows \in Seq(RowType), NEW c \in Nat \ {0},
         c = current_line, NEW l \in Nat, l = s.line - c,
         listed < Len(ast), s = ast[listed + 1], ListStatement
  PROVE  Adds(s, c, l, rows, rows') /\ current_line' = s.line + 1 /\ listed' = listed + 1
<1> DEFINE blank == [k \in 1 .. l |-> Row(c + k - 1, c + k - 1, <<>>)]
           first == Row(s.line, s.line, FirstCells(s))
<1>1. s.line \in Nat /\ c + l = s.line
  BY DEF StatementType
<1>2. FirstCells(s) \in Seq(Nat) /\ <<>> \in Seq(Nat)
  BY StatementShows
<1>3. first \in RowType
  BY <1>1, <1>2 DEF Row, RowType
<1>4. \A k \in 1 .. l : blank[k] \in RowType
  BY <1>2 DEF Row, RowType
<1>5. blank \in Seq(RowType) /\ Len(blank) = l
  <2>1. blank \in [1 .. l -> RowType]
    BY <1>4
  <2> HIDE DEF blank
  <2> QED BY <2>1, RowsAre
<1>6. /\ rows' = rows \o blank \o <<Row(s.line, c + Len(blank), FirstCells(s))>> \o MoreRows(s)
      /\ current_line' = c + Len(blank) + 1 /\ listed' = listed + 1
  BY Zenon DEF ListStatement, BlankLines
<1>7. /\ rows' = rows \o blank \o <<first>> \o MoreRows(s)
      /\ current_line' = s.line + 1 /\ listed' = listed + 1
  <2>1. c + Len(blank) = s.line
    BY <1>1, <1>5
  <2> HIDE DEF blank
  <2> QED BY <1>6, <2>1
<1>8. \A i \in 1 .. l : blank[i] = Row(c + i - 1, c + i - 1, <<>>)
  OBVIOUS
<1> HIDE DEF blank, first
<1>9. first = Row(s.line, s.line, FirstCells(s))
  BY DEF first
<1>10. Adds(s, c, l, rows, rows')
  BY <1>3, <1>5, <1>7, <1>8, <1>9, Zenon DEF Adds
<1> QED BY <1>7, <1>10

Joined(r, blank, first, m) == r \o blank \o <<first>> \o m

\* Where each of these rows is.
Parts(r, blank, first, m, u) ==
  /\ u \in Seq(RowType) /\ Len(u) = Len(r) + Len(blank) + 1 + Len(m)
  /\ \A n \in 1 .. Len(r) : u[n] = r[n]
  /\ \A i \in 1 .. Len(blank) : u[Len(r) + i] = blank[i]
  /\ u[Len(r) + Len(blank) + 1] = first
  /\ \A i \in 1 .. Len(m) : u[Len(r) + Len(blank) + 1 + i] = m[i]

LEMMA RowsPlaced ==
  ASSUME NEW r \in Seq(RowType), NEW blank \in Seq(RowType), NEW first \in RowType,
         NEW m \in Seq(RowType), NEW u, u = Joined(r, blank, first, m)
  PROVE  Parts(r, blank, first, m, u)
<1>1. PICK x : x = r \o blank
  OBVIOUS
<1>2. /\ x \in Seq(RowType) /\ Len(x) = Len(r) + Len(blank)
      /\ \A n \in 1 .. Len(r) + Len(blank) :
           x[n] = IF n <= Len(r) THEN r[n] ELSE blank[n - Len(r)]
  BY <1>1
<1>3. PICK y : y = Append(x, first)
  OBVIOUS
<1>4. /\ y \in Seq(RowType) /\ Len(y) = Len(x) + 1 /\ y[Len(x) + 1] = first
      /\ \A n \in 1 .. Len(x) : y[n] = x[n]
  BY <1>2, <1>3, AppendProperties
<1>5. x \o <<first>> = y
  BY <1>2, <1>3, AppendIsConcat
<1>6. u = y \o m
  BY <1>1, <1>5 DEF Joined
<1>7. /\ u \in Seq(RowType) /\ Len(u) = Len(y) + Len(m)
      /\ \A n \in 1 .. Len(y) + Len(m) : u[n] = IF n <= Len(y) THEN y[n] ELSE m[n - Len(y)]
  <2>1. PICK z \in Seq(RowType) : z = y
    BY <1>4
  <2>2. /\ z \o m \in Seq(RowType) /\ Len(z \o m) = Len(z) + Len(m)
        /\ \A n \in 1 .. Len(z) + Len(m) :
             (z \o m)[n] = IF n <= Len(z) THEN z[n] ELSE m[n - Len(z)]
    BY ConcatProperties
  <2>3. u = z \o m
    BY <1>6, <2>1
  <2> QED BY <2>1, <2>2, <2>3, Zenon
<1>8. Len(r) \in Nat /\ Len(blank) \in Nat /\ Len(m) \in Nat
  OBVIOUS
<1>9. PICK a \in Nat, b \in Nat, d \in Nat : a = Len(r) /\ b = Len(blank) /\ d = Len(m)
  BY <1>8
<1>10. Len(x) = a + b /\ Len(y) = a + b + 1 /\ Len(u) = a + b + 1 + d
  BY <1>2, <1>4, <1>7, <1>9
<1>11. \A n \in 1 .. a : u[n] = r[n]
  <2> SUFFICES ASSUME NEW n \in 1 .. a PROVE u[n] = r[n]
    OBVIOUS
  <2>1. n \in 1 .. a + b /\ n \in 1 .. a + b + 1 + d /\ n <= a + b + 1 /\ n <= a
    OBVIOUS
  <2> QED BY <1>2, <1>4, <1>7, <1>9, <1>10, <2>1
<1>12. \A i \in 1 .. b : u[a + i] = blank[i]
  <2> SUFFICES ASSUME NEW i \in 1 .. b PROVE u[a + i] = blank[i]
    OBVIOUS
  <2>1. PICK n \in Nat : n = a + i
    OBVIOUS
  <2>2. n \in 1 .. a + b /\ n \in 1 .. a + b + 1 + d /\ n <= a + b + 1 /\ ~(n <= a) /\ n - a = i
    BY <2>1
  <2>3. u[n] = y[n] /\ y[n] = x[n] /\ x[n] = blank[n - a]
    BY <1>2, <1>4, <1>7, <1>9, <1>10, <2>2
  <2> QED BY <2>1, <2>2, <2>3
<1>13. u[a + b + 1] = first
  <2>1. a + b + 1 \in 1 .. a + b + 1 + d
    OBVIOUS
  <2> QED BY <1>4, <1>7, <1>9, <1>10, <2>1
<1>14. \A i \in 1 .. d : u[a + b + 1 + i] = m[i]
  <2> SUFFICES ASSUME NEW i \in 1 .. d PROVE u[a + b + 1 + i] = m[i]
    OBVIOUS
  <2>1. PICK n \in Nat : n = a + b + 1 + i
    OBVIOUS
  <2>2. n \in 1 .. a + b + 1 + d /\ ~(n <= a + b + 1) /\ n - (a + b + 1) = i
    BY <2>1
  <2>3. u[n] = m[n - (a + b + 1)]
    BY <1>7, <1>9, <1>10, <2>2
  <2> QED BY <2>1, <2>2, <2>3
<1>15. u \in Seq(RowType)
  BY <1>7
<1>16. Len(u) = Len(r) + Len(blank) + 1 + Len(m)
  BY <1>9, <1>10
<1> QED BY <1>9, <1>11, <1>12, <1>13, <1>14, <1>15, <1>16 DEF Parts

\* The listing goes on: rows r, then those of a statement whose line is not
\* above line c, the next to list.
GoesOn(s, r, c, blank, first, u) ==
  /\ s \in StatementType /\ r \in Seq(RowType) /\ c \in Nat \ {0} /\ s.line >= c
  /\ \A n \in DOMAIN r : r[n].number < c
  /\ blank \in Seq(RowType) /\ Len(blank) = s.line - c
  /\ \A i \in 1 .. s.line - c : blank[i] = Row(c + i - 1, c + i - 1, <<>>)
  /\ first \in RowType /\ first = Row(s.line, s.line, FirstCells(s))
  /\ u = r \o blank \o <<first>> \o MoreRows(s)

\* The number and the text of each row.
Numbered(s, r, c, u) ==
  \E a \in Nat, b \in Nat, d \in Nat :
    /\ a = Len(r) /\ b = s.line - c
    /\ u \in Seq(RowType) /\ Len(u) = a + b + 1 + d
    /\ \A n \in 1 .. a : u[n] = r[n]
    /\ \A i \in 1 .. b : u[a + i].number = c + i - 1 /\ u[a + i].text = c + i - 1
    /\ u[a + b + 1].number = s.line /\ u[a + b + 1].text = s.line
    /\ \A i \in 1 .. d : u[a + b + 1 + i].number = s.line /\ u[a + b + 1 + i].text = 0

LEMMA RowsNumbered ==
  ASSUME NEW s, NEW r, NEW c, NEW blank, NEW first, NEW u, GoesOn(s, r, c, blank, first, u)
  PROVE  Numbered(s, r, c, u)
<1>1. s \in StatementType /\ r \in Seq(RowType) /\ blank \in Seq(RowType) /\ first \in RowType
      /\ u = r \o blank \o <<first>> \o MoreRows(s)
  BY DEF GoesOn
<1>2. s.line \in Nat /\ c \in Nat /\ s.line >= c
  BY <1>1 DEF StatementType, GoesOn
<1>3. RowsOf(MoreRows(s), s)
  BY <1>1, StatementShows
<1>4. PICK m \in Seq(RowType) : m = MoreRows(s)
  BY <1>3 DEF RowsOf
<1>5. /\ u \in Seq(RowType) /\ Len(u) = Len(r) + Len(blank) + 1 + Len(m)
      /\ \A n \in 1 .. Len(r) : u[n] = r[n]
      /\ \A i \in 1 .. Len(blank) : u[Len(r) + i] = blank[i]
      /\ u[Len(r) + Len(blank) + 1] = first
      /\ \A i \in 1 .. Len(m) : u[Len(r) + Len(blank) + 1 + i] = m[i]
  <2>1. u = Joined(r, blank, first, m)
    BY <1>1, <1>4 DEF Joined
  <2>2. Parts(r, blank, first, m, u)
    BY <1>1, <2>1, RowsPlaced
  <2> QED BY <2>2, Zenon DEF Parts
<1>6. PICK a \in Nat, b \in Nat, d \in Nat : a = Len(r) /\ b = s.line - c /\ d = Len(m)
  <2>1. Len(r) \in Nat /\ s.line - c \in Nat /\ Len(m) \in Nat
    BY <1>1, <1>2
  <2> QED BY <2>1
<1>7. Len(blank) = b
  BY <1>6 DEF GoesOn
<1>8. \A i \in 1 .. b : blank[i].number = c + i - 1 /\ blank[i].text = c + i - 1
  <2>1. \A i \in 1 .. b : blank[i] = Row(c + i - 1, c + i - 1, <<>>)
    BY <1>6 DEF GoesOn
  <2>2. \A i \in 1 .. b : blank[i].number = c + i - 1 /\ blank[i].text = c + i - 1
    <3> SUFFICES ASSUME NEW i \in 1 .. b
                 PROVE  blank[i].number = c + i - 1 /\ blank[i].text = c + i - 1
      OBVIOUS
    <3>1. blank[i] = Row(c + i - 1, c + i - 1, <<>>)
      BY <2>1
    <3> QED BY <3>1 DEF Row
  <2> QED BY <2>2
<1>9. first.number = s.line /\ first.text = s.line
  BY DEF GoesOn, Row
<1>10. \A i \in 1 .. d : m[i].number = s.line /\ m[i].text = 0
  BY <1>3, <1>4, <1>6 DEF RowsOf
<1>11. /\ a = Len(r) /\ b = s.line - c
       /\ u \in Seq(RowType) /\ Len(u) = a + b + 1 + d
       /\ \A n \in 1 .. a : u[n] = r[n]
       /\ \A i \in 1 .. b : u[a + i].number = c + i - 1 /\ u[a + i].text = c + i - 1
       /\ u[a + b + 1].number = s.line /\ u[a + b + 1].text = s.line
       /\ \A i \in 1 .. d : u[a + b + 1 + i].number = s.line /\ u[a + b + 1 + i].text = 0
  BY <1>5, <1>6, <1>7, <1>8, <1>9, <1>10
<1> QED BY <1>11, Zenon DEF Numbered

\* The rows stay in order, and count on down to the line of the statement.
LEMMA RowsCountOn ==
  ASSUME NEW s, NEW r, NEW c, NEW blank, NEW first, NEW u, GoesOn(s, r, c, blank, first, u),
         InOrder(r), Upto(SourceRows(r), Len(r)) = c - 1
  PROVE  /\ u \in Seq(RowType)
         /\ \A n \in DOMAIN u : u[n].number < s.line + 1
         /\ InOrder(u) /\ Upto(SourceRows(u), Len(u)) = s.line
<1>1. PICK a \in Nat, b \in Nat, d \in Nat :
           /\ a = Len(r) /\ b = s.line - c
           /\ u \in Seq(RowType) /\ Len(u) = a + b + 1 + d
           /\ \A n \in 1 .. a : u[n] = r[n]
           /\ \A i \in 1 .. b : u[a + i].number = c + i - 1 /\ u[a + i].text = c + i - 1
           /\ u[a + b + 1].number = s.line /\ u[a + b + 1].text = s.line
           /\ \A i \in 1 .. d : u[a + b + 1 + i].number = s.line /\ u[a + b + 1 + i].text = 0
  <2>1. Numbered(s, r, c, u)
    BY RowsNumbered
  <2> QED BY <2>1, Zenon DEF Numbered
<1>2. PICK line \in Nat, z \in Nat \ {0} : line = s.line /\ z = c
  BY DEF GoesOn, StatementType
<1>3. line = z + b /\ DOMAIN u = 1 .. a + b + 1 + d /\ DOMAIN r = 1 .. a
  <2>1. r \in Seq(RowType) /\ Len(r) = a /\ u \in Seq(RowType) /\ Len(u) = a + b + 1 + d
    BY <1>1 DEF GoesOn
  <2>2. DOMAIN u = 1 .. a + b + 1 + d
    BY <2>1
  <2>3. DOMAIN r = 1 .. a
    BY <2>1
  <2>4. line = z + b
    BY <1>1, <1>2
  <2> QED BY <2>2, <2>3, <2>4
<1>4. \A n \in 1 .. a : r[n].number < z
  BY <1>2, <1>3 DEF GoesOn
<1>5. \A n \in 1 .. a + b + 1 + d :
        \/ n \in 1 .. a
        \/ \E i \in 1 .. b : n = a + i
        \/ n = a + b + 1
        \/ \E i \in 1 .. d : n = a + b + 1 + i
  <2> SUFFICES ASSUME NEW n \in 1 .. a + b + 1 + d
               PROVE  \/ n \in 1 .. a
                      \/ \E i \in 1 .. b : n = a + i
                      \/ n = a + b + 1
                      \/ \E i \in 1 .. d : n = a + b + 1 + i
    OBVIOUS
  <2>1. CASE n <= a
    BY <2>1
  <2>2. CASE a < n /\ n <= a + b
    <3>1. n - a \in 1 .. b /\ n = a + (n - a)
      BY <2>2
    <3> QED BY <3>1
  <2>3. CASE a + b + 1 < n
    <3>1. n - (a + b + 1) \in 1 .. d /\ n = a + b + 1 + (n - (a + b + 1))
      BY <2>3
    <3> QED BY <3>1
  <2> QED BY <2>1, <2>2, <2>3
<1>6. ASSUME NEW n \in DOMAIN u
      PROVE  u[n].number < line + 1
  <2>1. CASE n \in 1 .. a
    <3>1. u[n].number < z /\ u[n].number \in Nat
      <4>1. u[n] = r[n] /\ u[n] \in RowType
        BY <1>1, <2>1
      <4>2. u[n].number \in Nat
        BY <4>1 DEF RowType
      <4> QED BY <1>4, <2>1, <4>1, <4>2
    <3> QED BY <1>3, <3>1
  <2>2. CASE \E i \in 1 .. b : n = a + i
    <3>1. PICK i \in 1 .. b : n = a + i
      BY <2>2
    <3>2. u[n].number = z + i - 1
      BY <1>1, <1>2, <3>1
    <3> QED BY <1>3, <3>2
  <2>3. CASE n = a + b + 1 \/ \E i \in 1 .. d : n = a + b + 1 + i
    <3>1. u[n].number = line
      BY <1>1, <1>2, <2>3
    <3> QED BY <3>1
  <2> QED BY <1>3, <1>5, <2>1, <2>2, <2>3
<1> DEFINE S == SourceRows(u)
           T == SourceRows(r)
<1>7. /\ \A n \in 1 .. a : n \in S <=> n \in T
      /\ \A i \in 1 .. b + 1 : a + i \in S
      /\ \A i \in 1 .. d : a + b + 1 + i \notin S
  <2>1. ASSUME NEW n \in 1 .. a
        PROVE  n \in S <=> n \in T
    <3>1. n \in DOMAIN u /\ n \in DOMAIN r
      BY <1>3
    <3>2. u[n] = r[n]
      BY <1>1
    <3> QED BY <3>1, <3>2 DEF SourceRows
  <2>2. ASSUME NEW i \in 1 .. b + 1
        PROVE  a + i \in S
    <3>1. a + i \in DOMAIN u
      BY <1>3
    <3>2. CASE i = b + 1
      <4>1. a + i = a + b + 1 /\ line # 0
        BY <1>3, <3>2
      <4> QED BY <1>1, <1>2, <3>1, <4>1 DEF SourceRows
    <3>3. CASE i \in 1 .. b
      <4>1. u[a + i].text = z + i - 1
        BY <1>1, <1>2, <3>3
      <4>2. z + i - 1 # 0
        BY <3>3
      <4> QED BY <3>1, <4>1, <4>2 DEF SourceRows
    <3> QED BY <3>2, <3>3
  <2>3. ASSUME NEW i \in 1 .. d
        PROVE  a + b + 1 + i \notin S
    BY <1>1 DEF SourceRows
  <2> QED BY <2>1, <2>2, <2>3
<1>8. \A n \in 0 .. a : Upto(S, n) = Upto(T, n)
  <2> SUFFICES ASSUME NEW n \in 0 .. a PROVE Upto(S, n) = Upto(T, n)
    OBVIOUS
  <2>1. n \in Nat /\ \A i \in 1 .. n : i \in S <=> i \in T
    BY <1>7
  <2> HIDE DEF S, T
  <2> QED BY <2>1, UptoSame
<1> HIDE DEF S, T
<1>9. Upto(S, a) = z - 1
  <2>1. Upto(T, a) = z - 1
    BY <1>1, <1>2 DEF T
  <2> QED BY <1>8, <2>1
<1>10. \A i \in 0 .. b + 1 : Upto(S, a + i) = z - 1 + i
  <2>1. PICK q \in Nat : q = b + 1
    OBVIOUS
  <2>2. \A i \in 1 .. q : a + i \in S
    BY <1>7, <2>1
  <2>3. \A i \in 0 .. q : Upto(S, a + i) = Upto(S, a) + i
    BY <2>2, UptoAll, ZenonT(40)
  <2> QED BY <1>9, <2>1, <2>3
<1>11. Upto(S, a + b + 1 + d) = line
  <2>1. PICK p \in Nat, q \in Nat : p = a + b + 1 /\ q = a + b + 1 + d
    OBVIOUS
  <2>2. \A i \in p + 1 .. q : i \notin S
    <3> SUFFICES ASSUME NEW i \in p + 1 .. q PROVE i \notin S
      OBVIOUS
    <3>1. i - p \in 1 .. d /\ a + b + 1 + (i - p) = i
      BY <2>1
    <3> QED BY <1>7, <3>1
  <2>3. Upto(S, q) = Upto(S, p)
    BY <2>1, <2>2, UptoNone
  <2>4. b + 1 \in 0 .. b + 1 /\ a + (b + 1) = p /\ z - 1 + (b + 1) = line
    BY <1>3, <2>1
  <2> QED BY <1>10, <2>1, <2>3, <2>4
<1>12. InOrder(u)
  <2>1. ASSUME NEW n \in S
        PROVE  u[n].number = u[n].text /\ u[n].text = Upto(S, n)
    <3>1. n \in 1 .. a + b + 1 + d
      BY <1>3 DEF S, SourceRows
    <3>2. CASE n \in 1 .. a
      <4>1. n \in T /\ u[n] = r[n] /\ n \in 0 .. a
        BY <1>1, <1>7, <3>2
      <4>2. r[n].number = r[n].text /\ r[n].text = Upto(T, n)
        BY <4>1 DEF InOrder, T
      <4> QED BY <1>8, <4>1, <4>2
    <3>3. CASE \E i \in 1 .. b : n = a + i
      <4>1. PICK i \in 1 .. b : n = a + i
        BY <3>3
      <4>2. u[n].number = z + i - 1 /\ u[n].text = z + i - 1
        BY <1>1, <1>2, <4>1
      <4>3. Upto(S, n) = z - 1 + i
        <5>1. i \in 0 .. b + 1
          OBVIOUS
        <5> QED BY <1>10, <4>1, <5>1
      <4> QED BY <4>2, <4>3
    <3>4. CASE n = a + b + 1
      <4>1. b + 1 \in 0 .. b + 1 /\ n = a + (b + 1) /\ z - 1 + (b + 1) = line
        BY <1>3, <3>4
      <4>2. Upto(S, n) = line
        BY <1>10, <4>1
      <4> QED BY <1>1, <1>2, <3>4, <4>2
    <3>5. CASE \E i \in 1 .. d : n = a + b + 1 + i
      BY <1>7, <3>5
    <3> QED BY <1>5, <3>1, <3>2, <3>3, <3>4, <3>5
  <2> QED BY <2>1 DEF InOrder, S
<1> QED BY <1>1, <1>2, <1>6, <1>11, <1>12 DEF S

\* One row shows its own bytes.
LEMMA CellsOfOne ==
  ASSUME NEW row \in RowType
  PROVE  CellsOf(row.number, <<row>>) = row.cells
<1>1. PICK x \in Seq(Nat) : x = row.cells
  BY DEF RowType
<1>2. FlattenSeq(Append(<<>>, x)) = FlattenSeq(<<>>) \o x
  <2>1. <<>> \in Seq(Seq(Nat))
    OBVIOUS
  <2> QED BY <2>1, FlattenAppend
<1>3. <<>> \o x = x
  OBVIOUS
<1>4. [n \in DOMAIN <<row>> |-> IF <<row>>[n].number = row.number THEN <<row>>[n].cells ELSE <<>>]
        = Append(<<>>, x)
  BY <1>1
<1> QED BY <1>1, <1>2, <1>3, <1>4, FlattenNone DEF CellsOf

\* The bytes shown of the statements before, and of this one.
LEMMA CellsGoOn ==
  ASSUME NEW s, NEW r, NEW c, NEW blank, NEW first, NEW u, GoesOn(s, r, c, blank, first, u)
  PROVE  /\ CellsOf(s.line, u) = ShownBy(s)
         /\ \A line \in Nat : line < c => CellsOf(line, u) = CellsOf(line, r)
<1>1. s \in StatementType /\ r \in Seq(RowType) /\ blank \in Seq(RowType) /\ first \in RowType
      /\ u = r \o blank \o <<first>> \o MoreRows(s)
  BY DEF GoesOn
<1>2. s.line \in Nat /\ c \in Nat /\ s.line >= c
  BY <1>1 DEF StatementType, GoesOn
<1>3. RowsOf(MoreRows(s), s) /\ FirstCells(s) \in Seq(Nat)
  BY <1>1, StatementShows
<1>4. PICK m \in Seq(RowType), f \in Seq(RowType) : m = MoreRows(s) /\ f = <<first>>
  <2>1. MoreRows(s) \in Seq(RowType)
    BY <1>3 DEF RowsOf
  <2>2. <<first>> \in Seq(RowType)
    BY <1>1
  <2> QED BY <2>1, <2>2, Zenon
<1>5. PICK x \in Seq(RowType) : x = r \o blank
  BY <1>1, ConcatProperties
<1>6. PICK y \in Seq(RowType) : y = x \o f
  BY ConcatProperties
<1>7. u = y \o m
  BY <1>1, <1>4, <1>5, <1>6
<1>8. ASSUME NEW line
      PROVE  /\ CellsOf(line, u) = CellsOf(line, y) \o CellsOf(line, m)
             /\ CellsOf(line, y) = CellsOf(line, x) \o CellsOf(line, f)
             /\ CellsOf(line, x) = CellsOf(line, r) \o CellsOf(line, blank)
             /\ CellsOf(line, r) \in Seq(Nat) /\ CellsOf(line, m) \in Seq(Nat)
  <2>1. CellsOf(line, y \o m) = CellsOf(line, y) \o CellsOf(line, m)
    BY CellsOfConcat
  <2>2. CellsOf(line, x \o f) = CellsOf(line, x) \o CellsOf(line, f)
    BY CellsOfConcat
  <2>3. CellsOf(line, r \o blank) = CellsOf(line, r) \o CellsOf(line, blank)
    BY <1>1, CellsOfConcat
  <2>4. CellsOf(line, r) \in Seq(Nat) /\ CellsOf(line, m) \in Seq(Nat)
    BY <1>1, CellsOfType
  <2> QED BY <1>5, <1>6, <1>7, <2>1, <2>2, <2>3, <2>4
<1>9. /\ \A n \in DOMAIN r : r[n].number < c /\ r[n].number \in Nat
      /\ \A n \in DOMAIN blank : blank[n].number = c + n - 1 /\ n \in 1 .. s.line - c
      /\ DOMAIN f = 1 .. 1 /\ f[1] = first /\ first.number = s.line /\ first.cells = FirstCells(s)
      /\ \A n \in DOMAIN m : m[n].number = s.line
  <2>1. \A n \in DOMAIN r : r[n].number < c /\ r[n].number \in Nat
    <3>1. \A n \in DOMAIN r : r[n] \in RowType
      BY <1>1
    <3> QED BY <3>1 DEF GoesOn, RowType
  <2>2. \A n \in DOMAIN blank : blank[n].number = c + n - 1 /\ n \in 1 .. s.line - c
    <3>1. DOMAIN blank = 1 .. s.line - c
      BY <1>1 DEF GoesOn
    <3> SUFFICES ASSUME NEW n \in DOMAIN blank
                 PROVE  blank[n].number = c + n - 1 /\ n \in 1 .. s.line - c
      OBVIOUS
    <3>2. blank[n] = Row(c + n - 1, c + n - 1, <<>>)
      BY <3>1 DEF GoesOn
    <3> QED BY <3>1, <3>2 DEF Row
  <2>3. DOMAIN f = 1 .. 1 /\ f[1] = first
    BY <1>4
  <2>4. first.number = s.line /\ first.cells = FirstCells(s)
    BY DEF GoesOn, Row
  <2>5. \A n \in DOMAIN m : m[n].number = s.line
    BY <1>3, <1>4 DEF RowsOf
  <2> QED BY <2>1, <2>2, <2>3, <2>4, <2>5
<1>10. ASSUME NEW line \in Nat, line < c
       PROVE  CellsOf(line, u) = CellsOf(line, r)
  <2>1. CellsOf(line, blank) = <<>>
    <3>1. \A n \in DOMAIN blank : blank[n].number # line
      BY <1>2, <1>9, <1>10
    <3> QED BY <1>1, <3>1, CellsOfOthers
  <2>2. CellsOf(line, f) = <<>>
    <3>1. \A n \in DOMAIN f : f[n].number # line
      <4>1. first.number # line
        BY <1>2, <1>9, <1>10
      <4> QED BY <1>9, <4>1
    <3> QED BY <3>1, CellsOfOthers
  <2>3. CellsOf(line, m) = <<>>
    <3>1. \A n \in DOMAIN m : m[n].number # line
      BY <1>2, <1>9, <1>10
    <3> QED BY <3>1, CellsOfOthers
  <2>4. PICK q \in Seq(Nat) : q = CellsOf(line, r)
    BY <1>8
  <2>5. q \o <<>> = q
    OBVIOUS
  <2> QED BY <1>8, <2>1, <2>2, <2>3, <2>4, <2>5
<1>11. CellsOf(s.line, u) = FirstCells(s) \o CellsOf(s.line, MoreRows(s))
  <2>1. CellsOf(s.line, blank) = <<>>
    <3>1. \A n \in DOMAIN blank : blank[n].number # s.line
      BY <1>2, <1>9
    <3> QED BY <1>1, <3>1, CellsOfOthers
  <2>2. CellsOf(s.line, r) = <<>>
    <3>1. \A n \in DOMAIN r : r[n].number # s.line
      BY <1>2, <1>9
    <3> QED BY <1>1, <3>1, CellsOfOthers
  <2>3. CellsOf(s.line, f) = FirstCells(s)
    BY <1>1, <1>4, <1>9, CellsOfOne
  <2>4. PICK q \in Seq(Nat) : q = FirstCells(s)
    BY <1>3
  <2>5. <<>> \o <<>> = <<>> /\ <<>> \o q = q
    OBVIOUS
  <2> QED BY <1>4, <1>8, <2>1, <2>2, <2>3, <2>4, <2>5
<1> QED BY <1>10, <1>11 DEF ShownBy

\* The next line to list is not below the line of the next statement.
LEMMA NextStatement ==
  ASSUME ScanInv, ListingOK, listed < Len(ast)
  PROVE  /\ listed + 1 \in DOMAIN ast /\ ast[listed + 1] \in StatementType
         /\ current_line \in Nat \ {0} /\ ast[listed + 1].line >= current_line
         /\ \A k \in 1 .. listed : ast[k].line \in Nat /\ ast[k].line < current_line
<1>1. ast \in Seq(StatementType) /\ Len(ast) \in Nat /\ listed \in Nat /\ DOMAIN ast = 1 .. Len(ast)
  BY DEF ScanInv, ParseOK, ListingOK
<1>2. listed + 1 \in DOMAIN ast /\ \A k \in 1 .. listed : k \in DOMAIN ast
  BY <1>1
<1>3. \A k \in DOMAIN ast : ast[k] \in StatementType /\ ast[k].line \in Nat
  BY <1>1 DEF StatementType
<1>4. \A j, k \in DOMAIN ast : j < k => ast[j].line < ast[k].line
  BY DEF ScanInv, ParseOK
<1>5. ast[listed + 1].line \in Nat \ {0}
  <2>1. Placed(Text, ast[listed + 1], position) /\ Text \in Seq(Chars) /\ position \in Nat
    BY <1>2, TextIs DEF ScanInv, LexOK, ParseOK
  <2>2. ast[listed + 1].piece \in Nat \ {0}
        /\ ast[listed + 1].line = LineAt(Text, ast[listed + 1].piece)
    BY <2>1 DEF Placed
  <2> QED BY <2>1, <2>2, LineType
<1>6. current_line = IF listed = 0 THEN 1 ELSE ast[listed].line + 1
  BY DEF ListingOK
<1>7. CASE listed = 0
  BY <1>2, <1>3, <1>5, <1>6, <1>7
<1>8. CASE listed # 0
  <2>1. listed \in DOMAIN ast /\ current_line = ast[listed].line + 1 /\ ast[listed].line \in Nat
    BY <1>1, <1>3, <1>6, <1>8
  <2>2. ast[listed].line < ast[listed + 1].line
    BY <1>1, <1>2, <1>4, <2>1
  <2>3. ASSUME NEW k \in 1 .. listed
        PROVE  ast[k].line \in Nat /\ ast[k].line < current_line
    <3>1. k \in DOMAIN ast /\ ast[k].line \in Nat
      BY <1>2, <1>3
    <3>2. CASE k = listed
      BY <2>1, <3>1, <3>2
    <3>3. CASE k < listed
      <4>1. ast[k].line < ast[listed].line
        BY <1>4, <2>1, <3>1, <3>3
      <4> QED BY <2>1, <3>1, <4>1
    <3> QED BY <1>1, <3>2, <3>3
  <2>4. current_line \in Nat \ {0} /\ ast[listed + 1].line >= current_line
    BY <1>5, <2>1, <2>2
  <2> QED BY <1>2, <1>3, <2>3, <2>4
<1> QED BY <1>7, <1>8

\* What a statement adds to the listing.
LEMMA ListingGoesOn ==
  ASSUME ScanInv, ListingOK, ListStatement
  PROVE  /\ \E blank, first : GoesOn(ast[listed + 1], rows, current_line, blank, first, rows')
         /\ current_line' = ast[listed + 1].line + 1 /\ listed' = listed + 1
         /\ listed < Len(ast)
<1>1. listed < Len(ast)
  BY DEF ListStatement
<1>2. PICK s \in StatementType, c \in Nat \ {0} : s = ast[listed + 1] /\ c = current_line /\ s.line >= c
  BY <1>1, NextStatement
<1>3. PICK l \in Nat : l = s.line - c
  BY <1>2 DEF StatementType
<1>4. rows \in Seq(RowType) /\ \A n \in DOMAIN rows : rows[n].number < c
  BY <1>2 DEF ListingOK
<1>5. Adds(s, c, l, rows, rows') /\ current_line' = s.line + 1 /\ listed' = listed + 1
  BY <1>1, <1>2, <1>3, <1>4, RowsAdded
<1>6. PICK blank \in Seq(RowType), first \in RowType :
           /\ Len(blank) = l
           /\ \A i \in 1 .. l : blank[i] = Row(c + i - 1, c + i - 1, <<>>)
           /\ first = Row(s.line, s.line, FirstCells(s))
           /\ rows' = rows \o blank \o <<first>> \o MoreRows(s)
  BY <1>5, Zenon DEF Adds
<1>7. GoesOn(s, rows, c, blank, first, rows')
  BY <1>2, <1>3, <1>4, <1>6, Zenon DEF GoesOn
<1> QED BY <1>1, <1>2, <1>5, <1>7

LEMMA ListingKeeps ==
  ASSUME ScanInv, ListingOK, ListStatement, ast' = ast
  PROVE  ListingOK'
<1>1. PICK blank, first : GoesOn(ast[listed + 1], rows, current_line, blank, first, rows')
  BY ListingGoesOn
<1>2. /\ current_line' = ast[listed + 1].line + 1 /\ listed' = listed + 1
      /\ listed < Len(ast)
  BY ListingGoesOn
<1>3. /\ listed + 1 \in DOMAIN ast /\ ast[listed + 1] \in StatementType
      /\ current_line \in Nat \ {0}
      /\ \A k \in 1 .. listed : ast[k].line \in Nat /\ ast[k].line < current_line
  BY <1>2, NextStatement
<1>4. PICK s, c, r, u :
        /\ s = ast[listed + 1] /\ c = current_line /\ r = rows /\ u = rows'
        /\ s \in StatementType /\ c \in Nat \ {0}
  BY <1>3
<1>5. GoesOn(s, r, c, blank, first, u)
  BY <1>1, <1>4
<1>6. InOrder(r) /\ Upto(SourceRows(r), Len(r)) = c - 1
  BY <1>4 DEF ListingOK
<1>7. /\ u \in Seq(RowType) /\ \A n \in DOMAIN u : u[n].number < s.line + 1
      /\ InOrder(u) /\ Upto(SourceRows(u), Len(u)) = s.line
  BY <1>5, <1>6, RowsCountOn
<1>8. /\ CellsOf(s.line, u) = ShownBy(s)
      /\ \A line \in Nat : line < c => CellsOf(line, u) = CellsOf(line, r)
  BY <1>5, CellsGoOn
<1>9. Shown(s, CellsOf(s.line, u))
  <2>1. Shown(s, ShownBy(s))
    BY <1>4, StatementShows
  <2> QED BY <1>8, <2>1
<1>10. s.line \in Nat /\ listed \in Nat /\ Len(ast) \in Nat
  <2>1. s.line \in Nat
    BY <1>4 DEF StatementType
  <2>2. ast \in Seq(StatementType) /\ listed \in 0 .. Len(ast)
    BY DEF ListingOK, ScanInv, ParseOK
  <2> QED BY <2>1, <2>2
<1>11. \A k \in 1 .. listed + 1 : Shown(ast[k], CellsOf(ast[k].line, u))
  <2> SUFFICES ASSUME NEW k \in 1 .. listed + 1
               PROVE  Shown(ast[k], CellsOf(ast[k].line, u))
    OBVIOUS
  <2>1. CASE k = listed + 1
    BY <1>4, <1>9, <2>1
  <2>2. CASE k \in 1 .. listed
    <3>1. CellsOf(ast[k].line, u) = CellsOf(ast[k].line, rows)
      BY <1>3, <1>4, <1>8, <2>2
    <3>2. Shown(ast[k], CellsOf(ast[k].line, rows))
      BY <2>2 DEF ListingOK
    <3> QED BY <3>1, <3>2
  <2> QED BY <1>10, <2>1, <2>2
<1>12. rows' = u /\ listed' = listed + 1 /\ current_line' = s.line + 1 /\ s = ast[listed']
       /\ listed' # 0 /\ listed' \in 0 .. Len(ast)
  BY <1>2, <1>4, <1>10
<1>13. (s.line + 1) - 1 = s.line
  BY <1>10
<1>14. rows' \in Seq(RowType) /\ listed' \in 0 .. Len(ast')
  BY <1>7, <1>12
<1>15. current_line' = IF listed' = 0 THEN 1 ELSE ast'[listed'].line + 1
  BY <1>12
<1>16. /\ \A n \in DOMAIN rows' : rows'[n].number < current_line'
       /\ InOrder(rows') /\ Upto(SourceRows(rows'), Len(rows')) = current_line' - 1
  BY <1>7, <1>12, <1>13
<1>17. \A k \in 1 .. listed' : Shown(ast'[k], CellsOf(ast'[k].line, rows'))
  BY <1>11, <1>12
<1> QED BY <1>14, <1>15, <1>16, <1>17, Zenon DEF ListingOK

\* A listing not begun.
LEMMA ListingBegins ==
  /\ ListingStarts /\ ast \in Seq(StatementType) => ListingOK
  /\ ListingStarts' /\ ast' \in Seq(StatementType) => ListingOK'
<1>1. <<>> \in Seq(RowType) /\ DOMAIN <<>> = {} /\ Len(<<>>) = 0 /\ 1 - 1 = 0 /\ 1 .. 0 = {}
  OBVIOUS
<1>2. InOrder(<<>>) /\ Upto(SourceRows(<<>>), 0) = 0
  BY <1>1, UptoZero DEF InOrder, SourceRows
<1>3. \A t : t \in Seq(StatementType) => 0 \in 0 .. Len(t)
  OBVIOUS
<1>4. ListingStarts /\ ast \in Seq(StatementType) => ListingOK
  BY <1>1, <1>2, <1>3 DEF ListingStarts, ListingOK
<1>5. ListingStarts' /\ ast' \in Seq(StatementType) => ListingOK'
  BY <1>1, <1>2, <1>3 DEF ListingStarts, ListingOK
<1> QED BY <1>4, <1>5

\* The listing begins after the parser and is complete before the images.
ListInv ==
  /\ ListingOK
  /\ phase \in {"options", "parse"} => ListingStarts
  /\ phase = "image" \/ Ended => listed = Len(ast)

LEMMA SameListing ==
  ASSUME ListingOK, UNCHANGED listingVars, ast' = ast
  PROVE  ListingOK'
BY DEF ListingOK, listingVars, InOrder, SourceRows, CellsOf

LEMMA ListBegins ==
  ASSUME Init
  PROVE  ListInv
<1>1. ListingStarts /\ phase = "options"
  BY DEF Init, ListingInit, ListingStarts
<1>2. ast \in Seq(StatementType)
  BY ScanBegins DEF ScanInv, ParseOK
<1> QED BY <1>1, <1>2, ListingBegins DEF ListInv, Ended

LEMMA ListStays ==
  ASSUME ScanInv, MainInv, ListInv, [Next]_vars
  PROVE  ListInv'
<1>1. CASE ReadSource
  <2>1. phase = "parse" /\ phase' = "parse" /\ UNCHANGED listingVars
    BY <1>1 DEF ReadSource, mainVars
  <2>2. ListingStarts'
    BY <2>1 DEF ListInv, ListingStarts, listingVars
  <2>3. ast' \in Seq(StatementType)
    BY ScanStays DEF ScanInv, ParseOK
  <2> QED BY <2>1, <2>2, <2>3, ListingBegins DEF ListInv, Ended
<1>2. CASE WriteRows
  <2>1. phase = "listing" /\ phase' = "listing" /\ ListStatement /\ ast' = ast
    BY <1>2 DEF WriteRows, mainVars, scannerVars, parseVars
  <2>2. ListingOK'
    BY <2>1, ListingKeeps DEF ListInv
  <2> QED BY <2>1, <2>2 DEF ListInv, Ended
<1>3. CASE (Next /\ ~ReadSource /\ ~WriteRows) \/ UNCHANGED vars
  <2>1. UNCHANGED listingVars /\ ast' = ast /\ yyparse' = yyparse
    BY <1>3 DEF Next, ReadCommand, Help, OptionsRefused, EndOfOptions, SourceRefused,
       Assemble, EndOfListing, WriteImages, vars, scannerVars, parseVars, lexVars
  <2>2. ListingOK'
    BY <2>1, SameListing DEF ListInv
  <2>3. listed' = listed /\ ListingStarts' = ListingStarts
    BY <2>1 DEF listingVars, ListingStarts
  <2>4. \/ phase' = phase /\ status' = status
        \/ phase = "options" /\ phase' = "parse"
        \/ phase = "options" /\ phase' = "exit"
        \/ phase = "parse" /\ phase' = "exit" /\ status' \in {1, 134}
        \/ phase = "parse" /\ phase' = "listing"
        \/ phase = "listing" /\ phase' = "image" /\ listed = Len(ast)
        \/ phase = "image" /\ phase' = "exit"
    BY <1>3 DEF Next, ReadCommand, Help, OptionsRefused, EndOfOptions, SourceRefused,
       Assemble, EndOfListing, WriteImages, ExitWith, vars, mainVars
  <2>5. phase = "options" => yyparse # "accepted"
    BY DEF MainInv, PhaseOK
  <2> QED BY <2>1, <2>2, <2>3, <2>4, <2>5 DEF ListInv, Ended
<1> QED BY <1>1, <1>2, <1>3

\* What the listing shows at every moment of every run.
LEMMA ListingIsKept == Spec => [](ScanInv /\ ListInv)
<1> DEFINE Inv == ScanInv /\ MainInv /\ ListInv
<1>1. Init => Inv
  BY ScanBegins, MainBegins, ListBegins
<1>2. Inv /\ [Next]_vars => Inv'
  <2> SUFFICES ASSUME Inv, [Next]_vars PROVE Inv'
    OBVIOUS
  <2>1. ScanInv /\ MainInv /\ ListInv
    OBVIOUS
  <2>2. ScanInv'
    BY <2>1, ScanStays
  <2>3. MainInv'
    BY <2>1, MainStays
  <2>4. ListInv'
    BY <2>1, ListStays
  <2> QED BY <2>2, <2>3, <2>4
<1>3. Inv => ScanInv /\ ListInv
  OBVIOUS
<1> QED BY <1>1, <1>2, <1>3, PTL DEF Spec

\* The listing of every run that succeeds has each line of the source once, in
\* order and beside its number, down to the line of the last statement: the
\* blank lines listed before a statement end above it, and no two statements
\* begin on one line.
THEOREM RowsKeepTheOrder == Spec => []RowsFollowTheSource
<1>1. ASSUME ScanInv, ListInv
      PROVE  RowsFollowTheSource
  <2> SUFFICES ASSUME Ended PROVE RowsFollowTheSource
    BY Zenon DEF RowsFollowTheSource
  <2>1. listed = Len(ast) /\ ListingOK
    BY <1>1 DEF ListInv
  <2>2. ast \in Seq(StatementType) /\ ast # <<>>
    BY <1>1 DEF ScanInv, LexOK, ParseOK, Ended
  <2>3. Len(ast) \in Nat \ {0} /\ Last(ast) = ast[Len(ast)]
    BY <2>2 DEF Last
  <2>4. Last(ast).line \in Nat
    <3>1. ast[Len(ast)] \in StatementType
      BY <2>2, <2>3
    <3> QED BY <2>3, <3>1 DEF StatementType
  <2>5. current_line - 1 = Last(ast).line
    BY <2>1, <2>3, <2>4 DEF ListingOK
  <2>6. rows \in Seq(RowType) /\ DOMAIN rows = 1 .. Len(rows) /\ Len(rows) \in Nat
    BY <2>1 DEF ListingOK
  <2> DEFINE S == {n \in DOMAIN rows : rows[n].text # 0}
  <2>7. SourceRows(rows) = S
    BY DEF SourceRows
  <2>8. Upto(S, Len(rows)) = Last(ast).line
    BY <2>1, <2>5, <2>7 DEF ListingOK
  <2>9. \A n \in S : rows[n].number = rows[n].text /\ rows[n].text = Upto(S, n)
    BY <2>1, <2>7 DEF ListingOK, InOrder
  <2>10. S \subseteq 1 .. Len(rows)
    BY <2>6
  <2>11. \A n \in S : Upto(S, n) = Cardinality({m \in S : m <= n})
    <3>1. PICK len \in Nat : len = Len(rows)
      BY <2>6
    <3>2. S \subseteq 1 .. len
      BY <2>10, <3>1
    <3> HIDE DEF S
    <3> QED BY <3>2, UptoMember
  <2>12. {i \in 1 .. Len(rows) : i \in S} = S
    <3> HIDE DEF S
    <3> QED BY <2>10
  <2>13. Cardinality(S) = Last(ast).line
    BY <2>8, <2>12 DEF Upto
  <2>14. \A n \in S : /\ rows[n].number = rows[n].text
                      /\ rows[n].text = Cardinality({m \in S : m <= n})
    BY <2>9, <2>11, Zenon
  <2> QED BY <2>13, <2>14, Zenon DEF RowsFollowTheSource
<1> QED BY <1>1, ListingIsKept, PTL

\* The rows of every statement of a run that succeeds show its bytes in order,
\* each once, whatever its size and the width of a row of hex_dump; a long
\* .space shows its first and its last.
THEOREM ListingShowsThem == Spec => []ListingShowsTheBytes
<1>1. ASSUME ScanInv, ListInv
      PROVE  ListingShowsTheBytes
  <2> SUFFICES ASSUME Ended PROVE ListingShowsTheBytes
    BY Zenon DEF ListingShowsTheBytes
  <2>1. listed = Len(ast) /\ ast \in Seq(StatementType)
    BY <1>1 DEF ListInv, ScanInv, ParseOK
  <2>2. \A k \in 1 .. listed : Shown(ast[k], CellsOf(ast[k].line, rows))
    BY <1>1 DEF ListInv, ListingOK
  <2>3. \A k \in DOMAIN ast : Shown(ast[k], CellsOf(ast[k].line, rows))
    <3>1. DOMAIN ast = 1 .. listed
      BY <2>1
    <3> QED BY <2>2, <3>1
  <2> QED BY <2>3, Zenon DEF ListingShowsTheBytes, Shown, CellsOf
<1> QED BY <1>1, ListingIsKept, PTL

=============================================================================
