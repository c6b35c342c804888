------------------------- MODULE CodeGeneratorProofs -------------------------
(***************************************************************************)
(* Proofs about CodeGenerator, for programs of any length over all         *)
(* registers and all 16-bit constants: every instruction generated without *)
(* errors reads back as itself.                                            *)
(***************************************************************************)
EXTENDS CodeGenerator, TLAPS

-----------------------------------------------------------------------------
\* Words put together from fields give the fields back.

\* Three fields of 4, 3 and 4 bits under a group of five.
Fields(g, m, n, d) == 2048 * g + 128 * m + 16 * n + d

\* A constant of 8 bits over a register, and an offset of 10 under a condition.
Byte(k, c, d) == 4096 * k + 16 * c + d
Jump(k, o) == 1024 * k + o

LEMMA FieldsOfWord ==
  ASSUME NEW g \in Nat, NEW m \in Nat, NEW n \in Nat, NEW d \in Nat,
         g < 32, m < 16, n < 8, d < 16
  PROVE  /\ Fields(g, m, n, d) \in Word
         /\ Fields(g, m, n, d) \div 2048 = g
         /\ FieldD(Fields(g, m, n, d)) = d
         /\ FieldN(Fields(g, m, n, d)) = n
         /\ FieldM(Fields(g, m, n, d)) = m
         /\ m < 8 => Bit10(Fields(g, m, n, d)) = 0
         /\ m >= 8 => Bit10(Fields(g, m, n, d)) = 1
<1> DEFINE w == Fields(g, m, n, d)
           h == 128 * g + 8 * m + n
           i == 16 * g + m
           low7 == 16 * n + d
           low11 == 128 * m + 16 * n + d
           low10 == 128 * (m - 8) + 16 * n + d
<1>0. w = 2048 * g + 128 * m + 16 * n + d
  BY DEF Fields
<1>1. w \in Word
  BY <1>0 DEF Word
<1>2. h \in Nat /\ w = 16 * h + d /\ h = 8 * i + n
  BY <1>0
<1>3. i \in Nat /\ i = 16 * g + m /\ low7 \in Nat /\ low7 < 128 /\ w = 128 * i + low7
  BY <1>0
<1>4. low11 \in Nat /\ low11 < 2048 /\ w = 2048 * g + low11
  BY <1>0
<1>5. m < 8 => low11 \in Nat /\ low11 < 1024 /\ w = 1024 * (2 * g) + low11
  BY <1>0
<1>6. m >= 8 => low10 \in Nat /\ low10 < 1024 /\ w = 1024 * (2 * g + 1) + low10
  BY <1>0
<1> HIDE DEF w, h, i, low7, low11, low10
<1>7. w \div 16 = h /\ w % 16 = d
  BY <1>2
<1>8. h % 8 = n
  BY <1>2, <1>3
<1>9. w \div 128 = i
  BY <1>3
<1>10. i % 16 = m
  BY <1>3
<1>11. w \div 2048 = g
  BY <1>4
<1>12. m < 8 => Bit10(w) = 0
  BY <1>5 DEF Bit10
<1>13. m >= 8 => Bit10(w) = 1
  BY <1>6 DEF Bit10
<1> QED
  BY <1>1, <1>7, <1>8, <1>9, <1>10, <1>11, <1>12, <1>13 DEF FieldD, FieldN, FieldM, w

\* An 8-bit constant over a register, under a group of five whose last bit is
\* the highest of the constant.
LEMMA ByteOfWord ==
  ASSUME NEW k \in Nat, NEW c \in Nat, NEW d \in Nat, k < 16, c < 256, d < 16
  PROVE  /\ Byte(k, c, d) \in Word
         /\ Byte(k, c, d) \div 2048 \in {2 * k, 2 * k + 1}
         /\ FieldD(Byte(k, c, d)) = d
         /\ Constant8(Byte(k, c, d)) = c
<1> DEFINE w == Byte(k, c, d)
           i == 256 * k + c
           low == 16 * c + d
           low11 == 16 * (c - 128) + d
<1>1. w \in Word /\ w = 4096 * k + 16 * c + d
  BY DEF Word, Byte
<1>2. i \in Nat /\ i = 256 * k + c /\ w = 16 * i + d
  BY <1>1
<1>3. c < 128 => low \in Nat /\ low < 2048 /\ w = 2048 * (2 * k) + low
  BY <1>1
<1>4. c >= 128 => low11 \in Nat /\ low11 < 2048 /\ w = 2048 * (2 * k + 1) + low11
  BY <1>1
<1> HIDE DEF w, i, low, low11
<1>5. w \div 16 = i /\ w % 16 = d
  BY <1>2
<1>6. i % 256 = c
  BY <1>2
<1>7. c < 128 => w \div 2048 = 2 * k
  BY <1>3
<1>8. c >= 128 => w \div 2048 = 2 * k + 1
  BY <1>4
<1> QED BY <1>1, <1>5, <1>6, <1>7, <1>8 DEF FieldD, Constant8, w

LEMMA OffsetOfWord ==
  ASSUME NEW k \in Nat, NEW o \in Nat, k < 64, o < 1024
  PROVE  /\ Jump(k, o) \in Word
         /\ Jump(k, o) \div 1024 = k
         /\ Jump(k, o) \div 2048 = k \div 2
         /\ Offset10(Jump(k, o)) = o
<1> DEFINE w == Jump(k, o)
           q == k \div 2
           low == 1024 * (k % 2) + o
<1>1. w \in Word /\ w = 1024 * k + o
  BY DEF Word, Jump
<1>2. k = 2 * (k \div 2) + (k % 2) /\ k \div 2 \in Nat /\ k % 2 \in {0, 1}
  OBVIOUS
<1>3. q \in Nat /\ low \in Nat /\ low < 2048 /\ w = 2048 * q + low
  BY <1>1, <1>2
<1> HIDE DEF w, q, low
<1>4. w \div 1024 = k /\ w % 1024 = o
  BY <1>1
<1>5. w \div 2048 = q
  BY <1>3
<1> QED BY <1>1, <1>4, <1>5 DEF Offset10, w, q

-----------------------------------------------------------------------------
\* The records of the parser, by their op.

LEMMA ThreeRegisters ==
  ASSUME NEW s \in Instructions, s.op \in {"ldr_str", "arith", "logic"}
  PROVE  /\ s.rd \in 0 .. 15 /\ s.rn \in 0 .. 15 /\ s.rm \in 0 .. 15
         /\ s.op = "ldr_str" => s.name \in {"ldr", "ldrb", "str", "strb"}
         /\ s.op = "arith" => s.name \in {"add", "sub", "adc", "sbc"}
         /\ s.op = "logic" => s.name \in {"and", "orr", "eor"}
BY DEF Instructions, Register, LoadStoreOpcode, ArithOpcode, LogicOpcode

LEMMA TwoRegistersAndConstant ==
  ASSUME NEW s \in Instructions, s.op \in {"ldr_str_const", "arith_const", "shift"}
  PROVE  /\ s.rd \in 0 .. 15 /\ s.rn \in 0 .. 15
         /\ s.constant \in Operand
         /\ s.op = "ldr_str_const" => s.name \in {"ldr", "ldrb", "str", "strb"}
         /\ s.op = "arith_const" => s.name \in {"add", "sub", "adc", "sbc"}
         /\ s.op = "shift" => s.name \in {"lsl", "lsr", "asr", "ror"}
BY DEF Instructions, Register, LoadStoreOpcode, ArithOpcode, ShiftOpcode

LEMMA OtherRecords ==
  ASSUME NEW s \in Instructions
  PROVE  /\ s.op \in {"rrx", "mvn", "mov", "movs"} => s.rd \in 0 .. 15 /\ s.rn \in 0 .. 15
         /\ s.op = "cmp" => s.rn \in 0 .. 15 /\ s.rm \in 0 .. 15
         /\ s.op \in {"msr", "mrs"} => s.rd \in 0 .. 15 /\ s.special \in {"cpsr", "spsr"}
         /\ s.op = "stack" => s.rd \in 0 .. 15 /\ s.name \in {"push", "pop"}
BY DEF Instructions, Register, SpecialBit, StackOpcode

LEMMA OperandRecords ==
  ASSUME NEW s \in Instructions
  PROVE  /\ s.op = "ldr_relative" => /\ s.rd \in 0 .. 15 /\ s.target \in Operand
                                     /\ s.name \in {"ldr", "ldrb", "str", "strb"}
         /\ s.op = "branch" =>
              /\ s.target \in Operand
              /\ s.name \in {"eq", "ne", "cs", "hs", "cc", "lo", "ge", "lt", "b", "bl"}
         /\ s.op = "mov_const" => /\ s.rd \in 0 .. 15 /\ s.constant \in Operand
                                  /\ s.name \in {"mov", "movt"}
BY DEF Instructions, Register, LoadStoreOpcode, BranchOpcode, MovConstOpcode

-----------------------------------------------------------------------------
\* What the helpers return.

LEMMA CountIsBit ==
  ASSUME NEW c
  PROVE  Count(c) \in {0, 1} /\ (Count(c) = 0 => ~c)
BY DEF Count

LEMMA CastIsWord ==
  ASSUME NEW n \in Nat
  PROVE  Cast(n) \in Word /\ (n < 65536 => Cast(n) = n)
BY DEF Cast, Word

\* The OR is a sum while rn keeps to its three bits.
LEMMA OrRnIsSum ==
  ASSUME NEW n \in Nat, NEW m \in Nat, n < 16, m < 16
  PROVE  /\ OrRn(n, Rm(m)) \in Nat
         /\ n < 8 => OrRn(n, Rm(m)) = 128 * m + 16 * n
<1>1. (128 * m) \div 128 = m
  OBVIOUS
<1>2. n % 8 \in Nat /\ (n < 8 => n % 8 = n)
  OBVIOUS
<1> QED BY <1>1, <1>2 DEF OrRn, Rm

-----------------------------------------------------------------------------
\* The reader, by group.

LEMMA ReadLoadStore ==
  ASSUME NEW w
  PROVE  /\ w \div 2048 = 2 => Decode(w) = Three("ldr", "register", w)
         /\ w \div 2048 = 3 => Decode(w) = Three("ldrb", "register", w)
         /\ w \div 2048 = 6 => Decode(w) = Three("str", "register", w)
         /\ w \div 2048 = 7 => Decode(w) = Three("strb", "register", w)
BY DEF Decode, DecodeRegisterIndex

LEMMA ReadArith ==
  ASSUME NEW w
  PROVE  /\ w \div 2048 = 16 => Decode(w) = Three("add", "register", w)
         /\ w \div 2048 = 17 => Decode(w) = Three("sub", "register", w)
         /\ w \div 2048 = 18 => Decode(w) = Three("adc", "register", w)
         /\ w \div 2048 = 19 => Decode(w) = Three("sbc", "register", w)
BY DEF Decode, DecodeArith

LEMMA ReadLogic ==
  ASSUME NEW w
  PROVE  /\ w \div 2048 = 24 => Decode(w) = Three("and", "register", w)
         /\ w \div 2048 = 25 => Decode(w) = Three("orr", "register", w)
         /\ w \div 2048 = 26 => Decode(w) = Three("eor", "register", w)
BY DEF Decode, DecodeLogicAndShift

LEMMA ReadArithConst ==
  ASSUME NEW w
  PROVE  /\ w \div 2048 = 20 => Decode(w) = Three("add", "constant", w)
         /\ w \div 2048 = 21 => Decode(w) = Three("sub", "constant", w)
BY DEF Decode, DecodeArith

LEMMA ReadShift ==
  ASSUME NEW w
  PROVE  /\ w \div 2048 = 28 => Decode(w) = Three("lsl", "constant", w)
         /\ w \div 2048 = 29 => Decode(w) = Three("lsr", "constant", w)
         /\ w \div 2048 = 30 => Decode(w) = Three("asr", "constant", w)
         /\ w \div 2048 = 31 => Decode(w) = Three("ror", "constant", w)
BY DEF Decode, DecodeLogicAndShift

LEMMA ReadBytes ==
  ASSUME NEW w
  PROVE  /\ w \div 2048 \in {12, 13} =>
              Decode(w) = <<"mov", FieldD(w), "constant", Constant8(w)>>
         /\ w \div 2048 \in {14, 15} =>
              Decode(w) = <<"movt", FieldD(w), "constant", Constant8(w)>>
BY DEF Decode

LEMMA ReadIndexOrStack ==
  ASSUME NEW w
  PROVE  /\ w \div 2048 = 0 => Decode(w) = DecodeMemory(0, w)
         /\ w \div 2048 = 1 => Decode(w) = DecodeMemory(1, w)
         /\ w \div 2048 = 4 => Decode(w) = DecodeMemory(4, w)
         /\ w \div 2048 = 5 => Decode(w) = DecodeMemory(5, w)
BY DEF Decode

LEMMA ReadBranch ==
  ASSUME NEW w, w \div 2048 \in 8 .. 11
  PROVE  Decode(w) = <<Condition[(w \div 1024) - 15], Offset10(w)>>
BY DEF Decode

LEMMA ReadTwoRegisters ==
  ASSUME NEW w
  PROVE  /\ w \div 2048 = 22 => Decode(w) = DecodeMove(w)
         /\ w \div 2048 = 23 => Decode(w) = <<"cmp", FieldN(w), FieldM(w)>>
         /\ w \div 2048 = 27 => Decode(w) = <<"rrx", FieldD(w), FieldN(w)>>
BY DEF Decode, DecodeLogicAndShift

-----------------------------------------------------------------------------
\* A visit keeps the invariant when the word it writes reads back.

Sound(word, errors) ==
  /\ word \in Word
  /\ errors = 0 /\ (This.op = "shift" => Number(This.constant)) =>
       Decode(word) = Meaning(This, Offset)

LEMMA VisitedPreserves ==
  ASSUME TypeOK, CodesDecode, pc \in DOMAIN ast,
         NEW word, NEW errors \in Nat, NEW warnings \in Nat,
         NEW new \in Seq(Relocation),
         Sound(word, errors), Visited(word, errors, warnings, new)
  PROVE  TypeOK' /\ CodesDecode'
<1>1. /\ ast \in Seq(Instructions) /\ ast' = ast
      /\ start \in {0, 1} /\ start' = start
      /\ pc \in 1 .. Len(ast) + 1 /\ pc' = pc + 1
  BY DEF TypeOK, Visited
<1>2. Len(ast) \in Nat /\ DOMAIN ast = 1 .. Len(ast)
  BY <1>1
<1>3. pc \in 1 .. Len(ast) /\ pc' \in 1 .. Len(ast') + 1
  BY <1>1, <1>2
<1>4. /\ code' \in [DOMAIN ast -> Word]
      /\ code'[pc] = word
      /\ \A j \in DOMAIN ast : j # pc => code'[j] = code[j]
  BY DEF TypeOK, Visited, Sound
<1>5. warnings + Count(Offset % 2 # 0) \in Nat
  <2>1. Count(Offset % 2 # 0) \in {0, 1}
    BY CountIsBit
  <2> QED BY <2>1
<1>6. /\ reports' \in [DOMAIN ast -> [errors : Nat, warnings : Nat]]
      /\ reports'[pc].errors = errors
      /\ \A j \in DOMAIN ast : j # pc => reports'[j] = reports[j]
  BY <1>5 DEF TypeOK, Visited
<1>7. relocs' \in Seq(Relocation) /\ Relocation' = Relocation
  BY <1>1 DEF TypeOK, Visited, Relocation
<1>8. TypeOK'
  BY <1>1, <1>3, <1>4, <1>6, <1>7 DEF TypeOK
<1>9. ASSUME NEW j \in 1 .. pc' - 1, NoErrors(j)', Written(j)'
      PROVE  Decode(code'[j]) = Meaning(ast'[j], OffsetOf(j)')
  <2>1. CASE j = pc
    <3>1. errors = 0 /\ (This.op = "shift" => Number(This.constant))
      BY <1>1, <1>6, <1>9, <2>1 DEF NoErrors, Written, This
    <3>2. OffsetOf(j)' = Offset
      BY <1>1, <2>1 DEF OffsetOf, Offset
    <3> QED BY <1>1, <1>4, <2>1, <3>1, <3>2 DEF Sound, This
  <2>2. CASE j # pc
    <3>1. j \in 1 .. pc - 1 /\ j \in DOMAIN ast
      BY <1>1, <1>2, <1>3, <2>2
    <3>2. NoErrors(j) /\ Written(j) /\ OffsetOf(j)' = OffsetOf(j)
      BY <1>1, <1>6, <1>9, <2>2, <3>1 DEF NoErrors, Written, OffsetOf
    <3> QED BY <1>1, <1>4, <2>2, <3>1, <3>2 DEF CodesDecode
  <2> QED BY <2>1, <2>2
<1> QED BY <1>8, <1>9 DEF CodesDecode

LEMMA WritePreserves ==
  ASSUME TypeOK, CodesDecode, pc \in DOMAIN ast,
         NEW word \in Nat, NEW errors \in Nat, NEW warnings \in Nat,
         Write(word, errors, warnings),
         errors = 0 /\ (This.op = "shift" => Number(This.constant)) =>
           word < 65536 /\ Decode(word) = Meaning(This, Offset)
  PROVE  TypeOK' /\ CodesDecode'
<1>1. Sound(Cast(word), errors)
  BY CastIsWord DEF Sound
<1>2. <<>> \in Seq(Relocation)
  OBVIOUS
<1>3. Visited(Cast(word), errors, warnings, <<>>)
  BY DEF Write
<1> DEFINE cast == Cast(word)
           new == <<>>
<1> HIDE DEF cast, new
<1>4. Sound(cast, errors) /\ Visited(cast, errors, warnings, new)
  BY <1>1, <1>3 DEF cast, new
<1>5. new \in Seq(Relocation)
  BY <1>2 DEF new
<1> QED BY <1>4, <1>5, VisitedPreserves

LEMMA VisitingStatement ==
  ASSUME TypeOK, NEW op, Visiting(op)
  PROVE  pc \in DOMAIN ast /\ This \in Instructions /\ This.op = op
BY DEF TypeOK, Visiting, This

LEMMA BadRnIsBit ==
  ASSUME NEW n \in Nat
  PROVE  BadRn(n) \in {0, 1} /\ (BadRn(n) = 0 => n < 8)
BY DEF BadRn, Count

\* Each mnemonic has a group of its own.

LEMMA LoadStoreGroup ==
  ASSUME NEW name \in {"ldr", "ldrb", "str", "strb"}
  PROVE  \E g \in Nat : /\ g < 32 /\ LoadStoreOpcode[name] + RegisterIndex = 2048 * g
                        /\ \A w : w \div 2048 = g => Decode(w) = Three(name, "register", w)
<1>1. CASE name = "ldr"
  <2>1. LoadStoreOpcode["ldr"] + RegisterIndex = 2048 * 2
    BY DEF LoadStoreOpcode, RegisterIndex
  <2> QED BY <1>1, <2>1, ReadLoadStore, 2 \in Nat
<1>2. CASE name = "ldrb"
  <2>1. LoadStoreOpcode["ldrb"] + RegisterIndex = 2048 * 3
    BY DEF LoadStoreOpcode, RegisterIndex
  <2> QED BY <1>2, <2>1, ReadLoadStore, 3 \in Nat
<1>3. CASE name = "str"
  <2>1. LoadStoreOpcode["str"] + RegisterIndex = 2048 * 6
    BY DEF LoadStoreOpcode, RegisterIndex
  <2> QED BY <1>3, <2>1, ReadLoadStore, 6 \in Nat
<1>4. CASE name = "strb"
  <2>1. LoadStoreOpcode["strb"] + RegisterIndex = 2048 * 7
    BY DEF LoadStoreOpcode, RegisterIndex
  <2> QED BY <1>4, <2>1, ReadLoadStore, 7 \in Nat
<1> QED BY <1>1, <1>2, <1>3, <1>4

LEMMA ArithGroup ==
  ASSUME NEW name \in {"add", "sub", "adc", "sbc"}
  PROVE  \E g \in Nat : /\ g < 32 /\ ArithOpcode[name] = 2048 * g
                        /\ \A w : w \div 2048 = g => Decode(w) = Three(name, "register", w)
<1>1. CASE name = "add"
  <2>1. ArithOpcode["add"] = 2048 * 16
    BY DEF ArithOpcode
  <2> QED BY <1>1, <2>1, ReadArith, 16 \in Nat
<1>2. CASE name = "sub"
  <2>1. ArithOpcode["sub"] = 2048 * 17
    BY DEF ArithOpcode
  <2> QED BY <1>2, <2>1, ReadArith, 17 \in Nat
<1>3. CASE name = "adc"
  <2>1. ArithOpcode["adc"] = 2048 * 18
    BY DEF ArithOpcode
  <2> QED BY <1>3, <2>1, ReadArith, 18 \in Nat
<1>4. CASE name = "sbc"
  <2>1. ArithOpcode["sbc"] = 2048 * 19
    BY DEF ArithOpcode
  <2> QED BY <1>4, <2>1, ReadArith, 19 \in Nat
<1> QED BY <1>1, <1>2, <1>3, <1>4

LEMMA LogicGroup ==
  ASSUME NEW name \in {"and", "orr", "eor"}
  PROVE  \E g \in Nat : /\ g < 32 /\ LogicOpcode[name] = 2048 * g
                        /\ \A w : w \div 2048 = g => Decode(w) = Three(name, "register", w)
<1>1. CASE name = "and"
  <2>1. LogicOpcode["and"] = 2048 * 24
    BY DEF LogicOpcode
  <2> QED BY <1>1, <2>1, ReadLogic, 24 \in Nat
<1>2. CASE name = "orr"
  <2>1. LogicOpcode["orr"] = 2048 * 25
    BY DEF LogicOpcode
  <2> QED BY <1>2, <2>1, ReadLogic, 25 \in Nat
<1>3. CASE name = "eor"
  <2>1. LogicOpcode["eor"] = 2048 * 26
    BY DEF LogicOpcode
  <2> QED BY <1>3, <2>1, ReadLogic, 26 \in Nat
<1> QED BY <1>1, <1>2, <1>3

LEMMA ShiftGroup ==
  ASSUME NEW name \in {"lsl", "lsr", "asr", "ror"}
  PROVE  \E g \in Nat : /\ g < 32 /\ ShiftOpcode[name] = 2048 * g
                        /\ \A w : w \div 2048 = g => Decode(w) = Three(name, "constant", w)
<1>1. CASE name = "lsl"
  <2>1. ShiftOpcode["lsl"] = 2048 * 28
    BY DEF ShiftOpcode
  <2> QED BY <1>1, <2>1, ReadShift, 28 \in Nat
<1>2. CASE name = "lsr"
  <2>1. ShiftOpcode["lsr"] = 2048 * 29
    BY DEF ShiftOpcode
  <2> QED BY <1>2, <2>1, ReadShift, 29 \in Nat
<1>3. CASE name = "asr"
  <2>1. ShiftOpcode["asr"] = 2048 * 30
    BY DEF ShiftOpcode
  <2> QED BY <1>3, <2>1, ReadShift, 30 \in Nat
<1>4. CASE name = "ror"
  <2>1. ShiftOpcode["ror"] = 2048 * 31
    BY DEF ShiftOpcode
  <2> QED BY <1>4, <2>1, ReadShift, 31 \in Nat
<1> QED BY <1>1, <1>2, <1>3, <1>4

LEMMA ArithConstGroup ==
  ASSUME NEW name \in {"add", "sub"}
  PROVE  \E g \in Nat : /\ g < 32 /\ ArithConstOpcode[name] = 2048 * g
                        /\ \A w : w \div 2048 = g => Decode(w) = Three(name, "constant", w)
<1>1. CASE name = "add"
  <2>1. ArithConstOpcode["add"] = 2048 * 20
    BY DEF ArithConstOpcode
  <2> QED BY <1>1, <2>1, ReadArithConst, 20 \in Nat
<1>2. CASE name = "sub"
  <2>1. ArithConstOpcode["sub"] = 2048 * 21
    BY DEF ArithConstOpcode
  <2> QED BY <1>2, <2>1, ReadArithConst, 21 \in Nat
<1> QED BY <1>1, <1>2

LEMMA ReadIndexed ==
  ASSUME NEW w, Bit10(w) = 0
  PROVE  /\ DecodeMemory(0, w) = Three("ldr", "constant", w)
         /\ DecodeMemory(1, w) = Three("ldrb", "constant", w)
         /\ DecodeMemory(4, w) = Three("str", "constant", w)
         /\ DecodeMemory(5, w) = Three("strb", "constant", w)
BY DEF DecodeMemory

LEMMA LoadStoreConstGroup ==
  ASSUME NEW name \in {"ldr", "ldrb", "str", "strb"}
  PROVE  \E g \in Nat : /\ g < 32 /\ LoadStoreOpcode[name] = 2048 * g
                        /\ \A w : w \div 2048 = g /\ Bit10(w) = 0 =>
                             Decode(w) = Three(name, "constant", w)
<1>1. CASE name = "ldr"
  BY <1>1, ReadIndexOrStack, ReadIndexed, 0 \in Nat DEF LoadStoreOpcode
<1>2. CASE name = "ldrb"
  BY <1>2, ReadIndexOrStack, ReadIndexed, 1 \in Nat DEF LoadStoreOpcode
<1>3. CASE name = "str"
  BY <1>3, ReadIndexOrStack, ReadIndexed, 4 \in Nat DEF LoadStoreOpcode
<1>4. CASE name = "strb"
  BY <1>4, ReadIndexOrStack, ReadIndexed, 5 \in Nat DEF LoadStoreOpcode
<1> QED BY <1>1, <1>2, <1>3, <1>4

LEMMA MovConstGroup ==
  ASSUME NEW name \in {"mov", "movt"}
  PROVE  \E k \in Nat : /\ k < 16 /\ MovConstOpcode[name] = 4096 * k
                        /\ \A w : w \div 2048 \in {2 * k, 2 * k + 1} =>
                             Decode(w) = <<name, FieldD(w), "constant", Constant8(w)>>
<1>1. CASE name = "mov"
  BY <1>1, ReadBytes, 6 \in Nat DEF MovConstOpcode
<1>2. CASE name = "movt"
  BY <1>2, ReadBytes, 7 \in Nat DEF MovConstOpcode
<1> QED BY <1>1, <1>2

LEMMA BranchGroup ==
  ASSUME NEW name \in {"eq", "ne", "cs", "hs", "cc", "lo", "ge", "lt", "b", "bl"}
  PROVE  \E k \in 16 .. 23 : /\ BranchOpcode[name] = 1024 * k
                             /\ Condition[k - 15] = Canonical(name)
<1>1. /\ BranchOpcode["eq"] = 1024 * 16 /\ BranchOpcode["ne"] = 1024 * 17
      /\ BranchOpcode["cs"] = 1024 * 18 /\ BranchOpcode["hs"] = 1024 * 18
      /\ BranchOpcode["cc"] = 1024 * 19 /\ BranchOpcode["lo"] = 1024 * 19
      /\ BranchOpcode["ge"] = 1024 * 20 /\ BranchOpcode["lt"] = 1024 * 21
      /\ BranchOpcode["b"] = 1024 * 22 /\ BranchOpcode["bl"] = 1024 * 23
  BY DEF BranchOpcode
<1>2. /\ Condition[16 - 15] = "eq" /\ Condition[17 - 15] = "ne"
      /\ Condition[18 - 15] = "cs" /\ Condition[19 - 15] = "cc"
      /\ Condition[20 - 15] = "ge" /\ Condition[21 - 15] = "lt"
      /\ Condition[22 - 15] = "b" /\ Condition[23 - 15] = "bl"
  BY DEF Condition
<1>3. Canonical(name) = IF name = "hs" THEN "cs" ELSE IF name = "lo" THEN "cc" ELSE name
  BY DEF Canonical
<1> QED BY <1>1, <1>2, <1>3

\* What an operand gives to a field.

LEMMA GivenToFour ==
  ASSUME NEW e, NEW v \in Nat
  PROVE  /\ Given(e, v, 16) \in Nat /\ Given(e, v, 16) < 16
         /\ (IF Number(e) THEN Rm(v % 16) ELSE 0) = Rm(Given(e, v, 16))
BY DEF Given, Rm

LEMMA GivenToThree ==
  ASSUME NEW e, NEW v \in Nat
  PROVE  /\ Given(e, v, 8) \in Nat /\ Given(e, v, 8) < 8
         /\ (IF Number(e) THEN Rm(v % 8) ELSE 0) = Rm(Given(e, v, 8))
BY DEF Given, Rm

LEMMA OperandValue ==
  ASSUME NEW e \in Operand
  PROVE  e.value \in Nat /\ e.value \div 2 \in Nat
<1>1. e.value \in Nat
  BY DEF Operand, Word
<1> QED BY <1>1

LEMMA ReportCounts ==
  ASSUME NEW e
  PROVE  EvalErrors(e) \in {0, 1} /\ EvalWarnings(e) \in {0, 1}
BY DEF EvalErrors, EvalWarnings, Count

-----------------------------------------------------------------------------
\* One lemma per instruction.

LEMMA NotStep ==
  ASSUME TypeOK, CodesDecode, VisitNot
  PROVE  TypeOK' /\ CodesDecode'
<1> DEFINE s == This
           word == NotOpcode + Rm(s.rn) + Rd(s.rd)
<1>1. pc \in DOMAIN ast /\ s \in Instructions /\ s.op = "mvn"
  BY VisitingStatement DEF VisitNot
<1>2. /\ s.rd \in Nat /\ s.rd < 16
      /\ s.rn \in Nat /\ s.rn < 16
  BY <1>1, OtherRecords
<1>3. word = Fields(22, s.rn, 1, s.rd)
  BY <1>2 DEF NotOpcode, Rm, Rd, Fields
<1>4. Meaning(s, Offset) = <<"mvn", s.rd, s.rn>>
  BY <1>1 DEF Meaning
<1>5. Write(word, 0, 0)
  BY DEF VisitNot
<1> HIDE DEF word, s
<1>6. /\ word \in Word /\ word \div 2048 = 22
      /\ FieldM(word) = s.rn /\ FieldN(word) = 1 /\ FieldD(word) = s.rd
  BY <1>2, <1>3, FieldsOfWord
<1>7. Decode(word) = <<"mvn", s.rd, s.rn>>
  BY <1>6, ReadTwoRegisters DEF DecodeMove
<1> QED BY <1>1, <1>4, <1>5, <1>6, <1>7, WritePreserves DEF Word, s

LEMMA MovStep ==
  ASSUME TypeOK, CodesDecode, VisitMov
  PROVE  TypeOK' /\ CodesDecode'
<1> DEFINE s == This
           word == MovOpcode + Rm(s.rn) + Rd(s.rd)
<1>1. pc \in DOMAIN ast /\ s \in Instructions /\ s.op = "mov"
  BY VisitingStatement DEF VisitMov
<1>2. /\ s.rd \in Nat /\ s.rd < 16
      /\ s.rn \in Nat /\ s.rn < 16
  BY <1>1, OtherRecords
<1>3. word = Fields(22, s.rn, 0, s.rd)
  BY <1>2 DEF MovOpcode, Rm, Rd, Fields
<1>4. Meaning(s, Offset) = <<"mov", s.rd, s.rn>>
  BY <1>1 DEF Meaning
<1>5. Write(word, 0, 0)
  BY DEF VisitMov
<1> HIDE DEF word, s
<1>6. /\ word \in Word /\ word \div 2048 = 22
      /\ FieldM(word) = s.rn /\ FieldN(word) = 0 /\ FieldD(word) = s.rd
  BY <1>2, <1>3, FieldsOfWord
<1>7. Decode(word) = <<"mov", s.rd, s.rn>>
  BY <1>6, ReadTwoRegisters DEF DecodeMove
<1> QED BY <1>1, <1>4, <1>5, <1>6, <1>7, WritePreserves DEF Word, s

LEMMA MsrStep ==
  ASSUME TypeOK, CodesDecode, VisitMsr
  PROVE  TypeOK' /\ CodesDecode'
<1> DEFINE s == This
           word == MsrOpcode + SpecialBit[s.special] + Rm(s.rd)
<1>1. pc \in DOMAIN ast /\ s \in Instructions /\ s.op = "msr"
  BY VisitingStatement DEF VisitMsr
<1>2. s.rd \in Nat /\ s.rd < 16 /\ s.special \in {"cpsr", "spsr"}
  BY <1>1, OtherRecords
<1>3. word \in Nat
  BY <1>2 DEF MsrOpcode, SpecialBit, Rm
<1>4. Meaning(s, Offset) = <<"msr", s.special, s.rd>>
  BY <1>1 DEF Meaning
<1>5. Write(word, 0, 0)
  BY DEF VisitMsr
<1>6. CASE s.special = "cpsr"
  <2>1. word = Fields(22, s.rd, 4, 0)
    BY <1>2, <1>6 DEF MsrOpcode, SpecialBit, Rm, Fields
  <2> HIDE DEF word, s
  <2>2. /\ word \in Word /\ word \div 2048 = 22
        /\ FieldM(word) = s.rd /\ FieldN(word) = 4 /\ FieldD(word) = 0
    BY <1>2, <2>1, FieldsOfWord
  <2>3. Decode(word) = <<"msr", s.special, s.rd>>
    BY <1>6, <2>2, ReadTwoRegisters DEF DecodeMove
  <2> QED BY <1>1, <1>3, <1>4, <1>5, <2>2, <2>3, WritePreserves DEF Word, s
<1>7. CASE s.special = "spsr"
  <2>1. word = Fields(22, s.rd, 5, 0)
    BY <1>2, <1>7 DEF MsrOpcode, SpecialBit, Rm, Fields
  <2> HIDE DEF word, s
  <2>2. /\ word \in Word /\ word \div 2048 = 22
        /\ FieldM(word) = s.rd /\ FieldN(word) = 5 /\ FieldD(word) = 0
    BY <1>2, <2>1, FieldsOfWord
  <2>3. Decode(word) = <<"msr", s.special, s.rd>>
    BY <1>7, <2>2, ReadTwoRegisters DEF DecodeMove
  <2> QED BY <1>1, <1>3, <1>4, <1>5, <2>2, <2>3, WritePreserves DEF Word, s
<1> QED BY <1>2, <1>6, <1>7

LEMMA MrsStep ==
  ASSUME TypeOK, CodesDecode, VisitMrs
  PROVE  TypeOK' /\ CodesDecode'
<1> DEFINE s == This
           word == MrsOpcode + SpecialBit[s.special] + Rd(s.rd)
<1>1. pc \in DOMAIN ast /\ s \in Instructions /\ s.op = "mrs"
  BY VisitingStatement DEF VisitMrs
<1>2. s.rd \in Nat /\ s.rd < 16 /\ s.special \in {"cpsr", "spsr"}
  BY <1>1, OtherRecords
<1>3. word \in Nat
  BY <1>2 DEF MrsOpcode, SpecialBit, Rd
<1>4. Meaning(s, Offset) = <<"mrs", s.special, s.rd>>
  BY <1>1 DEF Meaning
<1>5. Write(word, 0, 0)
  BY DEF VisitMrs
<1>6. CASE s.special = "cpsr"
  <2>1. word = Fields(22, 0, 6, s.rd)
    BY <1>2, <1>6 DEF MrsOpcode, SpecialBit, Rd, Fields
  <2> HIDE DEF word, s
  <2>2. /\ word \in Word /\ word \div 2048 = 22
        /\ FieldM(word) = 0 /\ FieldN(word) = 6 /\ FieldD(word) = s.rd
    BY <1>2, <2>1, FieldsOfWord
  <2>3. Decode(word) = <<"mrs", s.special, s.rd>>
    BY <1>6, <2>2, ReadTwoRegisters DEF DecodeMove
  <2> QED BY <1>1, <1>3, <1>4, <1>5, <2>2, <2>3, WritePreserves DEF Word, s
<1>7. CASE s.special = "spsr"
  <2>1. word = Fields(22, 0, 7, s.rd)
    BY <1>2, <1>7 DEF MrsOpcode, SpecialBit, Rd, Fields
  <2> HIDE DEF word, s
  <2>2. /\ word \in Word /\ word \div 2048 = 22
        /\ FieldM(word) = 0 /\ FieldN(word) = 7 /\ FieldD(word) = s.rd
    BY <1>2, <2>1, FieldsOfWord
  <2>3. Decode(word) = <<"mrs", s.special, s.rd>>
    BY <1>7, <2>2, ReadTwoRegisters DEF DecodeMove
  <2> QED BY <1>1, <1>3, <1>4, <1>5, <2>2, <2>3, WritePreserves DEF Word, s
<1> QED BY <1>2, <1>6, <1>7

LEMMA StackStep ==
  ASSUME TypeOK, CodesDecode, VisitPushPop
  PROVE  TypeOK' /\ CodesDecode'
<1> DEFINE s == This
           word == StackOpcode[s.name] + Rd(s.rd)
<1>1. pc \in DOMAIN ast /\ s \in Instructions /\ s.op = "stack"
  BY VisitingStatement DEF VisitPushPop
<1>2. s.rd \in Nat /\ s.rd < 16 /\ s.name \in {"push", "pop"}
  BY <1>1, OtherRecords
<1>3. word \in Nat
  BY <1>2 DEF StackOpcode, Rd
<1>4. Meaning(s, Offset) = <<s.name, s.rd>>
  BY <1>1 DEF Meaning
<1>5. Write(word, 0, 0)
  BY DEF VisitPushPop
<1>6. CASE s.name = "push"
  <2>1. word = Fields(4, 8, 0, s.rd)
    BY <1>2, <1>6 DEF StackOpcode, Rd, Fields
  <2> HIDE DEF word, s
  <2>2. /\ word \in Word /\ word \div 2048 = 4 /\ Bit10(word) = 1
        /\ FieldM(word) = 8 /\ FieldN(word) = 0 /\ FieldD(word) = s.rd
    BY <1>2, <2>1, FieldsOfWord
  <2>3. Decode(word) = <<s.name, s.rd>>
    BY <1>6, <2>2, ReadIndexOrStack DEF DecodeMemory
  <2> QED BY <1>1, <1>3, <1>4, <1>5, <2>2, <2>3, WritePreserves DEF Word, s
<1>7. CASE s.name = "pop"
  <2>1. word = Fields(0, 8, 0, s.rd)
    BY <1>2, <1>7 DEF StackOpcode, Rd, Fields
  <2> HIDE DEF word, s
  <2>2. /\ word \in Word /\ word \div 2048 = 0 /\ Bit10(word) = 1
        /\ FieldM(word) = 8 /\ FieldN(word) = 0 /\ FieldD(word) = s.rd
    BY <1>2, <2>1, FieldsOfWord
  <2>3. Decode(word) = <<s.name, s.rd>>
    BY <1>7, <2>2, ReadIndexOrStack DEF DecodeMemory
  <2> QED BY <1>1, <1>3, <1>4, <1>5, <2>2, <2>3, WritePreserves DEF Word, s
<1> QED BY <1>2, <1>6, <1>7

LEMMA MovsStep ==
  ASSUME TypeOK, CodesDecode, VisitMovs
  PROVE  TypeOK' /\ CodesDecode'
<1> DEFINE s == This
           word == MovsOpcode
           errors == Count(s.rd # 15) + Count(s.rn # 14)
<1>1. pc \in DOMAIN ast /\ s \in Instructions /\ s.op = "movs"
  BY VisitingStatement DEF VisitMovs
<1>2. errors \in Nat
  BY CountIsBit
<1>3. word = Fields(22, 0, 2, 0)
  BY DEF MovsOpcode, Fields
<1>4. Meaning(s, Offset) = <<"movs">>
  BY <1>1 DEF Meaning
<1>5. Write(word, errors, 0)
  BY DEF VisitMovs
<1> HIDE DEF word, errors, s
<1>6. word \in Word /\ word \div 2048 = 22 /\ FieldN(word) = 2
  BY <1>3, FieldsOfWord
<1>7. Decode(word) = <<"movs">>
  BY <1>6, ReadTwoRegisters DEF DecodeMove
<1> QED BY <1>1, <1>2, <1>4, <1>5, <1>6, <1>7, WritePreserves DEF Word, s

LEMMA RrxStep ==
  ASSUME TypeOK, CodesDecode, VisitRrx
  PROVE  TypeOK' /\ CodesDecode'
<1> DEFINE s == This
           word == RrxOpcode + Rn(s.rn) + Rd(s.rd)
           errors == BadRn(s.rn)
<1>1. pc \in DOMAIN ast /\ s \in Instructions /\ s.op = "rrx"
  BY VisitingStatement DEF VisitRrx
<1>2. /\ s.rd \in Nat /\ s.rd < 16
      /\ s.rn \in Nat /\ s.rn < 16
  BY <1>1, OtherRecords
<1>3. errors \in Nat /\ (errors = 0 => s.rn < 8)
  BY <1>2, BadRnIsBit
<1>4. Meaning(s, Offset) = <<"rrx", s.rd, s.rn>>
  BY <1>1 DEF Meaning
<1>5. Write(word, errors, 0)
  BY DEF VisitRrx
<1>6. word \in Nat /\ word = Fields(27, 0, s.rn, s.rd)
  BY <1>2 DEF RrxOpcode, Rn, Rd, Fields
<1> HIDE DEF word, errors, s
<1>7. ASSUME errors = 0 PROVE word < 65536 /\ Decode(word) = <<"rrx", s.rd, s.rn>>
  <2>1. s.rn < 8
    BY <1>3, <1>7
  <2>2. word \in Word /\ word \div 2048 = 27 /\ FieldN(word) = s.rn /\ FieldD(word) = s.rd
    BY <1>2, <1>6, <2>1, FieldsOfWord
  <2>3. Decode(word) = <<"rrx", FieldD(word), FieldN(word)>>
    BY <2>2, ReadTwoRegisters
  <2> QED BY <2>2, <2>3 DEF Word
<1> QED BY <1>1, <1>3, <1>4, <1>5, <1>6, <1>7, WritePreserves DEF s

LEMMA CompareStep ==
  ASSUME TypeOK, CodesDecode, VisitCompare
  PROVE  TypeOK' /\ CodesDecode'
<1> DEFINE s == This
           or == OrRn(s.rn, Rm(s.rm))
           word == CmpOpcode + OrRn(s.rn, Rm(s.rm))
           errors == BadRn(s.rn)
<1>1. pc \in DOMAIN ast /\ s \in Instructions /\ s.op = "cmp"
  BY VisitingStatement DEF VisitCompare
<1>2. /\ s.rn \in Nat /\ s.rn < 16
      /\ s.rm \in Nat /\ s.rm < 16
  BY <1>1, OtherRecords
<1>3. errors \in Nat /\ (errors = 0 => s.rn < 8)
  BY <1>2, BadRnIsBit
<1>4. Meaning(s, Offset) = <<"cmp", s.rn, s.rm>>
  BY <1>1 DEF Meaning
<1>5. Write(word, errors, 0)
  BY DEF VisitCompare
<1>6. word = CmpOpcode + or
  OBVIOUS
<1> HIDE DEF word, errors, s
<1>7. or \in Nat /\ (s.rn < 8 => or = 128 * s.rm + 16 * s.rn)
  BY <1>2, OrRnIsSum
<1> HIDE DEF or
<1>8. word \in Nat /\ (s.rn < 8 => word = Fields(23, s.rm, s.rn, 0))
  BY <1>2, <1>6, <1>7 DEF CmpOpcode, Fields
<1>9. ASSUME errors = 0 PROVE word < 65536 /\ Decode(word) = <<"cmp", s.rn, s.rm>>
  <2>1. s.rn < 8 /\ word = Fields(23, s.rm, s.rn, 0)
    BY <1>3, <1>8, <1>9
  <2>2. word \in Word /\ word \div 2048 = 23 /\ FieldN(word) = s.rn /\ FieldM(word) = s.rm
    BY <1>2, <2>1, FieldsOfWord
  <2>3. Decode(word) = <<"cmp", FieldN(word), FieldM(word)>>
    BY <2>2, ReadTwoRegisters
  <2> QED BY <2>2, <2>3 DEF Word
<1> QED BY <1>1, <1>3, <1>4, <1>5, <1>8, <1>9, WritePreserves DEF s

LEMMA LoadStoreStep ==
  ASSUME TypeOK, CodesDecode, VisitLoadStore
  PROVE  TypeOK' /\ CodesDecode'
<1> DEFINE s == This
           or == OrRn(s.rn, Rm(s.rm))
           word == LoadStoreOpcode[s.name] + RegisterIndex + Rd(s.rd) + or
           errors == BadRn(s.rn)
<1>1. pc \in DOMAIN ast /\ s \in Instructions /\ s.op = "ldr_str"
  BY VisitingStatement DEF VisitLoadStore
<1>2. /\ s.rd \in Nat /\ s.rd < 16
      /\ s.rn \in Nat /\ s.rn < 16
      /\ s.rm \in Nat /\ s.rm < 16
      /\ s.name \in {"ldr", "ldrb", "str", "strb"}
  BY <1>1, ThreeRegisters
<1>3. errors \in Nat /\ (errors = 0 => s.rn < 8)
  BY <1>2, BadRnIsBit
<1>4. Meaning(s, Offset) = <<s.name, s.rd, s.rn, "register", s.rm>>
  BY <1>1 DEF Meaning
<1>5. Write(word, errors, 0)
  BY DEF VisitLoadStore
<1>6. PICK g \in Nat : /\ g < 32 /\ LoadStoreOpcode[s.name] + RegisterIndex = 2048 * g
                       /\ \A w : w \div 2048 = g => Decode(w) = Three(s.name, "register", w)
  BY <1>2, LoadStoreGroup
<1>7. word = LoadStoreOpcode[s.name] + RegisterIndex + Rd(s.rd) + or
  OBVIOUS
<1> HIDE DEF word, errors, s
<1>8. or \in Nat /\ (s.rn < 8 => or = 128 * s.rm + 16 * s.rn)
  BY <1>2, OrRnIsSum
<1> HIDE DEF or
<1>9. word \in Nat /\ (s.rn < 8 => word = Fields(g, s.rm, s.rn, s.rd))
  BY <1>2, <1>6, <1>7, <1>8 DEF Rd, Fields
<1>10. ASSUME errors = 0
       PROVE  word < 65536 /\ Decode(word) = <<s.name, s.rd, s.rn, "register", s.rm>>
  <2>1. s.rn < 8 /\ word = Fields(g, s.rm, s.rn, s.rd)
    BY <1>3, <1>9, <1>10
  <2>2. /\ word \in Word /\ word \div 2048 = g
        /\ FieldM(word) = s.rm /\ FieldN(word) = s.rn /\ FieldD(word) = s.rd
    BY <1>2, <1>6, <2>1, FieldsOfWord
  <2>3. Decode(word) = Three(s.name, "register", word)
    BY <1>6, <2>2
  <2> QED BY <2>2, <2>3 DEF Three, Word
<1> QED BY <1>1, <1>3, <1>4, <1>5, <1>9, <1>10, WritePreserves DEF s

LEMMA ArithStep ==
  ASSUME TypeOK, CodesDecode, VisitArith
  PROVE  TypeOK' /\ CodesDecode'
<1> DEFINE s == This
           or == OrRn(s.rn, Rm(s.rm))
           word == ArithOpcode[s.name] + Rd(s.rd) + or
           errors == BadRn(s.rn)
<1>1. pc \in DOMAIN ast /\ s \in Instructions /\ s.op = "arith"
  BY VisitingStatement DEF VisitArith
<1>2. /\ s.rd \in Nat /\ s.rd < 16
      /\ s.rn \in Nat /\ s.rn < 16
      /\ s.rm \in Nat /\ s.rm < 16
      /\ s.name \in {"add", "sub", "adc", "sbc"}
  BY <1>1, ThreeRegisters
<1>3. errors \in Nat /\ (errors = 0 => s.rn < 8)
  BY <1>2, BadRnIsBit
<1>4. Meaning(s, Offset) = <<s.name, s.rd, s.rn, "register", s.rm>>
  BY <1>1 DEF Meaning
<1>5. Write(word, errors, 0)
  BY DEF VisitArith
<1>6. PICK g \in Nat : /\ g < 32 /\ ArithOpcode[s.name] = 2048 * g
                       /\ \A w : w \div 2048 = g => Decode(w) = Three(s.name, "register", w)
  BY <1>2, ArithGroup
<1>7. word = ArithOpcode[s.name] + Rd(s.rd) + or
  OBVIOUS
<1> HIDE DEF word, errors, s
<1>8. or \in Nat /\ (s.rn < 8 => or = 128 * s.rm + 16 * s.rn)
  BY <1>2, OrRnIsSum
<1> HIDE DEF or
<1>9. word \in Nat /\ (s.rn < 8 => word = Fields(g, s.rm, s.rn, s.rd))
  BY <1>2, <1>6, <1>7, <1>8 DEF Rd, Fields
<1>10. ASSUME errors = 0
       PROVE  word < 65536 /\ Decode(word) = <<s.name, s.rd, s.rn, "register", s.rm>>
  <2>1. s.rn < 8 /\ word = Fields(g, s.rm, s.rn, s.rd)
    BY <1>3, <1>9, <1>10
  <2>2. /\ word \in Word /\ word \div 2048 = g
        /\ FieldM(word) = s.rm /\ FieldN(word) = s.rn /\ FieldD(word) = s.rd
    BY <1>2, <1>6, <2>1, FieldsOfWord
  <2>3. Decode(word) = Three(s.name, "register", word)
    BY <1>6, <2>2
  <2> QED BY <2>2, <2>3 DEF Three, Word
<1> QED BY <1>1, <1>3, <1>4, <1>5, <1>9, <1>10, WritePreserves DEF s

LEMMA LogicStep ==
  ASSUME TypeOK, CodesDecode, VisitLogic
  PROVE  TypeOK' /\ CodesDecode'
<1> DEFINE s == This
           word == LogicOpcode[s.name] + Rm(s.rm) + Rn(s.rn) + Rd(s.rd)
           errors == BadRn(s.rn)
<1>1. pc \in DOMAIN ast /\ s \in Instructions /\ s.op = "logic"
  BY VisitingStatement DEF VisitLogic
<1>2. /\ s.rd \in Nat /\ s.rd < 16
      /\ s.rn \in Nat /\ s.rn < 16
      /\ s.rm \in Nat /\ s.rm < 16
      /\ s.name \in {"and", "orr", "eor"}
  BY <1>1, ThreeRegisters
<1>3. errors \in Nat /\ (errors = 0 => s.rn < 8)
  BY <1>2, BadRnIsBit
<1>4. Meaning(s, Offset) = <<s.name, s.rd, s.rn, "register", s.rm>>
  BY <1>1 DEF Meaning
<1>5. Write(word, errors, 0)
  BY DEF VisitLogic
<1>6. PICK g \in Nat : /\ g < 32 /\ LogicOpcode[s.name] = 2048 * g
                       /\ \A w : w \div 2048 = g => Decode(w) = Three(s.name, "register", w)
  BY <1>2, LogicGroup
<1>7. word \in Nat /\ word = Fields(g, s.rm, s.rn, s.rd)
  <2>1. word = LogicOpcode[s.name] + Rm(s.rm) + Rn(s.rn) + Rd(s.rd)
    OBVIOUS
  <2> HIDE DEF word, s
  <2> QED BY <1>2, <1>6, <2>1 DEF Rm, Rn, Rd, Fields
<1> HIDE DEF word, errors, s
<1>8. ASSUME errors = 0
      PROVE  word < 65536 /\ Decode(word) = <<s.name, s.rd, s.rn, "register", s.rm>>
  <2>1. s.rn < 8
    BY <1>3, <1>8
  <2>2. /\ word \in Word /\ word \div 2048 = g
        /\ FieldM(word) = s.rm /\ FieldN(word) = s.rn /\ FieldD(word) = s.rd
    BY <1>2, <1>6, <1>7, <2>1, FieldsOfWord
  <2>3. Decode(word) = Three(s.name, "register", word)
    BY <1>6, <2>2
  <2> QED BY <2>2, <2>3 DEF Three, Word
<1> QED BY <1>1, <1>3, <1>4, <1>5, <1>7, <1>8, WritePreserves DEF s

LEMMA ArithConstStep ==
  ASSUME TypeOK, CodesDecode, VisitArithConst
  PROVE  TypeOK' /\ CodesDecode'
<1> DEFINE s == This
           e == s.constant
           c == Given(e, e.value, 16)
           or == OrRn(s.rn, Rm(c))
           word == ArithConstOpcode[s.name] + Rd(s.rd) + or
           unnamed == Count(s.name \in {"adc", "sbc"})
           label == Count(Label(e))
           wide == Count(Number(e) /\ Wide(e.value, 16))
           errors == BadRn(s.rn) + unnamed + EvalErrors(e) + label
           warnings == EvalWarnings(e) + wide
<1>1. pc \in DOMAIN ast /\ s \in Instructions /\ s.op = "arith_const"
  BY VisitingStatement DEF VisitArithConst
<1>2. /\ s.rd \in Nat /\ s.rd < 16
      /\ s.rn \in Nat /\ s.rn < 16
      /\ e \in Operand
      /\ s.name \in {"add", "sub", "adc", "sbc"}
  BY <1>1, TwoRegistersAndConstant
<1>3. c \in Nat /\ c < 16 /\ (IF Number(e) THEN Rm(e.value % 16) ELSE 0) = Rm(c)
  BY <1>2, OperandValue, GivenToFour
<1>4. Write(word, errors, warnings)
  BY <1>3 DEF VisitArithConst
<1>5. Meaning(s, Offset) = <<s.name, s.rd, s.rn, "constant", c>>
  BY <1>1 DEF Meaning
<1>6. unnamed \in {0, 1} /\ (unnamed = 0 => s.name \in {"add", "sub"})
  BY <1>2 DEF Count
<1>7. label \in {0, 1} /\ wide \in {0, 1} /\ warnings \in Nat
  BY CountIsBit, ReportCounts
<1>8. word = ArithConstOpcode[s.name] + Rd(s.rd) + or /\ ArithConstOpcode[s.name] \in Nat
  BY <1>2 DEF ArithConstOpcode
<1>9. errors = BadRn(s.rn) + unnamed + EvalErrors(e) + label
  OBVIOUS
<1> HIDE DEF s, e, c, word, unnamed, label, errors, warnings
<1>10. errors \in Nat /\ (errors = 0 => s.rn < 8 /\ s.name \in {"add", "sub"})
  <2>1. BadRn(s.rn) \in {0, 1} /\ (BadRn(s.rn) = 0 => s.rn < 8)
    BY <1>2, BadRnIsBit
  <2>2. EvalErrors(e) \in {0, 1}
    BY ReportCounts
  <2> QED BY <1>6, <1>7, <1>9, <2>1, <2>2
<1>11. or \in Nat /\ (s.rn < 8 => or = 128 * c + 16 * s.rn)
  BY <1>2, <1>3, OrRnIsSum
<1> HIDE DEF or
<1>12. word \in Nat
  BY <1>2, <1>8, <1>11 DEF Rd
<1>13. ASSUME errors = 0
       PROVE  word < 65536 /\ Decode(word) = <<s.name, s.rd, s.rn, "constant", c>>
  <2>1. PICK g \in Nat : /\ g < 32 /\ ArithConstOpcode[s.name] = 2048 * g
                         /\ \A w : w \div 2048 = g => Decode(w) = Three(s.name, "constant", w)
    BY <1>10, <1>13, ArithConstGroup
  <2>2. s.rn < 8 /\ word = Fields(g, c, s.rn, s.rd)
    BY <1>2, <1>3, <1>8, <1>10, <1>11, <1>13, <2>1 DEF Rd, Fields
  <2>3. /\ word \in Word /\ word \div 2048 = g
        /\ FieldM(word) = c /\ FieldN(word) = s.rn /\ FieldD(word) = s.rd
    BY <1>2, <1>3, <2>1, <2>2, FieldsOfWord
  <2>4. Decode(word) = Three(s.name, "constant", word)
    BY <2>1, <2>3
  <2> QED BY <2>3, <2>4 DEF Three, Word
<1>14. errors \in Nat /\ warnings \in Nat
  BY <1>7, <1>10
<1> QED BY <1>1, <1>4, <1>5, <1>12, <1>13, <1>14, WritePreserves DEF s

LEMMA LoadStoreConstStep ==
  ASSUME TypeOK, CodesDecode, VisitLoadStoreConst
  PROVE  TypeOK' /\ CodesDecode'
<1> DEFINE s == This
           e == s.constant
           c == Given(e, Index(s), 8)
           or == OrRn(s.rn, Rm(c))
           word == LoadStoreOpcode[s.name] + Rd(s.rd) + or
           label == Count(Label(e))
           wide == Count(Number(e) /\ Wide(Index(s), 8))
           odd == Count(Number(e) /\ ~IsByte(s.name) /\ e.value % 2 # 0)
           errors == BadRn(s.rn) + EvalErrors(e) + label
           warnings == EvalWarnings(e) + wide + odd
<1>1. pc \in DOMAIN ast /\ s \in Instructions /\ s.op = "ldr_str_const"
  BY VisitingStatement DEF VisitLoadStoreConst
<1>2. /\ s.rd \in Nat /\ s.rd < 16
      /\ s.rn \in Nat /\ s.rn < 16
      /\ e \in Operand
      /\ s.name \in {"ldr", "ldrb", "str", "strb"}
  BY <1>1, TwoRegistersAndConstant
<1>3. Index(s) \in Nat
  BY <1>2, OperandValue DEF Index
<1>4. c \in Nat /\ c < 8 /\ (IF Number(e) THEN Rm(Index(s) % 8) ELSE 0) = Rm(c)
  BY <1>3, GivenToThree
<1>5. Write(word, errors, warnings)
  BY <1>4 DEF VisitLoadStoreConst
<1>6. Meaning(s, Offset) = <<s.name, s.rd, s.rn, "constant", c>>
  BY <1>1 DEF Meaning
<1>7. label \in {0, 1} /\ wide \in {0, 1} /\ odd \in {0, 1} /\ warnings \in Nat
  BY CountIsBit, ReportCounts
<1>8. word = LoadStoreOpcode[s.name] + Rd(s.rd) + or /\ errors = BadRn(s.rn) + EvalErrors(e) + label
  OBVIOUS
<1> HIDE DEF s, e, c, word, label, errors, warnings
<1>9. errors \in Nat /\ (errors = 0 => s.rn < 8)
  <2>1. BadRn(s.rn) \in {0, 1} /\ (BadRn(s.rn) = 0 => s.rn < 8)
    BY <1>2, BadRnIsBit
  <2>2. EvalErrors(e) \in {0, 1}
    BY ReportCounts
  <2> QED BY <1>7, <1>8, <2>1, <2>2
<1>10. or \in Nat /\ (s.rn < 8 => or = 128 * c + 16 * s.rn)
  <2>1. c < 16
    BY <1>4
  <2> QED BY <1>2, <1>4, <2>1, OrRnIsSum
<1> HIDE DEF or
<1>11. PICK g \in Nat : /\ g < 32 /\ LoadStoreOpcode[s.name] = 2048 * g
                        /\ \A w : w \div 2048 = g /\ Bit10(w) = 0 =>
                             Decode(w) = Three(s.name, "constant", w)
  BY <1>2, LoadStoreConstGroup
<1>12. word \in Nat /\ (s.rn < 8 => word = Fields(g, c, s.rn, s.rd))
  BY <1>2, <1>4, <1>8, <1>10, <1>11 DEF Rd, Fields
<1>13. ASSUME errors = 0
       PROVE  word < 65536 /\ Decode(word) = <<s.name, s.rd, s.rn, "constant", c>>
  <2>1. s.rn < 8 /\ word = Fields(g, c, s.rn, s.rd) /\ c < 16
    BY <1>4, <1>9, <1>12, <1>13
  <2>2. /\ word \in Word /\ word \div 2048 = g /\ Bit10(word) = 0
        /\ FieldM(word) = c /\ FieldN(word) = s.rn /\ FieldD(word) = s.rd
    BY <1>2, <1>4, <1>11, <2>1, FieldsOfWord
  <2>3. Decode(word) = Three(s.name, "constant", word)
    BY <1>11, <2>2
  <2> QED BY <2>2, <2>3 DEF Three, Word
<1>14. word \in Nat /\ errors \in Nat /\ warnings \in Nat
  BY <1>7, <1>9, <1>12
<1> QED BY <1>1, <1>5, <1>6, <1>13, <1>14, WritePreserves DEF s

LEMMA ShiftStep ==
  ASSUME TypeOK, CodesDecode, VisitShift
  PROVE  TypeOK' /\ CodesDecode'
<1> DEFINE s == This
           e == s.constant
           c == e.value % 16
           word == ShiftOpcode[s.name] + Rm(c) + Rn(s.rn) + Rd(s.rd)
           label == Count(Label(e))
           wide == Count(Wide(e.value, 16))
           errors == BadRn(s.rn) + EvalErrors(e) + label
<1>1. pc \in DOMAIN ast /\ s \in Instructions /\ s.op = "shift"
  BY VisitingStatement DEF VisitShift
<1>2. /\ s.rd \in Nat /\ s.rd < 16
      /\ s.rn \in Nat /\ s.rn < 16
      /\ e \in Operand
      /\ s.name \in {"lsl", "lsr", "asr", "ror"}
  BY <1>1, TwoRegistersAndConstant
<1>3. c \in Nat /\ c < 16
  BY <1>2, OperandValue
<1>4. \/ Number(e) /\ Write(word, errors, wide)
      \/ ~Number(e) /\ Write(code[pc], errors, EvalWarnings(e))
  BY DEF VisitShift
<1>5. Number(e) => Meaning(s, Offset) = <<s.name, s.rd, s.rn, "constant", c>>
  BY <1>1 DEF Meaning, Given
<1>6. label \in {0, 1} /\ wide \in {0, 1}
  BY CountIsBit
<1>7. word = ShiftOpcode[s.name] + Rm(c) + Rn(s.rn) + Rd(s.rd)
      /\ errors = BadRn(s.rn) + EvalErrors(e) + label
  OBVIOUS
<1>8. Number(This.constant) <=> Number(e)
  OBVIOUS
<1> HIDE DEF s, e, c, word, label, wide, errors
<1>9. errors \in Nat /\ EvalWarnings(e) \in Nat /\ (errors = 0 => s.rn < 8)
  <2>1. BadRn(s.rn) \in {0, 1} /\ (BadRn(s.rn) = 0 => s.rn < 8)
    BY <1>2, BadRnIsBit
  <2>2. EvalErrors(e) \in {0, 1} /\ EvalWarnings(e) \in {0, 1}
    BY ReportCounts
  <2> QED BY <1>6, <1>7, <2>1, <2>2
<1>10. PICK g \in Nat : /\ g < 32 /\ ShiftOpcode[s.name] = 2048 * g
                        /\ \A w : w \div 2048 = g => Decode(w) = Three(s.name, "constant", w)
  BY <1>2, ShiftGroup
<1>11. word \in Nat /\ word = Fields(g, c, s.rn, s.rd)
  BY <1>2, <1>3, <1>7, <1>10 DEF Rd, Rn, Rm, Fields
<1>12. CASE Number(e) /\ Write(word, errors, wide)
  <2>1. ASSUME errors = 0
        PROVE  word < 65536 /\ Decode(word) = <<s.name, s.rd, s.rn, "constant", c>>
    <3>1. s.rn < 8
      BY <1>9, <2>1
    <3>2. /\ word \in Word /\ word \div 2048 = g
          /\ FieldM(word) = c /\ FieldN(word) = s.rn /\ FieldD(word) = s.rd
      BY <1>2, <1>3, <1>10, <1>11, <3>1, FieldsOfWord
    <3>3. Decode(word) = Three(s.name, "constant", word)
      BY <1>10, <3>2
    <3> QED BY <3>2, <3>3 DEF Three, Word
  <2>2. wide \in Nat
    BY <1>6
  <2> QED BY <1>1, <1>5, <1>9, <1>11, <1>12, <2>1, <2>2, WritePreserves DEF s
<1>13. CASE ~Number(e) /\ Write(code[pc], errors, EvalWarnings(e))
  <2>1. code[pc] \in Nat
    BY <1>1 DEF TypeOK, Word
  <2>2. This.op = "shift" /\ ~Number(This.constant)
    BY <1>1, <1>8, <1>13 DEF s
  <2> QED BY <1>1, <1>9, <1>13, <2>1, <2>2, WritePreserves
<1> QED BY <1>4, <1>12, <1>13

LEMMA MovConstStep ==
  ASSUME TypeOK, CodesDecode, VisitMovConst
  PROVE  TypeOK' /\ CodesDecode'
<1> DEFINE s == This
           e == s.constant
           c == Given(e, e.value, 256)
           word == MovConstOpcode[s.name] + c * 16 + Rd(s.rd)
           errors == EvalErrors(e)
           wide == Count(Number(e) /\ Wide(e.value, 256))
           warnings == EvalWarnings(e) + wide
           new == IF Label(e) THEN <<Reloc(MovField)>> ELSE <<>>
<1>1. pc \in DOMAIN ast /\ s \in Instructions /\ s.op = "mov_const"
  BY VisitingStatement DEF VisitMovConst
<1>2. s.rd \in Nat /\ s.rd < 16 /\ e \in Operand /\ s.name \in {"mov", "movt"}
  BY <1>1, OperandRecords
<1>3. c \in Nat /\ c < 256 /\ (IF Number(e) THEN (e.value % 256) * 16 ELSE 0) = c * 16
  <2>1. e.value \in Nat
    BY <1>2, OperandValue
  <2> HIDE DEF e
  <2> QED BY <2>1 DEF Given
<1>4. Visited(word, errors, warnings, new)
  BY <1>3 DEF VisitMovConst
<1>5. Meaning(s, Offset) = <<s.name, s.rd, "constant", c>>
  BY <1>1 DEF Meaning
<1>6. new \in Seq(Relocation)
  <2>1. Reloc(MovField) \in Relocation
    BY <1>1 DEF Reloc, Relocation
  <2> QED BY <2>1
<1>7. errors \in Nat /\ warnings \in Nat
  BY CountIsBit, ReportCounts
<1>8. word = MovConstOpcode[s.name] + c * 16 + Rd(s.rd)
  OBVIOUS
<1> HIDE DEF s, e, c, word, errors, warnings, new
<1>9. PICK k \in Nat : /\ k < 16 /\ MovConstOpcode[s.name] = 4096 * k
                       /\ \A w : w \div 2048 \in {2 * k, 2 * k + 1} =>
                            Decode(w) = <<s.name, FieldD(w), "constant", Constant8(w)>>
  BY <1>2, MovConstGroup
<1>10. word = Byte(k, c, s.rd)
  BY <1>2, <1>3, <1>8, <1>9 DEF Rd, Byte
<1>11. /\ word \in Word /\ word \div 2048 \in {2 * k, 2 * k + 1}
       /\ FieldD(word) = s.rd /\ Constant8(word) = c
  BY <1>2, <1>3, <1>9, <1>10, ByteOfWord
<1>12. Decode(word) = <<s.name, s.rd, "constant", c>>
  BY <1>9, <1>11
<1>13. Sound(word, errors)
  BY <1>5, <1>11, <1>12 DEF Sound, s
<1> QED BY <1>1, <1>4, <1>6, <1>7, <1>13, VisitedPreserves

LEMMA LoadRelativeStep ==
  ASSUME TypeOK, CodesDecode, VisitLoadRelative
  PROVE  TypeOK' /\ CodesDecode'
<1> DEFINE s == This
           e == s.target
           word == LdrRelativeOpcode + Rd(s.rd)
           stores == Count(s.name \in {"str", "strb"})
           byte == Count(s.name = "ldrb")
           number == Count(Number(e))
           far == Count(Label(e) /\ ~e.near)
           errors == stores + byte + EvalErrors(e) + number + far
           warnings == EvalWarnings(e)
           new == IF Label(e) /\ e.near THEN <<Reloc(LdrField)>> ELSE <<>>
<1>1. pc \in DOMAIN ast /\ s \in Instructions /\ s.op = "ldr_relative"
  BY VisitingStatement DEF VisitLoadRelative
<1>2. s.rd \in Nat /\ s.rd < 16 /\ e \in Operand
  BY <1>1, OperandRecords
<1>3. Visited(word, errors, warnings, new)
  BY DEF VisitLoadRelative
<1>4. Meaning(s, Offset) = <<"ldr_label", s.rd, 0>>
  BY <1>1 DEF Meaning
<1>5. new \in Seq(Relocation)
  <2>1. Reloc(LdrField) \in Relocation
    BY <1>1 DEF Reloc, Relocation
  <2> QED BY <2>1
<1>6. errors \in Nat /\ warnings \in Nat
  <2>1. stores \in {0, 1} /\ byte \in {0, 1} /\ number \in {0, 1} /\ far \in {0, 1}
    BY CountIsBit
  <2>2. EvalErrors(e) \in {0, 1} /\ EvalWarnings(e) \in {0, 1}
    BY ReportCounts
  <2> HIDE DEF stores, byte, number, far, e
  <2> QED BY <2>1, <2>2
<1>7. word = Fields(1, 8, 0, s.rd) /\ word = 3072 + s.rd
  BY <1>2 DEF LdrRelativeOpcode, Rd, Fields
<1> HIDE DEF s, e, word, errors, warnings, new
<1>8. /\ word \in Word /\ word \div 2048 = 1 /\ Bit10(word) = 1
      /\ FieldD(word) = s.rd
  BY <1>2, <1>7, FieldsOfWord
<1>9. Constant6(word) = 0
  <2>1. word \div 16 = 192
    BY <1>2, <1>7
  <2> QED BY <2>1 DEF Constant6
<1>10. Decode(word) = <<"ldr_label", s.rd, 0>>
  BY <1>8, <1>9, ReadIndexOrStack DEF DecodeMemory
<1>11. Sound(word, errors)
  BY <1>4, <1>8, <1>10 DEF Sound, s
<1> QED BY <1>1, <1>3, <1>5, <1>6, <1>11, VisitedPreserves

LEMMA BranchStep ==
  ASSUME TypeOK, CodesDecode, VisitBranch
  PROVE  TypeOK' /\ CodesDecode'
<1> DEFINE s == This
           e == s.target
           near == Label(e) /\ e.near
           distance == Distance(e, Offset)
           offset == CASE Number(e) -> e.value \div 2
                       [] near      -> distance \div 2
                       [] OTHER     -> 0
           o == offset % 1024
           word == BranchOpcode[s.name] + o
           far == Count(Label(e) /\ ~e.near)
           outside == Count(near /\ BeyondReach(distance))
           odd == Count(\/ Number(e) /\ e.value % 2 # 0
                        \/ near /\ distance % 2 # 0)
           errors == EvalErrors(e) + far + outside
           warnings == EvalWarnings(e) + odd
<1>1. pc \in DOMAIN ast /\ s \in Instructions /\ s.op = "branch"
  BY VisitingStatement DEF VisitBranch
<1>2. /\ e \in Operand
      /\ s.name \in {"eq", "ne", "cs", "hs", "cc", "lo", "ge", "lt", "b", "bl"}
  BY <1>1, OperandRecords
<1>3. Offset \in Int
  BY DEF TypeOK, Offset
<1>4. e.value \in Nat
  BY <1>2, OperandValue
<1>5. Write(word, errors, warnings)
  BY DEF VisitBranch
<1>6. Number(e) \/ near => offset \in Int
  <2> HIDE DEF e
  <2> QED BY <1>3, <1>4 DEF Distance, Number, Label
<1>7. o \in Nat /\ o < 1024
  <2>1. offset \in Int
    BY <1>6
  <2> HIDE DEF offset
  <2> QED BY <2>1
<1>8. Meaning(s, Offset) = <<Canonical(s.name), o>>
  <2>1. Meaning(s, Offset) =
          <<Canonical(s.name),
            IF near THEN (distance \div 2) % 1024 ELSE Given(e, e.value \div 2, 1024)>>
    BY <1>1 DEF Meaning
  <2>2. (IF near THEN (distance \div 2) % 1024 ELSE Given(e, e.value \div 2, 1024)) = o
    <3> HIDE DEF e
    <3> QED BY DEF Given, Number, Label
  <2> HIDE DEF o
  <2> QED BY <2>1, <2>2
<1>9. errors \in Nat /\ warnings \in Nat
  <2>1. far \in {0, 1} /\ outside \in {0, 1} /\ odd \in {0, 1}
    BY CountIsBit
  <2>2. EvalErrors(e) \in {0, 1} /\ EvalWarnings(e) \in {0, 1}
    BY ReportCounts
  <2> HIDE DEF far, outside, odd, e
  <2> QED BY <2>1, <2>2
<1> HIDE DEF s, e, offset, o, errors, warnings
<1>10. PICK k \in 16 .. 23 : /\ BranchOpcode[s.name] = 1024 * k
                             /\ Condition[k - 15] = Canonical(s.name)
  BY <1>2, BranchGroup
<1>11. word = Jump(k, o) /\ k < 64
  BY <1>7, <1>10 DEF Jump
<1> HIDE DEF word
<1>12. /\ word \in Word /\ word \div 1024 = k /\ word \div 2048 = k \div 2
       /\ Offset10(word) = o
  BY <1>7, <1>10, <1>11, OffsetOfWord
<1>13. word \div 2048 \in 8 .. 11
  BY <1>10, <1>12
<1>14. Decode(word) = <<Condition[(word \div 1024) - 15], Offset10(word)>>
  BY <1>13, ReadBranch
<1>15. word \in Nat /\ word < 65536
  BY <1>12 DEF Word
<1>16. Decode(word) = <<Canonical(s.name), o>>
  BY <1>10, <1>12, <1>14
<1> QED BY <1>1, <1>5, <1>8, <1>9, <1>15, <1>16, WritePreserves DEF s

-----------------------------------------------------------------------------
\* What the counts of a visit say of the operand: the wide, the odd and the far
\* are reported, and so is every operand that is not what the field holds.

Fits(s, offset) ==
  /\ s.op \in {"shift", "arith_const"} /\ ~Silent(s.constant) =>
       Number(s.constant) /\ s.constant.value < 16
  /\ s.op = "ldr_str_const" /\ ~Silent(s.constant) =>
       /\ Number(s.constant) /\ Index(s) < 8
       /\ IsByte(s.name) \/ s.constant.value % 2 = 0
  /\ s.op = "mov_const" /\ Number(s.constant) => s.constant.value < 256
  /\ s.op = "branch" /\ Label(s.target) =>
       LET distance == Distance(s.target, offset)
       IN  s.target.near /\ ~BeyondReach(distance) /\ distance % 2 = 0
  /\ s.op = "branch" /\ Number(s.target) => s.target.value % 2 = 0

SilenceMeansFit == \A j \in 1 .. pc - 1 : NoReports(j) => Fits(ast[j], OffsetOf(j))

LEMMA VisitedFits ==
  ASSUME TypeOK, SilenceMeansFit, pc \in DOMAIN ast,
         NEW word, NEW errors \in Nat, NEW warnings \in Nat, NEW new,
         Visited(word, errors, warnings, new),
         errors = 0 /\ warnings = 0 => Fits(This, Offset)
  PROVE  SilenceMeansFit'
<1>1. /\ ast' = ast /\ start' = start /\ pc' = pc + 1
      /\ pc \in 1 .. Len(ast) /\ Len(ast) \in Nat /\ DOMAIN ast = 1 .. Len(ast)
  <2>1. ast \in Seq(Instructions) /\ ast' = ast /\ start' = start /\ pc' = pc + 1
    BY DEF TypeOK, Visited
  <2>2. Len(ast) \in Nat /\ DOMAIN ast = 1 .. Len(ast)
    BY <2>1
  <2> QED BY <2>1, <2>2
<1>2. Count(Offset % 2 # 0) \in {0, 1}
  BY CountIsBit
<1>3. reports \in [DOMAIN ast -> [errors : Nat, warnings : Nat]]
  BY DEF TypeOK
<1>4. /\ reports'[pc].errors = errors
      /\ reports'[pc].warnings = warnings + Count(Offset % 2 # 0)
      /\ \A j \in DOMAIN ast : j # pc => reports'[j] = reports[j]
  BY <1>1, <1>3 DEF Visited
<1> SUFFICES ASSUME NEW j \in 1 .. pc' - 1, NoReports(j)'
             PROVE  Fits(ast'[j], OffsetOf(j)')
  BY DEF SilenceMeansFit
<1>5. CASE j = pc
  <2>1. errors = 0 /\ warnings + Count(Offset % 2 # 0) = 0
    BY <1>4, <1>5 DEF NoReports, NoErrors
  <2>2. errors = 0 /\ warnings = 0
    BY <1>2, <2>1
  <2>3. ast'[j] = This /\ OffsetOf(j)' = Offset
    BY <1>1, <1>5 DEF This, OffsetOf, Offset
  <2> QED BY <2>2, <2>3
<1>6. CASE j # pc
  <2>1. j \in 1 .. pc - 1 /\ j \in DOMAIN ast
    BY <1>1, <1>6
  <2>2. NoReports(j) /\ OffsetOf(j)' = OffsetOf(j)
    BY <1>1, <1>4, <1>6, <2>1 DEF NoReports, NoErrors, OffsetOf
  <2> QED BY <1>1, <2>1, <2>2 DEF SilenceMeansFit
<1> QED BY <1>5, <1>6

\* Most instructions leave no operand to fit.
LEMMA WriteFits ==
  ASSUME TypeOK, SilenceMeansFit, NEW op, Visiting(op),
         op \notin {"shift", "arith_const", "ldr_str_const", "mov_const", "branch"},
         NEW word, NEW errors \in Nat, NEW warnings \in Nat,
         Write(word, errors, warnings)
  PROVE  SilenceMeansFit'
<1>1. pc \in DOMAIN ast /\ This.op = op
  BY VisitingStatement
<1>2. Fits(This, Offset)
  BY <1>1 DEF Fits
<1>3. Visited(Cast(word), errors, warnings, <<>>)
  BY DEF Write
<1> DEFINE cast == Cast(word)
           new == <<>>
<1>4. Visited(cast, errors, warnings, new)
  BY <1>3
<1> HIDE DEF cast, new
<1> QED BY <1>1, <1>2, <1>4, VisitedFits

LEMMA ThreeRegistersFit ==
  ASSUME TypeOK, SilenceMeansFit,
         VisitLoadStore \/ VisitArith \/ VisitLogic \/ VisitRrx \/ VisitCompare
  PROVE  SilenceMeansFit'
<1>1. BadRn(This.rn) \in Nat
  BY DEF BadRn, Count
<1>2. CASE VisitLoadStore
  <2>1. Visiting("ldr_str")
        /\ Write(LoadStoreOpcode[This.name] + RegisterIndex + Rd(This.rd)
                   + OrRn(This.rn, Rm(This.rm)), BadRn(This.rn), 0)
    BY <1>2 DEF VisitLoadStore
  <2> QED BY <1>1, <2>1, WriteFits
<1>3. CASE VisitArith
  <2>1. Visiting("arith")
        /\ Write(ArithOpcode[This.name] + Rd(This.rd) + OrRn(This.rn, Rm(This.rm)),
                 BadRn(This.rn), 0)
    BY <1>3 DEF VisitArith
  <2> QED BY <1>1, <2>1, WriteFits
<1>4. CASE VisitLogic
  <2>1. Visiting("logic")
        /\ Write(LogicOpcode[This.name] + Rm(This.rm) + Rn(This.rn) + Rd(This.rd),
                 BadRn(This.rn), 0)
    BY <1>4 DEF VisitLogic
  <2> QED BY <1>1, <2>1, WriteFits
<1>5. CASE VisitRrx
  BY <1>1, <1>5, WriteFits DEF VisitRrx
<1>6. CASE VisitCompare
  BY <1>1, <1>6, WriteFits DEF VisitCompare
<1> QED BY <1>2, <1>3, <1>4, <1>5, <1>6

LEMMA TwoRegistersFit ==
  ASSUME TypeOK, SilenceMeansFit,
         VisitNot \/ VisitMov \/ VisitMovs \/ VisitMsr \/ VisitMrs \/ VisitPushPop
  PROVE  SilenceMeansFit'
<1>1. CASE VisitNot
  BY <1>1, WriteFits DEF VisitNot
<1>2. CASE VisitMov
  BY <1>2, WriteFits DEF VisitMov
<1>3. CASE VisitMovs
  <2>1. Count(This.rd # 15) + Count(This.rn # 14) \in Nat
    BY CountIsBit
  <2> QED BY <1>3, <2>1, WriteFits DEF VisitMovs
<1>4. CASE VisitMsr
  BY <1>4, WriteFits DEF VisitMsr
<1>5. CASE VisitMrs
  BY <1>5, WriteFits DEF VisitMrs
<1>6. CASE VisitPushPop
  BY <1>6, WriteFits DEF VisitPushPop
<1> QED BY <1>1, <1>2, <1>3, <1>4, <1>5, <1>6

\* An operand that raised no report in its evaluation and is no label is a
\* number, or failed in silence.
LEMMA OperandTypes ==
  ASSUME NEW e \in Operand
  PROVE  /\ e.value \in Nat
         /\ EvalErrors(e) \in {0, 1} /\ EvalWarnings(e) \in {0, 1}
         /\ EvalErrors(e) = 0 /\ EvalWarnings(e) = 0 /\ ~Label(e) /\ ~Silent(e) => Number(e)
BY DEF Operand, Word, EvalErrors, EvalWarnings, Label, Silent, Number, Count

LEMMA ShiftFits ==
  ASSUME TypeOK, SilenceMeansFit, VisitShift
  PROVE  SilenceMeansFit'
<1> DEFINE s == This
           e == s.constant
           word == ShiftOpcode[s.name] + Rm(e.value % 16) + Rn(s.rn) + Rd(s.rd)
           label == Count(Label(e))
           wide == Count(Wide(e.value, 16))
           bad == BadRn(s.rn)
           errors == bad + EvalErrors(e) + label
           new == <<>>
<1>1. pc \in DOMAIN ast /\ s \in Instructions /\ s.op = "shift"
  BY VisitingStatement DEF VisitShift
<1>2. e \in Operand
  BY <1>1, TwoRegistersAndConstant
<1>3. \/ Number(e) /\ Visited(Cast(word), errors, wide, new)
      \/ ~Number(e) /\ Visited(Cast(code[pc]), errors, EvalWarnings(e), new)
  BY DEF VisitShift, Write
<1>4. /\ bad \in {0, 1} /\ label \in {0, 1} /\ wide \in {0, 1}
      /\ label = 0 => ~Label(e)
      /\ wide = 0 => ~Wide(e.value, 16)
  BY CountIsBit DEF BadRn
<1>5. Fits(s, Offset) <=> (~Silent(e) => Number(e) /\ e.value < 16)
  BY <1>1 DEF Fits
<1> HIDE DEF s, e, word, label, wide, bad, new
<1>6. /\ e.value \in Nat
      /\ EvalErrors(e) \in {0, 1} /\ EvalWarnings(e) \in {0, 1}
      /\ EvalErrors(e) = 0 /\ EvalWarnings(e) = 0 /\ ~Label(e) /\ ~Silent(e) => Number(e)
  BY <1>2, OperandTypes
<1>7. errors \in Nat /\ wide \in Nat /\ EvalWarnings(e) \in Nat
      /\ (errors = 0 => EvalErrors(e) = 0 /\ label = 0)
  BY <1>4, <1>6
<1>8. CASE Number(e) /\ Visited(Cast(word), errors, wide, new)
  <2>1. wide = 0 => Fits(This, Offset)
    BY <1>4, <1>5, <1>6, <1>8 DEF Wide, s
  <2> HIDE DEF errors
  <2> QED BY <1>1, <1>7, <1>8, <2>1, VisitedFits
<1>9. CASE ~Number(e) /\ Visited(Cast(code[pc]), errors, EvalWarnings(e), new)
  <2>1. errors = 0 /\ EvalWarnings(e) = 0 => Fits(This, Offset)
    BY <1>4, <1>5, <1>6, <1>7, <1>9 DEF s
  <2> HIDE DEF errors
  <2> QED BY <1>1, <1>7, <1>9, <2>1, VisitedFits
<1> QED BY <1>3, <1>8, <1>9

LEMMA ArithConstFits ==
  ASSUME TypeOK, SilenceMeansFit, VisitArithConst
  PROVE  SilenceMeansFit'
<1> DEFINE s == This
           e == s.constant
           word == ArithConstOpcode[s.name] + Rd(s.rd)
                     + OrRn(s.rn, IF Number(e) THEN Rm(e.value % 16) ELSE 0)
           bad == BadRn(s.rn)
           unnamed == Count(s.name \in {"adc", "sbc"})
           label == Count(Label(e))
           wide == Count(Number(e) /\ Wide(e.value, 16))
           errors == bad + unnamed + EvalErrors(e) + label
           warnings == EvalWarnings(e) + wide
           new == <<>>
<1>1. pc \in DOMAIN ast /\ s \in Instructions /\ s.op = "arith_const"
  BY VisitingStatement DEF VisitArithConst
<1>2. e \in Operand
  BY <1>1, TwoRegistersAndConstant
<1>3. Visited(Cast(word), errors, warnings, new)
  BY DEF VisitArithConst, Write
<1>4. /\ bad \in {0, 1} /\ unnamed \in {0, 1} /\ label \in {0, 1} /\ wide \in {0, 1}
      /\ label = 0 => ~Label(e)
      /\ wide = 0 => ~(Number(e) /\ Wide(e.value, 16))
  BY CountIsBit DEF BadRn
<1>5. Fits(s, Offset) <=> (~Silent(e) => Number(e) /\ e.value < 16)
  BY <1>1 DEF Fits
<1> HIDE DEF s, e, word, bad, unnamed, label, wide, new
<1>6. /\ e.value \in Nat
      /\ EvalErrors(e) \in {0, 1} /\ EvalWarnings(e) \in {0, 1}
      /\ EvalErrors(e) = 0 /\ EvalWarnings(e) = 0 /\ ~Label(e) /\ ~Silent(e) => Number(e)
  BY <1>2, OperandTypes
<1>7. /\ errors \in Nat /\ warnings \in Nat
      /\ errors = 0 => EvalErrors(e) = 0 /\ label = 0
      /\ warnings = 0 => EvalWarnings(e) = 0 /\ wide = 0
  BY <1>4, <1>6
<1> HIDE DEF errors, warnings
<1>8. errors = 0 /\ warnings = 0 => Fits(This, Offset)
  BY <1>4, <1>5, <1>6, <1>7 DEF Wide, s
<1> QED BY <1>1, <1>3, <1>7, <1>8, VisitedFits

LEMMA LoadStoreConstFits ==
  ASSUME TypeOK, SilenceMeansFit, VisitLoadStoreConst
  PROVE  SilenceMeansFit'
<1> DEFINE s == This
           e == s.constant
           word == LoadStoreOpcode[s.name] + Rd(s.rd)
                     + OrRn(s.rn, IF Number(e) THEN Rm(Index(s) % 8) ELSE 0)
           bad == BadRn(s.rn)
           label == Count(Label(e))
           wide == Count(Number(e) /\ Wide(Index(s), 8))
           odd == Count(Number(e) /\ ~IsByte(s.name) /\ e.value % 2 # 0)
           errors == bad + EvalErrors(e) + label
           warnings == EvalWarnings(e) + wide + odd
           new == <<>>
<1>1. pc \in DOMAIN ast /\ s \in Instructions /\ s.op = "ldr_str_const"
  BY VisitingStatement DEF VisitLoadStoreConst
<1>2. e \in Operand
  BY <1>1, TwoRegistersAndConstant
<1>3. Visited(Cast(word), errors, warnings, new)
  BY DEF VisitLoadStoreConst, Write
<1>4. /\ bad \in {0, 1} /\ label \in {0, 1} /\ wide \in {0, 1} /\ odd \in {0, 1}
      /\ label = 0 => ~Label(e)
      /\ wide = 0 => ~(Number(e) /\ Wide(Index(s), 8))
      /\ odd = 0 => ~(Number(e) /\ ~IsByte(s.name) /\ e.value % 2 # 0)
  BY CountIsBit DEF BadRn
<1>5. Fits(s, Offset) <=>
        (~Silent(e) => /\ Number(e) /\ Index(s) < 8
                       /\ IsByte(s.name) \/ e.value % 2 = 0)
  BY <1>1 DEF Fits
<1>6. Index(s) \in Nat
  BY <1>2, OperandValue DEF Index
<1> HIDE DEF s, e, word, bad, label, wide, odd, new
<1>7. /\ e.value \in Nat
      /\ EvalErrors(e) \in {0, 1} /\ EvalWarnings(e) \in {0, 1}
      /\ EvalErrors(e) = 0 /\ EvalWarnings(e) = 0 /\ ~Label(e) /\ ~Silent(e) => Number(e)
  BY <1>2, OperandTypes
<1>8. /\ errors \in Nat /\ warnings \in Nat
      /\ errors = 0 => EvalErrors(e) = 0 /\ label = 0
      /\ warnings = 0 => EvalWarnings(e) = 0 /\ wide = 0 /\ odd = 0
  BY <1>4, <1>7
<1> HIDE DEF errors, warnings
<1>9. errors = 0 /\ warnings = 0 => Fits(This, Offset)
  BY <1>4, <1>5, <1>6, <1>7, <1>8 DEF Wide, s
<1> QED BY <1>1, <1>3, <1>8, <1>9, VisitedFits

LEMMA MovConstFits ==
  ASSUME TypeOK, SilenceMeansFit, VisitMovConst
  PROVE  SilenceMeansFit'
<1> DEFINE s == This
           e == s.constant
           word == MovConstOpcode[s.name]
                     + (IF Number(e) THEN (e.value % 256) * 16 ELSE 0) + Rd(s.rd)
           wide == Count(Number(e) /\ Wide(e.value, 256))
           errors == EvalErrors(e)
           warnings == EvalWarnings(e) + wide
           new == IF Label(e) THEN <<Reloc(MovField)>> ELSE <<>>
<1>1. pc \in DOMAIN ast /\ s \in Instructions /\ s.op = "mov_const"
  BY VisitingStatement DEF VisitMovConst
<1>2. e \in Operand
  BY <1>1, OperandRecords
<1>3. Visited(word, errors, warnings, new)
  BY DEF VisitMovConst
<1>4. wide \in {0, 1} /\ (wide = 0 => ~(Number(e) /\ Wide(e.value, 256)))
  BY CountIsBit
<1>5. Fits(s, Offset) <=> (Number(e) => e.value < 256)
  BY <1>1 DEF Fits
<1> HIDE DEF s, e, word, wide, new
<1>6. e.value \in Nat /\ EvalErrors(e) \in {0, 1} /\ EvalWarnings(e) \in {0, 1}
  BY <1>2, OperandTypes
<1>7. errors \in Nat /\ warnings \in Nat /\ (warnings = 0 => wide = 0)
  BY <1>4, <1>6
<1> HIDE DEF errors, warnings
<1>8. warnings = 0 => Fits(This, Offset)
  BY <1>4, <1>5, <1>6, <1>7 DEF Wide, s
<1> QED BY <1>1, <1>3, <1>7, <1>8, VisitedFits

LEMMA LoadRelativeFits ==
  ASSUME TypeOK, SilenceMeansFit, VisitLoadRelative
  PROVE  SilenceMeansFit'
<1> DEFINE s == This
           e == s.target
           word == LdrRelativeOpcode + Rd(s.rd)
           stores == Count(s.name \in {"str", "strb"})
           byte == Count(s.name = "ldrb")
           number == Count(Number(e))
           far == Count(Label(e) /\ ~e.near)
           errors == stores + byte + EvalErrors(e) + number + far
           warnings == EvalWarnings(e)
           new == IF Label(e) /\ e.near THEN <<Reloc(LdrField)>> ELSE <<>>
<1>1. pc \in DOMAIN ast /\ s.op = "ldr_relative"
  BY VisitingStatement DEF VisitLoadRelative
<1>2. Visited(word, errors, warnings, new)
  BY DEF VisitLoadRelative
<1>3. stores \in {0, 1} /\ byte \in {0, 1} /\ number \in {0, 1} /\ far \in {0, 1}
  BY CountIsBit
<1>4. Fits(This, Offset)
  BY <1>1 DEF Fits
<1> HIDE DEF s, e, word, stores, byte, number, far, new
<1>5. EvalErrors(e) \in {0, 1} /\ EvalWarnings(e) \in {0, 1}
  BY ReportCounts
<1>6. errors \in Nat /\ warnings \in Nat
  BY <1>3, <1>5
<1> HIDE DEF errors, warnings
<1> QED BY <1>1, <1>2, <1>4, <1>6, VisitedFits

LEMMA BranchFits ==
  ASSUME TypeOK, SilenceMeansFit, VisitBranch
  PROVE  SilenceMeansFit'
<1> DEFINE s == This
           e == s.target
           near == Label(e) /\ e.near
           distance == Distance(e, Offset)
           offset == CASE Number(e) -> e.value \div 2
                       [] near      -> distance \div 2
                       [] OTHER     -> 0
           word == BranchOpcode[s.name] + (offset % 1024)
           far == Count(Label(e) /\ ~e.near)
           outside == Count(near /\ BeyondReach(distance))
           odd == Count(\/ Number(e) /\ e.value % 2 # 0
                        \/ near /\ distance % 2 # 0)
           errors == EvalErrors(e) + far + outside
           warnings == EvalWarnings(e) + odd
           new == <<>>
<1>1. pc \in DOMAIN ast /\ s \in Instructions /\ s.op = "branch"
  BY VisitingStatement DEF VisitBranch
<1>2. Visited(Cast(word), errors, warnings, new)
  BY DEF VisitBranch, Write
<1>3. /\ far \in {0, 1} /\ outside \in {0, 1} /\ odd \in {0, 1}
      /\ far = 0 => ~(Label(e) /\ ~e.near)
      /\ outside = 0 => ~(near /\ BeyondReach(distance))
      /\ odd = 0 => ~(\/ Number(e) /\ e.value % 2 # 0
                      \/ near /\ distance % 2 # 0)
  BY CountIsBit
<1>4. Fits(s, Offset) <=>
        /\ Label(e) => e.near /\ ~BeyondReach(distance) /\ distance % 2 = 0
        /\ Number(e) => e.value % 2 = 0
  BY <1>1 DEF Fits
<1> HIDE DEF word, far, outside, odd, new, e, s, distance
<1>5. EvalErrors(e) \in {0, 1} /\ EvalWarnings(e) \in {0, 1}
  BY ReportCounts
<1>6. /\ errors \in Nat /\ warnings \in Nat
      /\ errors = 0 => far = 0 /\ outside = 0
      /\ warnings = 0 => odd = 0
  BY <1>3, <1>5
<1> HIDE DEF errors, warnings
<1>7. errors = 0 /\ warnings = 0 => Fits(This, Offset)
  BY <1>3, <1>4, <1>6 DEF s
<1> QED BY <1>1, <1>2, <1>6, <1>7, VisitedFits

LEMMA FitsNext ==
  ASSUME TypeOK, SilenceMeansFit, [Next]_vars
  PROVE  SilenceMeansFit'
<1>1. CASE UNCHANGED vars
  BY <1>1 DEF vars, SilenceMeansFit, NoReports, NoErrors, OffsetOf
<1> QED BY <1>1, LoadRelativeFits, ThreeRegistersFit, TwoRegistersFit, LoadStoreConstFits,
           BranchFits, ShiftFits, ArithConstFits, MovConstFits DEF Next

\* The offset of a branch, cut to ten bits and read as a signed number, is the
\* offset itself within the reach that is checked.
LEMMA ReachIsTenBits ==
  ASSUME NEW distance \in Int, ~BeyondReach(distance), distance % 2 = 0
  PROVE  2 * Signed10((distance \div 2) % 1024) = distance
<1> DEFINE o == distance \div 2
<1>1. o \in Int /\ distance = 2 * o /\ o >= -512 /\ o <= 511
  BY DEF BeyondReach
<1> HIDE DEF o
<1>2. CASE o >= 0
  <2>1. o % 1024 = o
    BY <1>1, <1>2
  <2> QED BY <1>1, <1>2, <2>1 DEF Signed10, o
<1>3. CASE o < 0
  <2>1. o % 1024 = o + 1024
    BY <1>1, <1>3
  <2> QED BY <1>1, <1>3, <2>1 DEF Signed10, o
<1> QED BY <1>1, <1>2, <1>3

LEMMA FitsAreTruncations ==
  ASSUME TypeOK, CodesDecode, SilenceMeansFit
  PROVE  TruncationsAreReported
<1> SUFFICES ASSUME NEW j \in 1 .. pc - 1, NoReports(j)
             PROVE  LET s == ast[j]
                        m == Decode(code[j])
                    IN  /\ s.op \in {"shift", "arith_const"} /\ ~Silent(s.constant) =>
                             m[5] = s.constant.value
                        /\ s.op = "ldr_str_const" /\ ~Silent(s.constant) =>
                             m[5] * (IF IsByte(s.name) THEN 1 ELSE 2) = s.constant.value
                        /\ s.op = "mov_const" /\ Number(s.constant) =>
                             m[4] = s.constant.value
                        /\ s.op = "branch" /\ Label(s.target) =>
                             OffsetOf(j) + 2 + 2 * Signed10(m[2]) = s.target.value
                        /\ s.op = "branch" /\ Number(s.target) /\ s.target.value < 2048 =>
                             2 * m[2] = s.target.value
  BY DEF TruncationsAreReported
<1> DEFINE s == ast[j]
           e == s.constant
           t == s.target
           m == Decode(code[j])
<1>1. s \in Instructions /\ OffsetOf(j) \in Int
  BY DEF TypeOK, OffsetOf
<1>2. Fits(s, OffsetOf(j))
  BY DEF SilenceMeansFit
<1>3. Written(j) => m = Meaning(s, OffsetOf(j))
  BY DEF CodesDecode, NoReports
<1>4. Written(j) <=> (s.op = "shift" => Number(e))
  BY DEF Written
<1> HIDE DEF s, m
<1>5. ASSUME s.op \in {"shift", "arith_const"}, ~Silent(e)
      PROVE  m[5] = e.value
  <2>1. Number(e) /\ e.value < 16
    BY <1>2, <1>5 DEF Fits
  <2>2. m = <<s.name, s.rd, s.rn, "constant", Given(e, e.value, 16)>>
    BY <1>3, <1>4, <1>5, <2>1 DEF Meaning
  <2>3. e.value \in Nat
    BY <1>1, <1>5, TwoRegistersAndConstant, OperandValue
  <2> HIDE DEF e
  <2>4. Given(e, e.value, 16) = e.value
    BY <2>1, <2>3 DEF Given
  <2> QED BY <2>2, <2>4
<1>6. ASSUME s.op = "ldr_str_const", ~Silent(e)
      PROVE  m[5] * (IF IsByte(s.name) THEN 1 ELSE 2) = e.value
  <2>1. Number(e) /\ Index(s) < 8 /\ (IsByte(s.name) \/ e.value % 2 = 0)
    BY <1>2, <1>6 DEF Fits
  <2>2. m = <<s.name, s.rd, s.rn, "constant", Given(e, Index(s), 8)>>
    BY <1>3, <1>4, <1>6 DEF Meaning
  <2>3. e.value \in Nat
    BY <1>1, <1>6, TwoRegistersAndConstant, OperandValue
  <2>4. Index(s) = (IF IsByte(s.name) THEN e.value ELSE e.value \div 2)
    BY DEF Index
  <2> HIDE DEF e
  <2>5. Index(s) \in Nat /\ Index(s) * (IF IsByte(s.name) THEN 1 ELSE 2) = e.value
    BY <2>1, <2>3, <2>4
  <2>6. Given(e, Index(s), 8) = Index(s)
    BY <2>1, <2>5 DEF Given
  <2> QED BY <2>2, <2>5, <2>6
<1>7. ASSUME s.op = "mov_const", Number(e)
      PROVE  m[4] = e.value
  <2>1. e.value < 256
    BY <1>2, <1>7 DEF Fits
  <2>2. m = <<s.name, s.rd, "constant", Given(e, e.value, 256)>>
    BY <1>3, <1>4, <1>7 DEF Meaning
  <2>3. e.value \in Nat
    BY <1>1, <1>7, OperandRecords, OperandValue
  <2> HIDE DEF e
  <2>4. Given(e, e.value, 256) = e.value
    BY <1>7, <2>1, <2>3 DEF Given
  <2> QED BY <2>2, <2>4
<1>8. ASSUME s.op = "branch", Label(t)
      PROVE  OffsetOf(j) + 2 + 2 * Signed10(m[2]) = t.value
  <2> DEFINE distance == Distance(t, OffsetOf(j))
  <2>1. t.near /\ ~BeyondReach(distance) /\ distance % 2 = 0
    BY <1>2, <1>8 DEF Fits
  <2>2. m = <<Canonical(s.name), (distance \div 2) % 1024>>
    BY <1>3, <1>4, <1>8, <2>1 DEF Meaning
  <2>3. t.value \in Nat
    BY <1>1, <1>8, OperandRecords, OperandValue
  <2>4. distance \in Int /\ distance = t.value - OffsetOf(j) - 2
    BY <1>1, <2>3 DEF Distance
  <2> HIDE DEF distance
  <2>5. 2 * Signed10((distance \div 2) % 1024) = distance
    BY <2>1, <2>4, ReachIsTenBits
  <2>6. m[2] = (distance \div 2) % 1024
    BY <2>2
  <2> QED BY <1>1, <2>3, <2>4, <2>5, <2>6
<1>9. ASSUME s.op = "branch", Number(t), t.value < 2048
      PROVE  2 * m[2] = t.value
  <2>1. t.value % 2 = 0 /\ ~Label(t)
    BY <1>2, <1>9 DEF Fits, Number, Label
  <2>2. m = <<Canonical(s.name), Given(t, t.value \div 2, 1024)>>
    BY <1>3, <1>4, <1>9, <2>1 DEF Meaning
  <2>3. t.value \in Nat
    BY <1>1, <1>9, OperandRecords, OperandValue
  <2> HIDE DEF t
  <2>4. t.value \div 2 \in 0 .. 1023 /\ 2 * (t.value \div 2) = t.value
    BY <1>9, <2>1, <2>3
  <2>5. Given(t, t.value \div 2, 1024) = t.value \div 2
    BY <1>9, <2>4 DEF Given
  <2> QED BY <2>2, <2>4, <2>5
<1> QED BY <1>5, <1>6, <1>7, <1>8, <1>9 DEF s, m

-----------------------------------------------------------------------------
\* A relocation waits for a word that was written with its field empty, and no
\* later visit writes that word again.

Awaits(field, s, word) ==
  \/ /\ s.op = "mov_const" /\ field = MovField
     /\ word = MovConstOpcode[s.name] + Rd(s.rd)
  \/ /\ s.op = "ldr_relative" /\ field = LdrField
     /\ word = LdrRelativeOpcode + Rd(s.rd)

RelocsAwait ==
  \A k \in DOMAIN relocs :
    /\ relocs[k].statement \in 1 .. pc - 1
    /\ Awaits(relocs[k].field, ast[relocs[k].statement], code[relocs[k].statement])

LEMMA VisitedAwaits ==
  ASSUME TypeOK, RelocsAwait, pc \in DOMAIN ast,
         NEW word, NEW errors, NEW warnings, NEW new,
         Visited(word, errors, warnings, new),
         \/ new = <<>>
         \/ \E field \in {LdrField, MovField} :
              new = <<Reloc(field)>> /\ Awaits(field, This, word)
  PROVE  RelocsAwait'
<1>1. ast' = ast /\ pc' = pc + 1 /\ relocs' = relocs \o new
  BY DEF Visited
<1>2. pc \in Nat /\ pc - 1 \in Int
  BY DEF TypeOK
<1>3. /\ code'[pc] = word
      /\ \A j \in DOMAIN ast : j # pc => code'[j] = code[j]
  BY DEF TypeOK, Visited
<1>4. ASSUME NEW k \in DOMAIN relocs
      PROVE  /\ relocs[k].statement \in 1 .. pc' - 1
             /\ Awaits(relocs[k].field, ast'[relocs[k].statement],
                       code'[relocs[k].statement])
  <2> DEFINE j == relocs[k].statement
  <2>1. j \in 1 .. pc - 1 /\ Awaits(relocs[k].field, ast[j], code[j])
    BY DEF RelocsAwait
  <2>2. j \in DOMAIN ast
    <3>1. pc \in 1 .. Len(ast) + 1 /\ ast \in Seq(Instructions)
      BY DEF TypeOK
    <3> HIDE DEF j
    <3>2. j \in 1 .. Len(ast)
      BY <2>1, <3>1
    <3> QED BY <3>1, <3>2
  <2> HIDE DEF j
  <2>3. j # pc /\ j \in 1 .. pc' - 1
    BY <1>1, <1>2, <2>1
  <2> QED BY <1>1, <1>3, <2>1, <2>2, <2>3 DEF j
<1>5. relocs \in Seq(Relocation)
  BY DEF TypeOK
<1>6. CASE new = <<>>
  <2>1. relocs' = relocs
    BY <1>1, <1>5, <1>6
  <2> QED BY <1>4, <2>1 DEF RelocsAwait
<1>7. CASE \E field \in {LdrField, MovField} :
             new = <<Reloc(field)>> /\ Awaits(field, This, word)
  <2>1. PICK field \in {LdrField, MovField} :
               new = <<Reloc(field)>> /\ Awaits(field, This, word)
    BY <1>7
  <2> DEFINE r == Reloc(field)
             n == Len(relocs) + 1
  <2>2. r \in Relocation /\ r.statement = pc /\ r.field = field
    BY DEF Reloc, Relocation
  <2> HIDE DEF r
  <2>3. relocs' = Append(relocs, r)
    BY <1>1, <1>5, <2>1, <2>2 DEF r
  <2>4. /\ DOMAIN relocs' = DOMAIN relocs \cup {n}
        /\ \A k \in DOMAIN relocs : relocs'[k] = relocs[k]
        /\ relocs'[n] = r
    BY <1>5, <2>2, <2>3
  <2>5. r.statement \in 1 .. pc' - 1
    BY <1>1, <1>2, <2>2 DEF TypeOK
  <2>6. Awaits(r.field, ast'[r.statement], code'[r.statement])
    BY <1>1, <1>3, <2>1, <2>2 DEF This
  <2> HIDE DEF n
  <2> QED BY <1>4, <2>4, <2>5, <2>6 DEF RelocsAwait
<1> QED BY <1>6, <1>7

LEMMA WriteAwaits ==
  ASSUME TypeOK, RelocsAwait, NEW op, Visiting(op),
         NEW word, NEW errors, NEW warnings, Write(word, errors, warnings)
  PROVE  RelocsAwait'
<1>1. pc \in DOMAIN ast
  BY VisitingStatement
<1> DEFINE cast == Cast(word)
           new == <<>>
<1>2. Visited(cast, errors, warnings, new)
  BY DEF Write
<1>3. new = <<>>
  OBVIOUS
<1> HIDE DEF cast, new
<1> QED BY <1>1, <1>2, <1>3, VisitedAwaits

LEMMA MovConstAwaits ==
  ASSUME TypeOK, RelocsAwait, VisitMovConst
  PROVE  RelocsAwait'
<1> DEFINE s == This
           e == s.constant
           field == IF Number(e) THEN (e.value % 256) * 16 ELSE 0
           word == MovConstOpcode[s.name] + field + Rd(s.rd)
           errors == EvalErrors(e)
           warnings == EvalWarnings(e) + Count(Number(e) /\ Wide(e.value, 256))
           new == IF Label(e) THEN <<Reloc(MovField)>> ELSE <<>>
<1>1. pc \in DOMAIN ast /\ s \in Instructions /\ s.op = "mov_const"
  BY VisitingStatement DEF VisitMovConst
<1>2. Visited(word, errors, warnings, new)
  BY DEF VisitMovConst
<1>3. Label(e) => Awaits(MovField, s, word)
  <2>1. s.rd \in Nat /\ MovConstOpcode[s.name] \in Nat
    BY <1>1, OperandRecords DEF MovConstOpcode
  <2> SUFFICES ASSUME Label(e) PROVE Awaits(MovField, s, word)
    OBVIOUS
  <2>2. field = 0
    BY DEF Label, Number
  <2>3. word = MovConstOpcode[s.name] + Rd(s.rd)
    <3> HIDE DEF field, s
    <3> QED BY <2>1, <2>2 DEF Rd
  <2> HIDE DEF word
  <2> QED BY <1>1, <2>3 DEF Awaits
<1>4. \/ new = <<>>
      \/ \E f \in {LdrField, MovField} : new = <<Reloc(f)>> /\ Awaits(f, This, word)
  <2> HIDE DEF word, e
  <2> QED BY <1>3
<1> HIDE DEF word, errors, warnings, new
<1> QED BY <1>1, <1>2, <1>4, VisitedAwaits

LEMMA LoadRelativeAwaits ==
  ASSUME TypeOK, RelocsAwait, VisitLoadRelative
  PROVE  RelocsAwait'
<1> DEFINE s == This
           e == s.target
           word == LdrRelativeOpcode + Rd(s.rd)
           errors == Count(s.name \in {"str", "strb"}) + Count(s.name = "ldrb")
                       + EvalErrors(e) + Count(Number(e)) + Count(Label(e) /\ ~e.near)
           warnings == EvalWarnings(e)
           new == IF Label(e) /\ e.near THEN <<Reloc(LdrField)>> ELSE <<>>
<1>1. pc \in DOMAIN ast /\ s.op = "ldr_relative"
  BY VisitingStatement DEF VisitLoadRelative
<1>2. Visited(word, errors, warnings, new)
  BY DEF VisitLoadRelative
<1>3. Awaits(LdrField, s, word)
  BY <1>1 DEF Awaits
<1>4. \/ new = <<>>
      \/ \E f \in {LdrField, MovField} : new = <<Reloc(f)>> /\ Awaits(f, This, word)
  <2> HIDE DEF word, e
  <2> QED BY <1>3
<1> HIDE DEF word, errors, warnings, new
<1> QED BY <1>1, <1>2, <1>4, VisitedAwaits

LEMMA AwaitsNext ==
  ASSUME TypeOK, RelocsAwait, [Next]_vars
  PROVE  RelocsAwait'
<1>1. CASE UNCHANGED vars
  BY <1>1 DEF vars, RelocsAwait
<1>2. CASE VisitLoadStore \/ VisitArith \/ VisitLogic \/ VisitRrx \/ VisitCompare
  BY <1>2, WriteAwaits DEF VisitLoadStore, VisitArith, VisitLogic, VisitRrx, VisitCompare
<1>3. CASE VisitNot \/ VisitMov \/ VisitMovs \/ VisitMsr \/ VisitMrs \/ VisitPushPop
  BY <1>3, WriteAwaits DEF VisitNot, VisitMov, VisitMovs, VisitMsr, VisitMrs, VisitPushPop
<1>4. CASE VisitLoadStoreConst \/ VisitArithConst \/ VisitBranch
  <2>1. CASE VisitLoadStoreConst
    <3>1. Visiting("ldr_str_const")
          /\ \E word, errors, warnings : Write(word, errors, warnings)
      BY <2>1, Zenon DEF VisitLoadStoreConst
    <3> QED BY <3>1, WriteAwaits
  <2>2. CASE VisitArithConst
    <3>1. Visiting("arith_const")
          /\ \E word, errors, warnings : Write(word, errors, warnings)
      BY <2>2, Zenon DEF VisitArithConst
    <3> QED BY <3>1, WriteAwaits
  <2>3. CASE VisitBranch
    <3> DEFINE e == This.target
               near == Label(e) /\ e.near
               distance == Distance(e, Offset)
               offset == CASE Number(e) -> e.value \div 2
                           [] near      -> distance \div 2
                           [] OTHER     -> 0
               word == BranchOpcode[This.name] + (offset % 1024)
               errors == EvalErrors(e) + Count(Label(e) /\ ~e.near)
                           + Count(near /\ BeyondReach(distance))
               warnings == EvalWarnings(e) + Count(\/ Number(e) /\ e.value % 2 # 0
                                                   \/ near /\ distance % 2 # 0)
    <3>1. Visiting("branch") /\ Write(word, errors, warnings)
      BY <2>3 DEF VisitBranch
    <3> HIDE DEF word, errors, warnings
    <3> QED BY <3>1, WriteAwaits
  <2> QED BY <1>4, <2>1, <2>2, <2>3
<1>5. CASE VisitShift
  BY <1>5, WriteAwaits DEF VisitShift
<1> QED BY <1>1, <1>2, <1>3, <1>4, <1>5, LoadRelativeAwaits, MovConstAwaits DEF Next

\* A six-bit constant over the register of ldr.
LEMMA LdrOfWord ==
  ASSUME NEW d \in Nat, NEW v \in Nat, d < 16, v < 64
  PROVE  Decode(LdrRelativeOpcode + Rd(d) + v * 16) = <<"ldr_label", d, v>>
<1> DEFINE w == LdrRelativeOpcode + Rd(d) + v * 16
           h == 192 + v
           low == 1024 + 16 * v + d
           low10 == 16 * v + d
<1>1. w \in Nat /\ w = 3072 + 16 * v + d
  BY DEF LdrRelativeOpcode, Rd
<1>2. h \in Nat /\ h = 64 * 3 + v /\ w = 16 * h + d
  BY <1>1
<1>3. low \in Nat /\ low < 2048 /\ w = 2048 * 1 + low
  BY <1>1
<1>4. low10 \in Nat /\ low10 < 1024 /\ w = 1024 * 3 + low10
  BY <1>1
<1> HIDE DEF w, h, low, low10
<1>5. w \div 16 = h /\ w % 16 = d
  BY <1>2
<1>6. h % 64 = v
  BY <1>2
<1>7. w \div 2048 = 1
  BY <1>3
<1>8. (w \div 1024) % 2 = 1
  BY <1>4
<1>9. FieldD(w) = d /\ Constant6(w) = v /\ Bit10(w) = 1
  BY <1>5, <1>6, <1>8 DEF FieldD, Constant6, Bit10
<1>10. Decode(w) = <<"ldr_label", d, v>>
  BY <1>7, <1>9, ReadIndexOrStack DEF DecodeMemory
<1> QED BY <1>10 DEF w

LEMMA AwaitedFields ==
  ASSUME TypeOK, RelocsAwait
  PROVE  RelocatedFieldsAreConstants
<1> SUFFICES ASSUME NEW k \in DOMAIN relocs,
                    NEW v \in 0 .. relocs[k].field.size - 1
             PROVE  LET r == relocs[k]
                        s == ast[r.statement]
                    IN  Decode(code[r.statement] + v * r.field.position) =
                          IF s.op = "mov_const" THEN <<s.name, s.rd, "constant", v>>
                          ELSE <<"ldr_label", s.rd, v>>
  BY DEF RelocatedFieldsAreConstants
<1> DEFINE r == relocs[k]
           s == ast[r.statement]
           word == code[r.statement]
<1>1. Awaits(r.field, s, word) /\ r.statement \in 1 .. pc - 1
  BY DEF RelocsAwait
<1>2. s \in Instructions
  <2>1. pc \in 1 .. Len(ast) + 1 /\ ast \in Seq(Instructions)
    BY DEF TypeOK
  <2> HIDE DEF r
  <2>2. r.statement \in 1 .. Len(ast)
    BY <1>1, <2>1
  <2> QED BY <2>1, <2>2
<1>3. v \in 0 .. r.field.size - 1
  OBVIOUS
<1> HIDE DEF r, s, word
<1>4. CASE /\ s.op = "mov_const" /\ r.field = MovField
           /\ word = MovConstOpcode[s.name] + Rd(s.rd)
  <2>1. s.rd \in Nat /\ s.rd < 16 /\ s.name \in {"mov", "movt"}
    BY <1>2, <1>4, OperandRecords
  <2>2. v \in Nat /\ v < 256 /\ r.field.position = 16
    BY <1>3, <1>4 DEF MovField
  <2>3. PICK g \in Nat : /\ g < 16 /\ MovConstOpcode[s.name] = 4096 * g
                         /\ \A w : w \div 2048 \in {2 * g, 2 * g + 1} =>
                              Decode(w) = <<s.name, FieldD(w), "constant", Constant8(w)>>
    BY <2>1, MovConstGroup
  <2>4. word + v * r.field.position = Byte(g, v, s.rd)
    BY <1>4, <2>1, <2>2, <2>3 DEF Rd, Byte
  <2>5. Decode(Byte(g, v, s.rd)) = <<s.name, s.rd, "constant", v>>
    BY <2>1, <2>2, <2>3, ByteOfWord
  <2> QED BY <1>4, <2>4, <2>5 DEF r, s, word
<1>5. CASE /\ s.op = "ldr_relative" /\ r.field = LdrField
           /\ word = LdrRelativeOpcode + Rd(s.rd)
  <2>1. s.rd \in Nat /\ s.rd < 16
    BY <1>2, <1>5, OperandRecords
  <2>2. v \in Nat /\ v < 64 /\ r.field.position = 16
    BY <1>3, <1>5 DEF LdrField
  <2>3. Decode(word + v * r.field.position) = <<"ldr_label", s.rd, v>>
    BY <1>5, <2>1, <2>2, LdrOfWord
  <2> QED BY <1>5, <2>3 DEF r, s, word
<1> QED BY <1>1, <1>4, <1>5 DEF Awaits

LEMMA InitDecodes == Init => TypeOK /\ CodesDecode
<1> SUFFICES ASSUME Init PROVE TypeOK /\ CodesDecode
  OBVIOUS
<1>1. ast \in Seq(Instructions)
  BY ProgramsAssumption DEF Init
<1>2. Len(ast) \in Nat /\ DOMAIN ast = 1 .. Len(ast)
  BY <1>1
<1>3. code \in [DOMAIN ast -> Word]
  BY DEF Init, Filler, Word
<1>4. reports \in [DOMAIN ast -> [errors : Nat, warnings : Nat]]
  BY DEF Init
<1> QED BY <1>1, <1>2, <1>3, <1>4 DEF Init, TypeOK, CodesDecode

LEMMA NextDecodes == TypeOK /\ CodesDecode /\ [Next]_vars => (TypeOK /\ CodesDecode)'
<1> SUFFICES ASSUME TypeOK, CodesDecode, [Next]_vars PROVE TypeOK' /\ CodesDecode'
  OBVIOUS
<1>1. CASE UNCHANGED vars
  BY <1>1 DEF vars, TypeOK, CodesDecode, Relocation, NoErrors, Written, OffsetOf
<1>2. CASE Next
  BY <1>2, LoadRelativeStep, LoadStoreStep, LoadStoreConstStep, BranchStep, ShiftStep,
     RrxStep, ArithStep, ArithConstStep, LogicStep, NotStep, MovStep, MovConstStep,
     MovsStep, CompareStep, MsrStep, MrsStep, StackStep DEF Next
<1> QED BY <1>1, <1>2

-----------------------------------------------------------------------------
\* The types of the state, and that every accepted instruction reads back as
\* the instruction it spells, are kept by every visit.
THEOREM AcceptedCodeDecodes == Spec => [](TypeOK /\ CodesDecode)
BY InitDecodes, NextDecodes, PTL DEF Spec

\* A statement that raised no report holds its constant itself, and a branch
\* without report is as far from its label as the PC will take it: what does
\* not fit its field is reported by the visit that cuts it, but for the number
\* of a branch, which is cut in silence from 2048 on.
THEOREM CutConstantsAreReported == Spec => []TruncationsAreReported
<1>1. Init => SilenceMeansFit
  BY DEF Init, SilenceMeansFit
<1>2. TypeOK /\ SilenceMeansFit /\ [Next]_vars => SilenceMeansFit'
  BY FitsNext
<1>3. TypeOK /\ CodesDecode /\ SilenceMeansFit => TruncationsAreReported
  BY FitsAreTruncations
<1> QED BY <1>1, <1>2, <1>3, InitDecodes, NextDecodes, PTL DEF Spec

\* A relocation never runs into its instruction: the field it patches is empty
\* when it is queued and stays so, and any value that fits it reads back as the
\* constant of the same instruction and register.
THEOREM RelocationsFindTheirField == Spec => []RelocatedFieldsAreConstants
<1>1. Init => RelocsAwait
  BY DEF Init, RelocsAwait
<1>2. TypeOK /\ RelocsAwait /\ [Next]_vars => RelocsAwait'
  BY AwaitsNext
<1>3. TypeOK /\ RelocsAwait => RelocatedFieldsAreConstants
  BY AwaitedFields
<1> QED BY <1>1, <1>2, <1>3, InitDecodes, NextDecodes, PTL DEF Spec
=============================================================================
