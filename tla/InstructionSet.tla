---------------------------- MODULE InstructionSet ----------------------------
(***************************************************************************)
(* What a 16-bit word tells the P16 to do: the instructions of the table   *)
(* in doc/pas_assembly_language.rst, told apart by the five highest bits   *)
(* and, where several share them, by bit 10 or by bits 4 to 6.  It is the  *)
(* reader the code generator writes for, and knows nothing of how words    *)
(* are built.                                                              *)
(***************************************************************************)
EXTENDS Integers

\* Three register fields; the third one also holds constants of 3 and 4 bits.
FieldD(w) == w % 16
FieldN(w) == (w \div 16) % 8
FieldM(w) == (w \div 128) % 16
Bit10(w) == (w \div 1024) % 2

\* Constants of pc-relative ldr, mov and branch.
Constant6(w) == (w \div 16) % 64
Constant8(w) == (w \div 16) % 256
Offset10(w) == w % 1024

\* Two registers, and a third one or a constant.
Three(name, kind, w) == <<name, FieldD(w), FieldN(w), kind, FieldM(w)>>

Condition == <<"eq", "ne", "cs", "cc", "ge", "lt", "b", "bl">>

\* The 0xb000 group: moves and special registers.
DecodeMove(w) ==
  CASE FieldN(w) = 0 -> <<"mov", FieldD(w), FieldM(w)>>
    [] FieldN(w) = 1 -> <<"mvn", FieldD(w), FieldM(w)>>
    [] FieldN(w) = 2 -> <<"movs">>
    [] FieldN(w) = 4 -> <<"msr", "cpsr", FieldM(w)>>
    [] FieldN(w) = 5 -> <<"msr", "spsr", FieldM(w)>>
    [] FieldN(w) = 6 -> <<"mrs", "cpsr", FieldD(w)>>
    [] FieldN(w) = 7 -> <<"mrs", "spsr", FieldD(w)>>
    [] OTHER -> <<"undefined">>

\* The group below 0x4000 whose index is a constant shares its five bits with
\* the stack and with ldr from a label.
DecodeMemory(group, w) ==
  CASE Bit10(w) = 0 /\ group = 0 -> Three("ldr", "constant", w)
    [] Bit10(w) = 0 /\ group = 1 -> Three("ldrb", "constant", w)
    [] Bit10(w) = 0 /\ group = 4 -> Three("str", "constant", w)
    [] Bit10(w) = 0 /\ group = 5 -> Three("strb", "constant", w)
    [] Bit10(w) = 1 /\ group = 0 -> <<"pop", FieldD(w)>>
    [] Bit10(w) = 1 /\ group = 1 -> <<"ldr_label", FieldD(w), Constant6(w)>>
    [] Bit10(w) = 1 /\ group = 4 -> <<"push", FieldD(w)>>
    [] OTHER -> <<"undefined">>

\* Below 0x4000, and indexed by a register.
DecodeRegisterIndex(group, w) ==
  CASE group = 2 -> Three("ldr", "register", w)
    [] group = 3 -> Three("ldrb", "register", w)
    [] group = 6 -> Three("str", "register", w)
    [] group = 7 -> Three("strb", "register", w)

\* From 0x8000 to 0xafff.
DecodeArith(group, w) ==
  CASE group = 16 -> Three("add", "register", w)
    [] group = 17 -> Three("sub", "register", w)
    [] group = 18 -> Three("adc", "register", w)
    [] group = 19 -> Three("sbc", "register", w)
    [] group = 20 -> Three("add", "constant", w)
    [] group = 21 -> Three("sub", "constant", w)

\* From 0xc000 up.
DecodeLogicAndShift(group, w) ==
  CASE group = 24 -> Three("and", "register", w)
    [] group = 25 -> Three("orr", "register", w)
    [] group = 26 -> Three("eor", "register", w)
    [] group = 27 -> <<"rrx", FieldD(w), FieldN(w)>>
    [] group = 28 -> Three("lsl", "constant", w)
    [] group = 29 -> Three("lsr", "constant", w)
    [] group = 30 -> Three("asr", "constant", w)
    [] group = 31 -> Three("ror", "constant", w)

Decode(w) ==
  LET group == w \div 2048
  IN  CASE group \in {0, 1, 4, 5} -> DecodeMemory(group, w)
        [] group \in {2, 3, 6, 7} -> DecodeRegisterIndex(group, w)
        [] group \in 8 .. 11 -> <<Condition[(w \div 1024) - 15], Offset10(w)>>
        [] group \in 12 .. 13 -> <<"mov", FieldD(w), "constant", Constant8(w)>>
        [] group \in 14 .. 15 -> <<"movt", FieldD(w), "constant", Constant8(w)>>
        [] group \in 16 .. 21 -> DecodeArith(group, w)
        [] group = 22 -> DecodeMove(w)
        [] group = 23 -> <<"cmp", FieldN(w), FieldM(w)>>
        [] group \in 24 .. 31 -> DecodeLogicAndShift(group, w)
=============================================================================
