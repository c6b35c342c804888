---- MODULE MCCodeGenerator ----
(* Instructions for small instances of CodeGenerator. *)
EXTENDS CodeGenerator

\* Registers: the lowest, those around the three-bit limit, alternating bits,
\* the highest.
Rs == {0, 5, 7, 8, 10, 14, 15}

Num(n) == [type |-> "ABSOLUTE", value |-> n, near |-> FALSE]
At(n, near) == [type |-> "LABEL", value |-> n, near |-> near]
Failed(type) == [type |-> type, value |-> 0, near |-> FALSE]

Failures == {Failed(type) : type \in {"INVALID", "WIDE", "SILENT"}}
NotNumbers == {At(0, TRUE)} \cup Failures

\* Constants around the limits of fields of 3, 4 and 8 bits.
Constants(values) == {Num(n) : n \in values} \cup NotNumbers
Small == Constants({0, 5, 7, 8, 14, 15, 16, 17, 65535})
Bytes == Constants({0, 1, 170, 255, 256, 65535})

\* Labels around the reach of a branch, and numbers.
Targets == {At(n, TRUE) : n \in {0, 1, 2, 3, 100, 1024, 1025, 1026, 1027, 65535}}
             \cup {At(4, FALSE), Num(0), Num(7), Num(2046), Num(2048)}
             \cup Failures

LoadStores == DOMAIN LoadStoreOpcode

Statements ==
  [op : {"ldr_relative"}, name : LoadStores, rd : Rs, target : Targets]
  \cup [op : {"ldr_str"}, name : LoadStores, rd : Rs, rn : Rs, rm : Rs]
  \cup [op : {"ldr_str_const"}, name : LoadStores, rd : {0, 15}, rn : Rs, constant : Small]
  \cup [op : {"branch"}, name : DOMAIN BranchOpcode, target : Targets]
  \cup [op : {"arith"}, name : DOMAIN ArithOpcode, rd : Rs, rn : Rs, rm : Rs]
  \cup [op : {"arith_const"}, name : DOMAIN ArithOpcode, rd : {0, 15}, rn : Rs,
        constant : Small]
  \cup [op : {"logic"}, name : DOMAIN LogicOpcode, rd : Rs, rn : Rs, rm : Rs]
  \cup [op : {"shift"}, name : DOMAIN ShiftOpcode, rd : {0, 15}, rn : Rs, constant : Small]
  \cup [op : {"rrx", "mvn", "mov", "movs"}, rd : Rs, rn : Rs]
  \cup [op : {"mov_const"}, name : DOMAIN MovConstOpcode, rd : Rs, constant : Bytes]
  \cup [op : {"cmp"}, rn : Rs, rm : Rs]
  \cup [op : {"msr", "mrs"}, special : DOMAIN SpecialBit, rd : Rs]
  \cup [op : {"stack"}, name : DOMAIN StackOpcode, rd : Rs]

Branch(name, target) == [op |-> "branch", name |-> name, target |-> target]
MovConst(e) == [op |-> "mov_const", name |-> "mov", rd |-> 5, constant |-> e]

\* Each instruction alone, and programs where the place of an instruction and
\* the relocations before it count.
MCPrograms ==
  {<<s>> : s \in Statements}
  \cup {<<MovConst(e), Branch("b", t)>> : e \in Bytes, t \in Targets}

\* All pairs of conditions.
BranchPrograms ==
  {<<Branch(n, Num(4)), Branch(m, Num(4))>> :
     n \in DOMAIN BranchOpcode, m \in DOMAIN BranchOpcode}
====
