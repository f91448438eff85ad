------------------------------ MODULE Bytecode ------------------------------
(***************************************************************************)
(* The bytecode that the generator of src/src/TByteCodeBuilder.cpp hands   *)
(* to the machine of src/src/VM.cpp: instructions, symbols, and modules,   *)
(* which are a symbol table with the code of a program and its functions.  *)
(***************************************************************************)
EXTENDS Integers, Sequences

CONSTANT ByteMod    \* values of a uint8_t (256 in the code)

SymbolTypes == {"Undefined", "Integer", "Double", "Boolean", "UserFunc"}
Symbol == [type : SymbolTypes, v : Int]

BinaryOps == {"Add", "Sub", "Mult", "Divide", "Power", "And", "Or",
              "IsEq", "IsNotEq", "IsLt", "IsLte", "IsGt", "IsGte"}
UnaryOps == {"Umi", "Not"}
ConstOps == {"Pushi", "Pushd", "Pushb"}
UnsupportedOps == {"Mod", "Inc", "Dec", "Xor", "Pushs", "JmpIfTrue",
                   "LocalInc", "LocalDec", "Pop"}
OpCodes == BinaryOps \cup UnaryOps \cup ConstOps \cup UnsupportedOps \cup
           {"Nop", "Halt", "Load", "Store", "LoadLocal", "StoreLocal",
            "PushNone", "Jmp", "JmpIfFalse", "Call", "Return"}

Instruction == [op : OpCodes, arg : Int]
Nop == [op |-> "Nop", arg |-> -1]

\* The code of a module is that of its top level, Main, and of each of its
\* functions, which are known by their index in the module's symbol table.
Main == -1
FunctionIds(m) == {i \in DOMAIN m.symbols : m.symbols[i].type = "UserFunc"}
CodeIds(m) == {Main} \cup FunctionIds(m)

\* A module as TByteCodeBuilder leaves it: size is that of its symbol table,
\* nargs what setNumberOfArguments was given, nlocals the size of a function's
\* own symbol table.  Operands index the tables they were taken from.
IsModule(m) ==
  /\ m.size \in Nat
  /\ m.symbols \in [0..(m.size - 1) -> Symbol]
  /\ m.code \in [CodeIds(m) -> Seq(Instruction)]
  /\ m.nargs \in [FunctionIds(m) -> Nat]
  /\ m.nlocals \in [FunctionIds(m) -> Nat]
  /\ m.constants \in Seq(Int)
  /\ \A c \in CodeIds(m) : \A i \in 1..Len(m.code[c]) :
       /\ m.code[c][i].op = "Load" => m.code[c][i].arg \in DOMAIN m.symbols
       /\ m.code[c][i].op = "Pushd" => m.code[c][i].arg \in DOMAIN m.constants
=============================================================================
