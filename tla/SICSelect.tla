----------------------------- MODULE SICSelect -----------------------------
(***************************************************************************)
(* Instruction selection: the patterns of SICInstrInfo.td replace a node   *)
(* of the selection DAG by a sequence of SIC/XE instructions.  A behaviour *)
(* is one node: it is selected, and the machine runs its sequence.  The    *)
(* left operand is in A and the right one in T, where the two-operand      *)
(* constraints of the instructions want them; copies the register          *)
(* allocator inserts for tied operands are RMO instructions.               *)
(***************************************************************************)
EXTENDS SICMachine

CONSTANTS
  Operations,   (* the DAG nodes to select                                    *)
  Operands,     (* the values of the left operand and of a register on the right *)
  Constants,    (* the values of a constant right operand                     *)
  Shifts        (* the constant shift amounts                                 *)

ArithOps == {"add", "sub", "mul", "sdiv", "udiv", "srem", "urem", "and", "or", "xor"}
ShiftOps == {"shl", "srl", "sra", "rotl"}
Conds    == {"eq", "ne", "lt", "le", "gt", "ge", "ult", "ule", "ugt", "uge"}

(* setcc and brcond carry the condition; the other nodes are named by op.  *)
Operation == [op : ArithOps \cup ShiftOps, cond : {"none"}]
             \cup [op : {"setcc", "brcond"}, cond : Conds]

ASSUME OperationsAssumption == Operations \subseteq Operation
ASSUME OperandsAssumption   == Operands \subseteq Word /\ Constants \subseteq Word
ASSUME ShiftsAssumption     == Shifts \subseteq 1 .. 23

VARIABLES
  node,     (* the node: its operation, operands, and whether rhs is constant *)
  code,     (* the instructions that were selected                           *)
  pc,       (* the next instruction, 0 before selection                      *)
  regs,     (* the register file                                             *)
  taken     (* a conditional jump left the sequence                          *)

vars == <<node, code, pc, regs, taken>>
-----------------------------------------------------------------------------
(* Immediates: immZExt12, immZExt20 and immSExt24, tried in this order.    *)
FormOf(c) == IF c <= 4095 THEN "#" ELSE IF c <= 1048575 THEN "+#" ELSE "="

(* A constant that no immediate form of the instruction takes goes to T.   *)
Materialize(c) == <<Load("T", c, FormOf(c))>>

SHLMask_wide(n) == 33554431 - ((2^n) - 1)
SHLMask(n) == 16777215 - ((2^n) - 1)
SRLMask(n) == (2^(24 - n)) - 1

Shl(n) == <<RI("SHIFTL", "A", n), Imm("AND", SHLMask(n), "=")>>

(* Three patterns by the size of the mask.  No pattern takes n > 16.       *)
immIn12To16 == 12 .. 16
immIn4To11  == 4 .. 11

SrlForm_wide(n) == IF n \in 11 .. 16 THEN "#"
                   ELSE IF n \in immIn4To11 THEN "+#" ELSE "="
SrlForm(n) == IF n \in immIn12To16 THEN "#"
              ELSE IF n \in immIn4To11 THEN "+#" ELSE "="

Srl(n) == <<RI("SHIFTR", "A", n), Imm("AND", SRLMask(n), SrlForm(n))>>

Sra(n) == <<RI("SHIFTR", "A", n)>>

Rotl(n) == <<RI("SHIFTL", "A", n)>>

(* Operations with a constant, and with a register: AND and OR have no     *)
(* register form and go through MEMREG.  The unsigned division shares the  *)
(* signed instruction.                                                     *)
Mnemonic == [add |-> "ADD", sub |-> "SUB", mul |-> "MUL", sdiv |-> "DIV",
             udiv |-> "DIV", and |-> "AND", or |-> "OR"]
MnemonicR == [add |-> "ADDR", sub |-> "SUBR", mul |-> "MULR", sdiv |-> "DIVR",
              udiv |-> "DIVR", and |-> "ANDMEM", or |-> "ORMEM"]

Arith(op, const, c) ==
  IF const THEN Imm(Mnemonic[op], c, FormOf(c)) ELSE RR(MnemonicR[op], "T", "A")

(* SREM and UREM are expanded: lhs - (lhs / rhs) * rhs, with the division  *)
(* of the same sign, and DIV serves both.                                  *)
Rem(const, c) == <<RR("RMO", "A", "S"), Arith("sdiv", const, c), Arith("mul", const, c),
                    RR("SUBR", "A", "S"), RR("RMO", "S", "A")>>

(* (lhs | rhs) - (lhs & rhs).  OR and AND both overwrite A, so lhs and the *)
(* first result are kept in S and B.                                       *)
Xor(or, and) == <<RR("RMO", "A", "S"), or, RR("RMO", "A", "B"),
                  RR("RMO", "S", "A"), and, RR("SUBR", "A", "B"),
                  RR("RMO", "B", "A")>>

XorOf(const, c) == Xor(Arith("or", const, c), Arith("and", const, c))
-----------------------------------------------------------------------------
(* Comparisons leave LT, EQ or GT in SW; setcc computes 0 or 1 from it.    *)

Compare(const, c) ==
  IF ~const         THEN <<RR("COMPR", "A", "T")>>
  ELSE IF c <= 4095 THEN <<Imm("COMP", c, "#")>>
  ELSE IF c <= 65535 THEN <<Imm("COMP", c, "+#")>>
  ELSE Materialize(c) \o <<RR("COMPR", "A", "T")>>

AddImm(n) == Imm("ADD", n, "#")
AndOne    == Imm("AND", 1, "#")

SetccPats_geShift(cond) ==
  CASE cond = "eq"            -> <<AddImm(192), RI("SHIFTR", "A", 7), AndOne>>
    [] cond = "ne"            -> <<AddImm(64), RI("SHIFTR", "A", 7)>>
    [] cond \in {"lt", "ult"} -> <<RI("SHIFTR", "A", 6), AndOne>>
    [] cond \in {"le", "ule"} -> <<AddImm(128), RI("SHIFTR", "A", 7), AndOne>>
    [] cond \in {"gt", "ugt"} -> <<RI("SHIFTR", "A", 7)>>
    [] cond \in {"ge", "uge"} -> <<AddImm(64), RI("SHIFTR", "A", 7), AndOne>>

SetccPats(cond) ==
  CASE cond = "eq"            -> <<AddImm(192), RI("SHIFTR", "A", 7), AndOne>>
    [] cond = "ne"            -> <<AddImm(64), RI("SHIFTR", "A", 7)>>
    [] cond \in {"lt", "ult"} -> <<RI("SHIFTR", "A", 6), AndOne>>
    [] cond \in {"le", "ule"} -> <<AddImm(128), RI("SHIFTR", "A", 7), AndOne>>
    [] cond \in {"gt", "ugt"} -> <<RI("SHIFTR", "A", 7)>>
    [] cond \in {"ge", "uge"} -> <<AddImm(64), RI("SHIFTR", "A", 6), AndOne>>

Setcc(cond, const, c) ==
  Compare(const, c) \o <<RR("MVSW", "A", "A")>> \o SetccPats(cond)

(* A conditional branch on eq, lt or gt compares registers and jumps;      *)
(* every other condition is computed as a value and compared with 0.       *)
JumpOf_swapped ==
  [eq |-> "JEQ", lt |-> "JLT", ult |-> "JGT", gt |-> "JGT", ugt |-> "JLT"]

JumpOf == [eq |-> "JEQ", lt |-> "JLT", ult |-> "JLT", gt |-> "JGT", ugt |-> "JGT"]

Jump(name) == Instr(name, "SW", "SW", 0, "")

Brcond(cond, const, c) ==
  IF cond \in DOMAIN JumpOf
    THEN (IF const THEN Materialize(c) ELSE <<>>)
         \o <<RR("COMPR", "A", "T"), Jump(JumpOf[cond])>>
    ELSE Setcc(cond, const, c) \o <<Imm("COMP", 0, "#"), Jump("JGT")>>
-----------------------------------------------------------------------------
CodeFor(n) ==
  CASE n.op = "shl" -> Shl(n.rhs)
    [] n.op = "srl" -> Srl(n.rhs)
    [] n.op = "sra" -> Sra(n.rhs)
    [] n.op \in {"srem", "urem"} -> Rem(n.const, n.rhs)
    [] n.op = "rotl" -> Rotl(n.rhs)
    [] n.op = "xor" -> XorOf(n.const, n.rhs)
    [] n.op = "setcc" -> Setcc(n.cond, n.const, n.rhs)
    [] n.op = "brcond" -> Brcond(n.cond, n.const, n.rhs)
    [] OTHER -> <<Arith(n.op, n.const, n.rhs)>>

NoNode == [op |-> "none", cond |-> "none", lhs |-> 0, rhs |-> 0, const |-> FALSE]

(* The nodes that reach these patterns.  srl has none for more than 16     *)
(* bits; the pattern of "not" takes an xor with all ones; and the combiner *)
(* has made an addition of the subtraction of a constant, and shifts of    *)
(* multiplications and divisions by a power of two.                        *)
PowersOfTwo == LET powers == {2^k : k \in 0 .. 23}
               IN powers \cup {WordMod - p : p \in powers}

Selectable(n) ==
  /\ n.op = "srl" => n.rhs <= 16
  /\ n.op = "xor" /\ n.const => n.rhs # WordMod - 1
  /\ n.op = "sub" => ~n.const
  /\ n.op \in {"mul", "sdiv", "udiv", "srem", "urem"} /\ n.const => n.rhs \notin PowersOfTwo

(* Division by 0 and the overflow of a signed division have no meaning.    *)
Defined(n) ==
  /\ n.op \in {"sdiv", "udiv", "srem", "urem"} => n.rhs # 0
  /\ n.op \in {"sdiv", "srem"} =>
       ~(Signed(n.lhs) = -8388608 /\ Signed(n.rhs) = -1)

Nodes(o) ==
  LET Of(rhs, const) == [op : {o.op}, cond : {o.cond}, lhs : Operands,
                         rhs : rhs, const : {const}]
  IN IF o.op \in ShiftOps THEN Of(Shifts, TRUE)
     ELSE Of(Operands, FALSE) \cup Of(Constants, TRUE)

Select(n) ==
  /\ pc = 0
  /\ Selectable(n)
  /\ Defined(n)
  /\ node' = n
  /\ code' = CodeFor(n)
  /\ pc' = 1
  /\ regs' = [regs EXCEPT !["A"] = n.lhs,
                          !["T"] = IF n.const THEN @ ELSE n.rhs]
  /\ UNCHANGED taken

IsJump(i) == i.name \in {"JEQ", "JLT", "JGT"}

Execute ==
  /\ pc \in 1 .. Len(code)
  /\ ~IsJump(code[pc])
  /\ regs' = Executed(code[pc], regs)
  /\ pc' = pc + 1
  /\ UNCHANGED <<node, code, taken>>

ConditionalJump ==
  /\ pc \in 1 .. Len(code)
  /\ IsJump(code[pc])
  /\ taken' = Jumps(code[pc].name, regs)
  /\ pc' = pc + 1
  /\ UNCHANGED <<node, code, regs>>

Init ==
  /\ node = NoNode
  /\ code = <<>>
  /\ pc = 0
  /\ regs = [r \in Regs |-> 0]
  /\ taken = FALSE

Next ==
  \/ \E o \in Operations : \E n \in Nodes(o) : Select(n)
  \/ Execute
  \/ ConditionalJump

Spec == Init /\ [][Next]_vars
-----------------------------------------------------------------------------
(* What a node means in LLVM IR.                                           *)

Holds(cond, a, b) ==
  CASE cond = "eq"  -> a = b
    [] cond = "ne"  -> a # b
    [] cond = "lt"  -> Signed(a) < Signed(b)
    [] cond = "le"  -> Signed(a) <= Signed(b)
    [] cond = "gt"  -> Signed(a) > Signed(b)
    [] cond = "ge"  -> Signed(a) >= Signed(b)
    [] cond = "ult" -> a < b
    [] cond = "ule" -> a <= b
    [] cond = "ugt" -> a > b
    [] cond = "uge" -> a >= b

(* The value of a node other than brcond, and of the bitwise operations,   *)
(* which are defined by the bits of the result.                            *)
Value(n) ==
  LET a == n.lhs  b == n.rhs
  IN CASE n.op = "add"  -> (a + b) % WordMod
       [] n.op = "sub"  -> (a - b) % WordMod
       [] n.op = "mul"  -> Times(a, b)
       [] n.op = "sdiv" -> Divided(a, b)
       [] n.op = "udiv" -> a \div b
       [] n.op = "srem" -> Wrap(Signed(a) - Quotient(Signed(a), Signed(b)) * Signed(b))
       [] n.op = "urem" -> a % b
       [] n.op = "shl"  -> (a % (2^(24 - b))) * (2^b)
       [] n.op = "rotl" -> ((a % (2^(24 - b))) * (2^b)) + (a \div (2^(24 - b)))
       [] n.op = "srl"  -> a \div (2^b)
       [] n.op = "sra"  -> Wrap(Signed(a) \div (2^b))
       [] n.op = "setcc" -> IF Holds(n.cond, a, b) THEN 1 ELSE 0

Combined(op, x, y) ==
  CASE op = "and" -> x = 1 /\ y = 1
    [] op = "or"  -> x = 1 \/ y = 1
    [] op = "xor" -> x # y

Meaning(n, v) ==
  IF n.op \in {"and", "or", "xor"}
    THEN \A k \in 0 .. 23 : Bit(v, k) = 1 <=> Combined(n.op, Bit(n.lhs, k), Bit(n.rhs, k))
    ELSE v = Value(n)

Done == pc > Len(code) /\ pc # 0

Names == {"LD", "RMO", "ADDR", "SUBR", "MULR", "DIVR", "ADD", "SUB", "MUL", "DIV",
          "AND", "OR", "ANDMEM", "ORMEM", "MVSW", "COMPR", "COMP", "SHIFTL",
          "SHIFTR", "JEQ", "JLT", "JGT"}

(* Every register and operand is a 24-bit word.                            *)
TypeOK ==
  /\ code \in Seq([name : Names, r1 : Regs, r2 : Regs, imm : Word,
                   form : {"", "#", "+#", "=", "shift"}])
  /\ pc \in 0 .. Len(code) + 1
  /\ regs \in [Regs -> Word]
  /\ taken \in BOOLEAN

IsUnsigned(n) ==
  n.op \in {"udiv", "urem"} \/ n.cond \in {"ult", "ule", "ugt", "uge"}

Computed ==
  IF node.op = "brcond" THEN taken = Holds(node.cond, node.lhs, node.rhs)
                        ELSE Meaning(node, regs["A"])

(* When its sequence has run, A holds the value the node has in LLVM IR,   *)
(* and a brcond has jumped exactly when its condition holds, whatever the  *)
(* size and the sign of the operands and the immediate form chosen.        *)
SelectionCorrect == Done /\ ~IsUnsigned(node) => Computed

(* The unsigned nodes share the patterns of the signed ones.  That is right *)
(* as long as no comparison crosses the sign bit and no division has an    *)
(* operand that holds it; for other operands the code computes a different *)
(* value than LLVM IR defines.                                             *)
UnsignedCorrectWhenSignsAgree ==
  LET positive(w) == Signed(w) >= 0
      agree == IF node.op \in {"udiv", "urem"} THEN positive(node.lhs) /\ positive(node.rhs)
               ELSE positive(node.lhs) = positive(node.rhs)
  IN Done /\ IsUnsigned(node) /\ agree => Computed

(* Every operand fits the field of the format the pattern chose: 12 bits,  *)
(* 20 bits, a literal word, or a shift amount of 1 to 16.                  *)
OperandsFit == \A i \in 1 .. Len(code) : OperandFits(code[i])
=============================================================================
