----------------------------- MODULE SICMachine -----------------------------
(***************************************************************************)
(* The SIC/XE instructions the backend emits, as functions on the register *)
(* file.  The machine is not part of the repository: the operations are    *)
(* those the patterns of SICInstrInfo.td rely on, and the three values of  *)
(* the condition code are the ones that make its setcc formulas right.     *)
(*                                                                         *)
(* A register holds a 24-bit word; a signed number is in two's complement. *)
(* The word MEMREG, through which TempRegInstr moves values between        *)
(* registers that no instruction connects, is the register "MEMREG".       *)
(***************************************************************************)
EXTENDS Integers, Sequences

WordMod == 16777216     \* 2^24
Word == 0 .. WordMod - 1

Wrap(i)   == i % WordMod
Signed(w) == IF w >= WordMod \div 2 THEN w - WordMod ELSE w

GPR  == {"A", "X", "L", "B", "S", "T"}
Regs == GPR \cup {"SW", "MEMREG"}

(* The status word after a comparison.                                     *)
LT == 64      \* 0x40
EQ == 0
GT == 128     \* 0x80

Compared(a, b) == IF Signed(a) < Signed(b) THEN LT
                  ELSE IF a = b THEN EQ ELSE GT

Bit(w, k) == (w \div (2^k)) % 2

(* From the halves of the word, so that no definition recurs: what a       *)
(* recursive one computes cannot be proved.                                *)
And3(a, b)  == LET c(k) == (2^k) * (Bit(a, k) * Bit(b, k)) IN c(0) + c(1) + c(2)
And6(a, b)  == (8 * And3(a \div 8, b \div 8)) + And3(a % 8, b % 8)
And12(a, b) == (64 * And6(a \div 64, b \div 64)) + And6(a % 64, b % 64)
And(a, b)   == (4096 * And12(a \div 4096, b \div 4096)) + And12(a % 4096, b % 4096)

Or(a, b) == a + b - And(a, b)

(* The product modulo 2^24, from 12-bit halves.                            *)
Times(a, b) ==
  LET ah == a \div 4096  al == a % 4096
      bh == b \div 4096  bl == b % 4096
  IN Wrap((al * bl) + (((ah * bl + al * bh) % 4096) * 4096))

(* Division truncates towards zero.                                        *)
Quotient(m, n) ==
  LET Abs(x) == IF x < 0 THEN -x ELSE x
      q == Abs(m) \div Abs(n)
  IN IF (m < 0) = (n < 0) THEN q ELSE -q

Divided(a, b) == Wrap(Quotient(Signed(a), Signed(b)))

(* SHIFTL is circular, SHIFTR repeats the leftmost bit.  Format 2 keeps    *)
(* the amount in four bits, as n - 1.                                      *)
ShiftAmount(n) == ((n - 1) % 16) + 1

RotatedLeft(w, n) == ((w % (2^(24 - n))) * (2^n)) + (w \div (2^(24 - n)))
ShiftedRight(w, n) == Wrap(Signed(w) \div (2^n))
-----------------------------------------------------------------------------
(* Instructions: r1 and r2 are registers, imm an immediate or a literal.   *)
(* form is the prefix and format of the operand: "#" takes 12 bits in      *)
(* format 3, "+#" 20 bits in format 4, "=" any word, "" no operand.        *)

Instr(name, r1, r2, imm, form) ==
  [name |-> name, r1 |-> r1, r2 |-> r2, imm |-> imm, form |-> form]

RR(name, r1, r2)   == Instr(name, r1, r2, 0, "")
RI(name, r, n)     == Instr(name, r, r, n, "shift")
Imm(name, imm, form) == Instr(name, "A", "A", imm, form)
Load(r, imm, form)   == Instr("LD", r, r, imm, form)

OperandFits(i) ==
  /\ i.form = "#"     => i.imm < 2^12
  /\ i.form = "+#"    => i.imm < 2^20
  /\ i.form = "="     => i.imm \in Word
  /\ i.form = "shift" => i.imm \in 1 .. 16

(* The register file after one instruction other than a jump.              *)
Executed(i, regs) ==
  LET v1 == regs[i.r1]
      v2 == regs[i.r2]
      To(r, v)  == [regs EXCEPT ![r] = v]
      Via(r, v) == [regs EXCEPT !["MEMREG"] = v1, ![r] = v]
  IN CASE i.name = "LD"     -> To(i.r1, i.imm)
       [] i.name = "RMO"    -> To(i.r2, v1)
       [] i.name = "ADDR"   -> To(i.r2, Wrap(v2 + v1))
       [] i.name = "SUBR"   -> To(i.r2, Wrap(v2 - v1))
       [] i.name = "MULR"   -> To(i.r2, Times(v2, v1))
       [] i.name = "DIVR"   -> To(i.r2, Divided(v2, v1))
       [] i.name = "ADD"    -> To("A", Wrap(v1 + i.imm))
       [] i.name = "SUB"    -> To("A", Wrap(v1 - i.imm))
       [] i.name = "MUL"    -> To("A", Times(v1, i.imm))
       [] i.name = "DIV"    -> To("A", Divided(v1, i.imm))
       [] i.name = "AND"    -> To("A", And(v1, i.imm))
       [] i.name = "OR"     -> To("A", Or(v1, i.imm))
       [] i.name = "ANDMEM" -> Via("A", And(regs["A"], v1))
       [] i.name = "ORMEM"  -> Via("A", Or(regs["A"], v1))
       [] i.name = "MVSW"   -> [regs EXCEPT !["MEMREG"] = regs["SW"],
                                            ![i.r1] = regs["SW"]]
       [] i.name = "COMPR"  -> To("SW", Compared(v1, v2))
       [] i.name = "COMP"   -> To("SW", Compared(v1, i.imm))
       [] i.name = "SHIFTL" -> To(i.r1, RotatedLeft(v1, ShiftAmount(i.imm)))
       [] i.name = "SHIFTR" -> To(i.r1, ShiftedRight(v1, ShiftAmount(i.imm)))

(* Whether a conditional jump is taken.                                    *)
Jumps(name, regs) ==
  CASE name = "JEQ" -> regs["SW"] = EQ
    [] name = "JLT" -> regs["SW"] = LT
    [] name = "JGT" -> regs["SW"] = GT
=============================================================================
