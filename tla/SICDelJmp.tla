----------------------------- MODULE SICDelJmp -----------------------------
(***************************************************************************)
(* The last pass before emission, DelJmp of SICDelUselessJMP.cpp: it walks *)
(* the basic blocks in layout order with an iterator FI and its successor  *)
(* FJ, and erases the last instruction of FI when it is a JMP to FJ.       *)
(* Only the jumps of a block are kept here.                                *)
(***************************************************************************)
EXTENDS Integers, Sequences

CONSTANT MaxBlocks      (* bound: basic blocks of a function                *)

ASSUME MaxBlocksAssumption == MaxBlocks \in Nat \ {0}

VARIABLES
  code,    (* the jumps that end each block                                 *)
  FI       (* the block the pass looks at next                              *)

vars == <<code, FI>>

(* JCC is a JEQ, JLT or JGT; RSUB returns.                                 *)
Jump(op, to) == [op |-> op, to |-> to]

(* How the selector ends a block of n: it falls through, which the last    *)
(* block may not, jumps, branches, or returns.                             *)
Endings(b, n) ==
  LET jmp == {Jump("JMP", t) : t \in 1 .. n}
      jcc == {Jump("JCC", t) : t \in 1 .. n}
  IN {<<Jump("RSUB", 0)>>} \cup {<<j>> : j \in jmp}
     \cup {<<c, j>> : c \in jcc, j \in jmp}
     \cup (IF b < n THEN {<<>>} \cup {<<c>> : c \in jcc} ELSE {})
-----------------------------------------------------------------------------
runOnMachineBasicBlock_anyTarget(js, next) ==
  IF js # <<>> /\ js[Len(js)].op = "JMP"
    THEN SubSeq(js, 1, Len(js) - 1) ELSE js

runOnMachineBasicBlock(js, next) ==
  IF js # <<>> /\ js[Len(js)] = Jump("JMP", next)
    THEN SubSeq(js, 1, Len(js) - 1) ELSE js

(* FJ is the block after FI; the pass ends when there is none.             *)
runOnMachineFunction_skipsLast ==
  /\ FI + 1 < Len(code)
  /\ code' = [code EXCEPT ![FI] = runOnMachineBasicBlock(code[FI], FI + 1)]
  /\ FI' = FI + 1

runOnMachineFunction ==
  /\ FI + 1 <= Len(code)
  /\ code' = [code EXCEPT ![FI] = runOnMachineBasicBlock(code[FI], FI + 1)]
  /\ FI' = FI + 1

Init ==
  /\ FI = 1
  /\ \E n \in 1 .. MaxBlocks :
       code \in {c \in [1 .. n -> UNION {Endings(b, n) : b \in 1 .. n}] :
                   \A b \in 1 .. n : c[b] \in Endings(b, n)}

Next == runOnMachineFunction

Spec == Init /\ [][Next]_vars /\ WF_vars(Next)
-----------------------------------------------------------------------------
(* Where control goes after block b when its condition is taken or not:    *)
(* where the first jump that is followed leads, or to the next block; 0 is *)
(* the return.                                                             *)
Followed(js, taken) == {k \in DOMAIN js : taken \/ js[k].op # "JCC"}

Successor(js, b, taken) ==
  LET followed == Followed(js, taken)
  IN IF followed = {} THEN b + 1
     ELSE js[CHOOSE k \in followed : \A j \in followed : k <= j].to

(* Erasing a jump never changes where control goes from any block.         *)
ControlFlowKept ==
  [][ \A b \in DOMAIN code, taken \in BOOLEAN :
        Successor(code'[b], b, taken) = Successor(code[b], b, taken) ]_vars

(* The pass ends, and then no block ends with a jump to the block that     *)
(* follows it.                                                             *)
NoUselessJumpLeft ==
  <>[](\A b \in DOMAIN code :
         code[b] = <<>> \/ code[b][Len(code[b])] # Jump("JMP", b + 1))
=============================================================================
