-------------------------- MODULE SICDelJmp_proofs --------------------------
(***************************************************************************)
(* DelJmp keeps the control flow of functions of any number of blocks: a   *)
(* jump is erased only from the end of its block, where it is the last to  *)
(* be followed, and only when it leads where control falls through to.     *)
(***************************************************************************)
EXTENDS SICDelJmp, SequenceTheorems, WellFoundedInduction, TLAPS

Jumps == [op : {"JMP", "JCC", "RSUB"}, to : Nat]

(* What the steps of the pass preserve and the argument needs.             *)
TypeOK ==
  /\ FI \in Nat \ {0}
  /\ code \in Seq(Seq(Jumps))

(* Jumps are erased one at a time, so a block always has a sequence of     *)
(* them; the endings of the selector are such sequences.                   *)
LEMMA EndingsType ==
  ASSUME NEW n \in Nat, NEW b \in 1 .. n
  PROVE  Endings(b, n) \subseteq Seq(Jumps)
<1> DEFINE jmp == {Jump("JMP", t) : t \in 1 .. n}
           jcc == {Jump("JCC", t) : t \in 1 .. n}
<1>1. jmp \subseteq Jumps /\ jcc \subseteq Jumps /\ Jump("RSUB", 0) \in Jumps
  BY DEF Jump, Jumps
<1>2. \A j \in Jumps : <<j>> \in Seq(Jumps)
  OBVIOUS
<1>3. \A c, j \in Jumps : <<c, j>> \in Seq(Jumps)
  OBVIOUS
<1>4. <<>> \in Seq(Jumps)
  OBVIOUS
<1> HIDE DEF jmp, jcc
<1>5. ASSUME NEW e \in Endings(b, n)
      PROVE  \/ e = <<>> \/ e = <<Jump("RSUB", 0)>>
             \/ \E j \in jmp \cup jcc : e = <<j>>
             \/ \E c \in jcc, j \in jmp : e = <<c, j>>
  BY <1>5 DEF Endings, jmp, jcc
<1>6. QED BY <1>1, <1>2, <1>3, <1>4, <1>5

(* The pass either leaves a block as it is or drops a last jump to next.   *)
LEMMA OneBlock ==
  ASSUME NEW js \in Seq(Jumps), NEW next \in Nat, NEW kept,
         kept = runOnMachineBasicBlock(js, next), kept # js
  PROVE  /\ kept \in Seq(Jumps)
         /\ Len(js) \in Nat \ {0}
         /\ DOMAIN js = 1 .. Len(js)
         /\ DOMAIN kept = DOMAIN js \ {Len(js)}
         /\ \A k \in DOMAIN kept : kept[k] = js[k]
         /\ js[Len(js)] = Jump("JMP", next)
<1>1. js # <<>> /\ js[Len(js)] = Jump("JMP", next)
  BY DEF runOnMachineBasicBlock
<1>2. kept = SubSeq(js, 1, Len(js) - 1)
  BY <1>1 DEF runOnMachineBasicBlock
<1>3. Len(js) \in Nat \ {0} /\ DOMAIN js = 1 .. Len(js)
  BY <1>1, EmptySeq, LenProperties
<1>4. \A k \in 1 .. Len(js) - 1 : js[k] \in Jumps
  BY <1>3, ElementOfSeq
<1>5. /\ SubSeq(js, 1, Len(js) - 1) \in Seq(Jumps)
      /\ Len(SubSeq(js, 1, Len(js) - 1)) = Len(js) - 1
      /\ \A k \in 1 .. Len(js) - 1 : SubSeq(js, 1, Len(js) - 1)[k] = js[k]
  BY <1>3, SubSeqProperties
<1>6. DOMAIN SubSeq(js, 1, Len(js) - 1) = 1 .. Len(js) - 1
  BY <1>5, LenProperties
<1>7. DOMAIN kept = DOMAIN js \ {Len(js)}
  <2>1. 1 .. Len(js) - 1 = (1 .. Len(js)) \ {Len(js)}
    BY <1>3
  <2>2. DOMAIN kept = 1 .. Len(js) - 1
    BY <1>2, <1>6, Zenon
  <2>3. QED BY <1>3, <2>1, <2>2, Zenon
<1>8. \A k \in DOMAIN kept : kept[k] = js[k]
  BY <1>2, <1>5, <1>6
<1>9. QED BY <1>1, <1>2, <1>3, <1>5, <1>7, <1>8, Zenon

(* Control goes to the same block as before: a dropped jump was the last,  *)
(* so either an earlier one is followed, or control falls through to where *)
(* it led.                                                                 *)
LEMMA SameSuccessor ==
  ASSUME NEW js \in Seq(Jumps), NEW kept, NEW b \in Nat, NEW taken \in BOOLEAN,
         kept = runOnMachineBasicBlock(js, b + 1)
  PROVE  Successor(kept, b, taken) = Successor(js, b, taken)
<1>1. CASE kept = js
  BY <1>1
<1>2. CASE kept # js
  <2> DEFINE before == Followed(js, taken)
             after == Followed(kept, taken)
  <2>1. /\ Len(js) \in Nat \ {0}
        /\ DOMAIN js = 1 .. Len(js)
        /\ DOMAIN kept = DOMAIN js \ {Len(js)}
        /\ \A k \in DOMAIN kept : kept[k] = js[k]
        /\ js[Len(js)] = Jump("JMP", b + 1)
    <3>1. kept # js
      BY <1>2
    <3>2. kept = runOnMachineBasicBlock(js, b + 1)
      OBVIOUS
    <3> HIDE DEF before, after
    <3>3. b + 1 \in Nat
      OBVIOUS
    <3>4. QED BY <3>1, <3>2, <3>3, OneBlock
  <2>2. js[Len(js)].op = "JMP" /\ js[Len(js)].to = b + 1
    BY <2>1 DEF Jump
  <2>3. before = after \cup {Len(js)} /\ after = before \ {Len(js)}
    BY <2>1, <2>2 DEF Followed
  <2>4. after \subseteq 1 .. Len(js) - 1
    BY <2>1 DEF Followed
  <2>5. CASE after = {}
    <3>1. before = {Len(js)}
      BY <2>3, <2>5
    <3>2. (CHOOSE k \in before : \A j \in before : k <= j) = Len(js)
      BY <3>1, <2>1
    <3>3. Successor(js, b, taken) = js[Len(js)].to
      BY <3>1, <3>2 DEF Successor
    <3>4. Successor(kept, b, taken) = b + 1
      BY <2>5 DEF Successor
    <3>5. QED BY <3>3, <3>4, <2>2
  <2>6. CASE after # {}
    <3> DEFINE First(S, k) == k \in S /\ \A j \in S : k <= j
    <3>1. \A k : First(after, k) <=> First(before, k)
      BY <2>3, <2>4, <2>6, <2>1
    <3>2. (CHOOSE k : First(after, k)) = (CHOOSE k : First(before, k))
      BY <3>1
    <3>3. PICK m \in after : \A j \in after : m <= j
      <4>1. after \in SUBSET Nat /\ after # {}
        BY <2>4, <2>6
      <4>2. PICK m \in after : \A j \in after : <<j, m>> \notin OpToRel(<, Nat)
        <5> HIDE DEF after
        <5>1. QED BY <4>1, WFMin, NatLessThanWellFounded, Zenon
      <4>3. m \in Nat /\ \A j \in after : j \in Nat /\ ~(j < m)
        BY <4>1, <4>2 DEF OpToRel
      <4>4. QED BY <4>3
    <3>4. First(after, CHOOSE k : First(after, k))
      BY <3>3
    <3>5. (CHOOSE k : First(after, k)) \in DOMAIN kept
      BY <3>4 DEF Followed
    <3>6. kept[CHOOSE k : First(after, k)] = js[CHOOSE k : First(before, k)]
      <4> DEFINE i == CHOOSE k : First(after, k)
      <4>1. i \in DOMAIN kept /\ i = CHOOSE k : First(before, k)
        BY <3>2, <3>5
      <4> HIDE DEF i, before, after, First
      <4>2. kept[i] = js[i]
        BY <4>1, <2>1
      <4>3. QED BY <4>1, <4>2 DEF i
    <3>7. QED BY <3>6, <2>6, <2>3 DEF Successor
  <2>7. QED BY <2>5, <2>6
<1>3. QED BY <1>1, <1>2

(* The steps of the pass.                                                  *)

LEMMA InitType == Init => TypeOK
<1> SUFFICES ASSUME Init PROVE TypeOK
  OBVIOUS
<1>1. PICK n \in 1 .. MaxBlocks :
        code \in {c \in [1 .. n -> UNION {Endings(b, n) : b \in 1 .. n}] :
                    \A b \in 1 .. n : c[b] \in Endings(b, n)}
  BY DEF Init
<1>2. n \in Nat
  BY MaxBlocksAssumption
<1>3. code \in [1 .. n -> Seq(Jumps)]
  BY <1>1, <1>2, EndingsType
<1>4. code \in Seq(Seq(Jumps))
  BY <1>2, <1>3, SeqDef
<1>5. QED BY <1>4 DEF Init, TypeOK

(* What is left of a block are jumps.                                     *)
LEMMA BlockType ==
  ASSUME NEW js \in Seq(Jumps), NEW next \in Nat
  PROVE  runOnMachineBasicBlock(js, next) \in Seq(Jumps)
BY OneBlock

(* A look at a block leaves sequences of jumps.                           *)
LEMMA NextType == TypeOK /\ [Next]_vars => TypeOK'
<1> SUFFICES ASSUME TypeOK, [Next]_vars PROVE TypeOK'
  OBVIOUS
<1>1. CASE Next
  <2>1. code[FI] \in Seq(Jumps) /\ FI \in 1 .. Len(code)
    BY <1>1, ElementOfSeq DEF Next, runOnMachineFunction, TypeOK
  <2>2. code' \in Seq(Seq(Jumps))
    <3>1. code' = [code EXCEPT ![FI] = runOnMachineBasicBlock(code[FI], FI + 1)]
      BY <1>1 DEF Next, runOnMachineFunction
    <3>2. FI + 1 \in Nat
      BY DEF TypeOK
    <3>3. runOnMachineBasicBlock(code[FI], FI + 1) \in Seq(Jumps)
      BY <2>1, <3>2, BlockType
    <3>4. QED BY <2>1, <3>1, <3>3, ExceptSeq DEF TypeOK
  <2>3. FI' \in Nat \ {0}
    BY <1>1 DEF Next, runOnMachineFunction, TypeOK
  <2>4. QED BY <2>2, <2>3 DEF TypeOK
<1>2. CASE UNCHANGED vars
  BY <1>2 DEF vars, TypeOK
<1>3. QED BY <1>1, <1>2

(* A step changes one block, and that keeps its successor.                *)
LEMMA NextKeepsControlFlow ==
  ASSUME TypeOK, Next
  PROVE  \A b \in DOMAIN code, taken \in BOOLEAN :
           Successor(code'[b], b, taken) = Successor(code[b], b, taken)
<1> SUFFICES ASSUME NEW b \in DOMAIN code, NEW taken \in BOOLEAN
             PROVE  Successor(code'[b], b, taken) = Successor(code[b], b, taken)
  OBVIOUS
<1>1. b \in 1 .. Len(code) /\ code[b] \in Seq(Jumps)
  BY LenProperties, ElementOfSeq DEF TypeOK
<1>2. CASE b = FI
  <2>1. code'[b] = runOnMachineBasicBlock(code[b], b + 1)
    BY <1>2 DEF Next, runOnMachineFunction
  <2>2. QED BY <1>1, <2>1, SameSuccessor
<1>3. CASE b # FI
  <2>1. code'[b] = code[b]
    BY <1>3 DEF Next, runOnMachineFunction
  <2>2. QED BY <2>1 DEF Successor
<1>4. QED BY <1>2, <1>3

(* Control goes to the same block after every step of the pass as before   *)
(* it, for functions of any number of blocks.                              *)
THEOREM ControlFlowIsKept == Spec => ControlFlowKept
<1>1. Spec => []TypeOK
  BY InitType, NextType, PTL DEF Spec
<1>2. TypeOK /\ [Next]_vars =>
        [ \A b \in DOMAIN code, taken \in BOOLEAN :
            Successor(code'[b], b, taken) = Successor(code[b], b, taken) ]_vars
  BY NextKeepsControlFlow
<1>3. QED BY <1>1, <1>2, PTL DEF Spec, ControlFlowKept

(* What the pass leaves behind FI. A block keeps at most one JMP from the  *)
(* selector, its last, so after one look at it no useless jump is left.    *)

(* The jumps js of block b end with a jump to the block after it.         *)
Useless(js, b) == js # <<>> /\ js[Len(js)] = Jump("JMP", b + 1)

(* Behind FI no block ends with a useless jump, and from FI on every block *)
(* ends as the selector left it.                                           *)
Walked ==
  /\ FI <= Len(code)
  /\ \A b \in DOMAIN code :
       /\ b < FI => ~Useless(code[b], b)
       /\ b >= FI => code[b] \in Endings(b, Len(code))

(* The forms of an ending, one disjunct each.                              *)
LEMMA EndingForms ==
  ASSUME NEW n \in Nat, NEW b \in 1 .. n, NEW e \in Endings(b, n)
  PROVE  \/ e = <<>>
         \/ e = <<Jump("RSUB", 0)>>
         \/ \E t \in 1 .. n : e = <<Jump("JMP", t)>> \/ e = <<Jump("JCC", t)>>
         \/ \E t, u \in 1 .. n : e = <<Jump("JCC", t), Jump("JMP", u)>>
BY DEF Endings

(* Dropping the useless jump of an ending never brings another to light.   *)
LEMMA OneLookIsEnough ==
  ASSUME NEW n \in Nat, NEW b \in 1 .. n, NEW e \in Endings(b, n)
  PROVE  ~Useless(runOnMachineBasicBlock(e, b + 1), b)
<1>1. CASE ~Useless(e, b)
  BY <1>1 DEF Useless, runOnMachineBasicBlock
<1>2. CASE Useless(e, b)
  <2>1. runOnMachineBasicBlock(e, b + 1) = SubSeq(e, 1, Len(e) - 1)
    BY <1>2 DEF Useless, runOnMachineBasicBlock
  <2>2. \/ \E t \in 1 .. n : e = <<Jump("JMP", t)>>
        \/ \E t, u \in 1 .. n : e = <<Jump("JCC", t), Jump("JMP", u)>>
    BY <1>2, EndingForms DEF Useless, Jump
  <2>3. CASE \E t \in 1 .. n : e = <<Jump("JMP", t)>>
    BY <2>1, <2>3 DEF Useless
  <2>4. CASE \E t, u \in 1 .. n : e = <<Jump("JCC", t), Jump("JMP", u)>>
    <3>1. PICK t, u \in 1 .. n : e = <<Jump("JCC", t), Jump("JMP", u)>>
      BY <2>4
    <3> DEFINE kept == SubSeq(e, 1, Len(e) - 1)
    <3>2. Len(e) = 2 /\ e[1] = Jump("JCC", t)
      BY <3>1
    <3>3. kept = SubSeq(e, 1, 1)
      BY <3>2
    <3>4. e[1] \in Jumps
      BY <3>2 DEF Jump, Jumps
    <3>5. Len(kept) = 1 /\ kept[1] = e[1]
      BY <3>2, <3>3, <3>4, SubSeqProperties
    <3> HIDE DEF kept
    <3>6. kept[Len(kept)].op = "JCC"
      BY <3>2, <3>5 DEF Jump
    <3>7. ~Useless(kept, b)
      BY <3>6 DEF Useless, Jump
    <3>8. QED BY <2>1, <3>7 DEF kept
  <2>5. QED BY <2>2, <2>3, <2>4
<1>3. QED BY <1>1, <1>2

(* No block jumps beyond the last one, so the pass may leave it alone.     *)
LEMMA LastBlockEnds ==
  ASSUME NEW n \in Nat, NEW e \in Endings(n, n), n \in 1 .. n
  PROVE  ~Useless(e, n)
BY EndingForms DEF Useless, Jump

(* At the start nothing lies behind FI, and every block ends as selected. *)
LEMMA InitWalked == Init => Walked
<1> SUFFICES ASSUME Init PROVE Walked
  OBVIOUS
<1>1. PICK n \in 1 .. MaxBlocks :
        code \in {c \in [1 .. n -> UNION {Endings(b, n) : b \in 1 .. n}] :
                    \A b \in 1 .. n : c[b] \in Endings(b, n)}
  BY DEF Init
<1>2. n \in Nat \ {0}
  BY MaxBlocksAssumption
<1>3. code \in Seq(Seq(Jumps)) /\ DOMAIN code = 1 .. n
  BY <1>1, InitType DEF TypeOK
<1>4. Len(code) = n
  BY <1>2, <1>3, LenProperties
<1>5. \A b \in DOMAIN code : code[b] \in Endings(b, n)
  BY <1>1, <1>3
<1>6. FI = 1
  BY DEF Init
<1>7. \A b \in DOMAIN code : ~(b < FI)
  BY <1>2, <1>3, <1>6
<1>8. FI <= Len(code)
  BY <1>2, <1>4, <1>6
<1>9. QED BY <1>4, <1>5, <1>7, <1>8 DEF Walked

(* A look changes only the block at FI, which is behind FI afterwards.    *)
LEMMA NextWalked == TypeOK /\ Walked /\ [Next]_vars => Walked'
<1> SUFFICES ASSUME TypeOK, Walked, [Next]_vars PROVE Walked'
  OBVIOUS
<1>1. CASE Next
  <2> DEFINE n == Len(code)
             kept == runOnMachineBasicBlock(code[FI], FI + 1)
  <2>1. /\ n \in Nat /\ DOMAIN code = 1 .. n
        /\ FI \in 1 .. n /\ FI + 1 <= n /\ FI' = FI + 1
        /\ code' = [code EXCEPT ![FI] = kept]
    BY <1>1, LenProperties DEF Next, runOnMachineFunction, TypeOK
  <2>2. code[FI] \in Seq(Jumps) /\ FI + 1 \in Nat
    BY <2>1, ElementOfSeq DEF TypeOK
  <2>3. kept \in Seq(Jumps)
    BY <2>2, BlockType
  <2>4. Len(code') = n /\ DOMAIN code' = 1 .. n
    <3> HIDE DEF kept
    <3>1. QED BY <2>1, <2>3, ExceptSeq, LenProperties DEF TypeOK
  <2> HIDE DEF n
  <2>5. code[FI] \in Endings(FI, n)
    BY <2>1 DEF Walked, n
  <2>6. ~Useless(kept, FI)
    BY <2>1, <2>5, OneLookIsEnough
  <2> HIDE DEF kept
  <2>7. code'[FI] = kept /\ \A b \in 1 .. n : b # FI => code'[b] = code[b]
    BY <2>1
  <2>8. ASSUME NEW b \in 1 .. n, b < FI' PROVE ~Useless(code'[b], b)
    <3>1. CASE b = FI
      BY <3>1, <2>6, <2>7
    <3>2. CASE b # FI
      <4>1. b < FI
        BY <2>1, <2>8, <3>2
      <4>2. code'[b] = code[b] /\ ~Useless(code[b], b)
        BY <4>1, <3>2, <2>1, <2>7 DEF Walked
      <4>3. QED BY <4>2
    <3>3. QED BY <3>1, <3>2
  <2>9. ASSUME NEW b \in 1 .. n, b >= FI' PROVE code'[b] \in Endings(b, n)
    <3>1. b >= FI /\ b # FI
      BY <2>1, <2>9
    <3>2. QED BY <3>1, <2>1, <2>7 DEF Walked, n
  <2>10. FI' <= n
    BY <2>1
  <2>11. QED BY <2>4, <2>8, <2>9, <2>10 DEF Walked
<1>2. CASE UNCHANGED vars
  BY <1>2 DEF vars, Walked
<1>3. QED BY <1>1, <1>2

(* The part of NoUselessJumpLeft that does not rest on fairness: when the  *)
(* pass is over, no block ends with a jump to the block that follows it.   *)
UselessJumpsGone ==
  FI >= Len(code) => \A b \in DOMAIN code : ~Useless(code[b], b)

(* At the end only the last block is not behind FI.                       *)
LEMMA WalkedToTheEnd == TypeOK /\ Walked => UselessJumpsGone
<1> SUFFICES ASSUME TypeOK, Walked, FI >= Len(code), NEW b \in DOMAIN code
             PROVE  ~Useless(code[b], b)
  BY DEF UselessJumpsGone
<1> DEFINE n == Len(code)
<1>1. n \in Nat /\ DOMAIN code = 1 .. n /\ FI = n
  BY LenProperties DEF TypeOK, Walked
<1>2. CASE b < FI
  BY <1>2 DEF Walked
<1>3. CASE b = n
  <2>1. code[n] \in Endings(n, n)
    BY <1>1, <1>3 DEF Walked
  <2> HIDE DEF n
  <2>2. QED BY <1>1, <1>3, <2>1, LastBlockEnds
<1>4. QED BY <1>1, <1>2, <1>3

(* However many blocks a function has and however they end, one walk over  *)
(* them erases every jump to the next block.                               *)
THEOREM NothingUselessIsLeft == Spec => []UselessJumpsGone
<1>1. Init => TypeOK /\ Walked
  BY InitType, InitWalked
<1>2. TypeOK /\ Walked /\ [Next]_vars => (TypeOK /\ Walked)'
  BY NextType, NextWalked
<1>3. QED BY <1>1, <1>2, WalkedToTheEnd, PTL DEF Spec
=============================================================================
