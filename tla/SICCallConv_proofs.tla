------------------------ MODULE SICCallConv_proofs ------------------------
(***************************************************************************)
(* Proofs about SICCallConv.  The argument: caller and callee give         *)
(* argument i the slot that Assign computes from End(i - 1), the end of    *)
(* the slot before it, so their slots agree; Assign never goes back, so    *)
(* slots are disjoint and lie below CALLSEQ_START's operand; and a store   *)
(* to one slot therefore keeps what the stores to the others have done.    *)
(***************************************************************************)
EXTENDS SICCallConv, TLAPS

(* The bytes Assign reserves for an argument.                              *)
Reserved(a) == IF a.byval THEN alignTo(a.size, regSize) ELSE a.size

(* The offset CCState has reached after argument i.                        *)
EndOf(ls, as, i) == IF i = 0 THEN 0 ELSE ls[i] + Reserved(as[i])
-----------------------------------------------------------------------------
(* alignTo returns a number at or above its argument, and less than one    *)
(* alignment above it.                                                     *)
LEMMA alignToBounds ==
  ASSUME NEW v \in Nat, NEW a \in Alignments
  PROVE  /\ alignTo(v, a) \in Nat
         /\ v <= alignTo(v, a)
         /\ alignTo(v, a) < v + a
<1>1. CASE a = 1  BY <1>1, SMT DEF alignTo
<1>2. CASE a = 2  BY <1>2, SMT DEF alignTo
<1>3. CASE a = 4  BY <1>3, SMT DEF alignTo
<1>4. CASE a = 8  BY <1>4, SMT DEF alignTo
<1>5. CASE a = 16 BY <1>5, SMT DEF alignTo
<1>6. QED BY <1>1, <1>2, <1>3, <1>4, <1>5 DEF Alignments

(* Whatever its kind, an argument gets a slot that starts at or after the  *)
(* offset reached so far and reserves at least the bytes of the argument.  *)
LEMMA AssignBounds ==
  ASSUME NEW o \in Nat, NEW a \in ArgType
  PROVE  /\ Assign(o, a).offset \in Nat
         /\ o <= Assign(o, a).offset
         /\ Assign(o, a).next = Assign(o, a).offset + Reserved(a)
         /\ Reserved(a) \in Nat
         /\ a.size <= Reserved(a)
         /\ Assign(o, a).next \in Nat
<1>1. a.size \in Nat \ {0} /\ a.align \in Alignments /\ a.byval \in BOOLEAN
  BY DEF ArgType
<1>2. CASE a.byval
  <2> DEFINE al == Smaller(Larger(a.align, regSize), 2 * regSize)
  <2>1. al \in Alignments
    BY <1>1 DEF Smaller, Larger, regSize, Alignments
  <2>2. regSize \in Alignments
    BY DEF regSize, Alignments
  <2>3. alignTo(a.size, regSize) \in Nat /\ a.size <= alignTo(a.size, regSize)
    BY <1>1, <2>2, alignToBounds
  <2>4. alignTo(o, al) \in Nat /\ o <= alignTo(o, al)
    BY <2>1, alignToBounds
  <2>5. Assign(o, a) = [offset |-> alignTo(o, al),
                        next |-> alignTo(o, al) + alignTo(a.size, regSize)]
    BY <1>2 DEF Assign, handleByValArg
  <2>6. Reserved(a) = alignTo(a.size, regSize)
    BY <1>2 DEF Reserved
  <2> HIDE DEF al
  <2>7. QED BY <2>3, <2>4, <2>5, <2>6
<1>3. CASE ~a.byval
  <2>1. alignTo(o, a.align) \in Nat /\ o <= alignTo(o, a.align)
    BY <1>1, alignToBounds
  <2>2. Assign(o, a) = [offset |-> alignTo(o, a.align),
                        next |-> alignTo(o, a.align) + a.size]
    BY <1>3 DEF Assign, CC_SICS32
  <2>3. Reserved(a) = a.size
    BY <1>3 DEF Reserved
  <2>4. QED BY <1>1, <2>1, <2>2, <2>3
<1>4. QED BY <1>2, <1>3
(* The layout reserves a call frame, and enough for the operands of memcpy *)
(* when a copy needs a call.                                               *)
LEMMA ReservedForBounds ==
  ASSUME NEW frame \in Nat
  PROVE  /\ ReservedFor(frame) \in Nat
         /\ frame <= ReservedFor(frame)
         /\ \A i \in 1 .. Len(args) : NeedsCall(args[i]) => 12 <= ReservedFor(frame)
<1>1. MemcpyFrame \in Nat /\ 12 <= MemcpyFrame
  BY alignToBounds DEF MemcpyFrame, stackAlignment, Alignments
<1>2. QED BY <1>1 DEF ReservedFor, Larger

(* What the layout of the caller reserves for this call.                   *)
Reserve == ReservedFor(callFrame)

LEMMA ReserveKept ==
  ASSUME UNCHANGED <<args, callFrame>>
  PROVE  Reserve' = Reserve
BY DEF Reserve, ReservedFor

LEMMA ReserveBounds ==
  ASSUME callFrame \in Nat
  PROVE  /\ Reserve \in Nat
         /\ callFrame <= Reserve
         /\ \A i \in 1 .. Len(args) : NeedsCall(args[i]) => 12 <= Reserve
BY ReservedForBounds DEF Reserve
-----------------------------------------------------------------------------
(* The inductive invariant.                                                *)

(* What the phases have done.                                              *)
Phases ==
  /\ phase = "operands" => stackOffset = EndOf(locs, args, Len(args)) /\ nested = NoCall
  /\ phase \in {"operands", "entry"} => formals = <<>> /\ nested = NoCall
  /\ phase = "formals" => stackOffset = EndOf(locs, args, Len(formals)) /\ nested = NoCall
  /\ phase \in {"store", "called"} => Len(formals) = Len(args)
  /\ phase = "called" => todo = {} /\ nested = NoCall

(* Each slot follows from the end of the one before.                       *)
LocsFollow ==
  \A i \in 1 .. Len(args) : locs[i] = Assign(EndOf(locs, args, i - 1), args[i]).offset

SlotsOrdered ==
  \A i, j \in 1 .. Len(args) :
    i < j => locs[i] + Reserved(args[i]) <= locs[j]

SlotsInFrame ==
  \A i \in 1 .. Len(args) :
    /\ phase = "operands" => locs[i] + Reserved(args[i]) <= stackOffset
    /\ phase # "operands" => locs[i] + Reserved(args[i]) <= callFrame

FormalsAgree ==
  \A i \in 1 .. Len(formals) :
    formals[i] = [offset |-> locs[i], size |-> args[i].size]

NestedLarge ==
  nested # NoCall =>
    /\ nested.arg \in 1 .. Len(args)
    /\ NeedsCall(args[nested.arg])

AreaShape ==
  phase # "operands" => DOMAIN area = 0 .. Reserve + ObjectBytes - 1

Layout ==
  /\ TypeOK
  /\ Phases
  /\ LocsFollow
  /\ SlotsOrdered
  /\ SlotsInFrame
  /\ FormalsAgree
  /\ NestedLarge
  /\ AreaShape
-----------------------------------------------------------------------------
(* Init establishes the invariant.                                         *)
LEMMA InitLayout == Init => Layout
<1> SUFFICES ASSUME Init PROVE Layout
  OBVIOUS
<1>1. args = <<>> /\ formals = <<>> /\ locs = <<>> /\ Len(args) = 0
      /\ Len(formals) = 0 /\ Len(locs) = 0
  BY DEF Init
<1>2. TypeOK
  <2>1. <<>> \in Seq(ArgType) /\ <<>> \in Seq(Nat)
        /\ <<>> \in Seq([offset : Nat, size : Nat \ {0}])
    OBVIOUS
  <2>2. nested \in [arg : 0 .. Len(args), todo : SUBSET MemcpySlots]
    BY <1>1 DEF Init, NoCall
  <2>3. stackOffset \in Nat /\ callFrame \in Nat /\ todo = {}
        /\ phase = "operands" /\ argInfo \in [size : Nat, byval : BOOLEAN]
    BY DEF Init, InitialOffset
  <2>4. QED BY <1>1, <2>1, <2>2, <2>3 DEF TypeOK
<1>3. Phases
  BY <1>1 DEF Init, Phases, EndOf, InitialOffset
<1>4. LocsFollow /\ SlotsOrdered /\ SlotsInFrame /\ FormalsAgree
  BY <1>1 DEF LocsFollow, SlotsOrdered, SlotsInFrame, FormalsAgree
<1>5. NestedLarge /\ AreaShape
  BY DEF Init, NestedLarge, AreaShape
<1>6. QED BY <1>2, <1>3, <1>4, <1>5 DEF Layout

(* The caller's operands: the new slot starts at or after the end of every *)
(* slot so far.                                                            *)
LEMMA OperandLayout ==
  ASSUME Layout, NEW a \in ArgTypes, analyzeCallOperand(a)
  PROVE  Layout'
<1>a. PICK slot : slot = Assign(stackOffset, a)
  OBVIOUS
<1>b. PICK n : n = Len(args)
  OBVIOUS
<1>1. a \in ArgType
  BY ArgTypesAssumption
<1>2. /\ args \in Seq(ArgType) /\ locs \in Seq(Nat) /\ Len(locs) = n
      /\ n \in Nat /\ stackOffset \in Nat
  BY <1>b DEF Layout, TypeOK
<1>3. /\ slot.offset \in Nat
      /\ stackOffset <= slot.offset
      /\ slot.next = slot.offset + Reserved(a)
      /\ Reserved(a) \in Nat
      /\ slot.next \in Nat
  BY <1>a, <1>1, <1>2, AssignBounds
<1>4. /\ phase = "operands" /\ phase' = phase
      /\ args' = Append(args, a)
      /\ locs' = Append(locs, slot.offset)
      /\ stackOffset' = slot.next
      /\ formals' = formals /\ callFrame' = callFrame /\ argInfo' = argInfo
      /\ todo' = todo /\ nested' = nested /\ area' = area
  BY <1>a DEF analyzeCallOperand
<1>5. formals = <<>> /\ stackOffset = EndOf(locs, args, n) /\ nested = NoCall
  BY <1>b, <1>4 DEF Layout, Phases
<1>6. /\ args' \in Seq(ArgType) /\ locs' \in Seq(Nat)
      /\ Len(args') = n + 1 /\ Len(locs') = n + 1
      /\ \A i \in 1 .. n : args'[i] = args[i] /\ locs'[i] = locs[i]
      /\ args'[n + 1] = a /\ locs'[n + 1] = slot.offset
  BY <1>1, <1>2, <1>3, <1>4, <1>b
<1>7. \A i \in 0 .. n : EndOf(locs', args', i) = EndOf(locs, args, i)
  BY <1>2, <1>6 DEF EndOf
<1>8. TypeOK'
  <2>1. todo' \subseteq 1 .. Len(args')
    BY <1>4, <1>6, <1>2, <1>b DEF Layout, TypeOK
  <2>2. nested' \in [arg : 0 .. Len(args'), todo : SUBSET MemcpySlots]
    BY <1>4, <1>5, <1>6, <1>2 DEF NoCall
  <2>3. /\ phase' \in {"operands", "entry", "formals", "store", "called"}
        /\ callFrame' \in Nat
        /\ argInfo' \in [size : Nat, byval : BOOLEAN]
        /\ formals' \in Seq([offset : Nat, size : Nat \ {0}])
    BY <1>4 DEF Layout, TypeOK
  <2>4. Len(formals') <= Len(args')
    BY <1>4, <1>5, <1>6, <1>2
  <2>5. stackOffset' \in Nat
    BY <1>3, <1>4
  <2>6. QED BY <1>6, <2>1, <2>2, <2>3, <2>4, <2>5 DEF TypeOK
<1>9. Phases'
  <2>1. EndOf(locs', args', n + 1) = slot.offset + Reserved(a)
    BY <1>2, <1>6 DEF EndOf
  <2>2. stackOffset' = EndOf(locs', args', Len(args'))
    BY <2>1, <1>3, <1>4, <1>6
  <2>3. Phases' <=>
          /\ phase' = "operands" =>
               stackOffset' = EndOf(locs', args', Len(args')) /\ nested' = NoCall
          /\ phase' \in {"operands", "entry"} => formals' = <<>> /\ nested' = NoCall
          /\ phase' = "formals" =>
               stackOffset' = EndOf(locs', args', Len(formals')) /\ nested' = NoCall
          /\ phase' \in {"store", "called"} => Len(formals') = Len(args')
          /\ phase' = "called" => todo' = {} /\ nested' = NoCall
    BY DEF Phases, EndOf, Reserved, alignTo, regSize, NoCall
  <2>4. QED BY <2>2, <2>3, <1>4, <1>5
<1>10. LocsFollow'
  <2> SUFFICES ASSUME NEW i \in 1 .. n + 1
               PROVE  locs'[i] = Assign(EndOf(locs', args', i - 1), args'[i]).offset
    BY <1>6 DEF LocsFollow, Assign, CC_SICS32, handleByValArg, alignTo, Larger,
                Smaller, regSize, EndOf, Reserved
  <2>1. i - 1 \in 0 .. n
        /\ EndOf(locs', args', i - 1) = EndOf(locs, args, i - 1)
    BY <1>2, <1>7
  <2>2. CASE i = n + 1
    BY <2>1, <2>2, <1>2, <1>5, <1>6, <1>a
  <2>3. CASE i \in 1 .. n
    BY <2>1, <2>3, <1>6, <1>b DEF Layout, LocsFollow
  <2>4. QED BY <2>2, <2>3, <1>2
<1>11. \A i \in 1 .. n : /\ Reserved(args[i]) \in Nat /\ locs[i] \in Nat
                         /\ locs[i] + Reserved(args[i]) <= stackOffset
  BY <1>2, <1>4, AssignBounds, <1>b DEF Layout, SlotsInFrame
<1>12. SlotsOrdered'
  <2> SUFFICES ASSUME NEW i \in 1 .. n + 1, NEW j \in 1 .. n + 1, i < j
               PROVE  locs'[i] + Reserved(args'[i]) <= locs'[j]
    BY <1>6 DEF SlotsOrdered, Reserved, alignTo, regSize
  <2>1. i \in 1 .. n
    BY <1>2
  <2>2. CASE j = n + 1
    <3>1. locs'[i] = locs[i] /\ args'[i] = args[i] /\ locs'[j] = slot.offset
      BY <2>1, <2>2, <1>6
    <3>2. /\ Reserved(args[i]) \in Nat /\ locs[i] \in Nat
          /\ locs[i] + Reserved(args[i]) <= stackOffset
      BY <2>1, <1>11
    <3>3. Reserved(args'[i]) = Reserved(args[i])
      BY <3>1
    <3>4. locs[i] + Reserved(args[i]) <= slot.offset
      BY <3>2, <1>2, <1>3
    <3> QED BY <3>1, <3>3, <3>4
  <2>3. CASE j \in 1 .. n
    BY <2>1, <2>3, <1>6, <1>b DEF Layout, SlotsOrdered
  <2>4. QED BY <2>2, <2>3, <1>2
<1>13. SlotsInFrame'
  <2> SUFFICES ASSUME NEW i \in 1 .. n + 1
               PROVE  locs'[i] + Reserved(args'[i]) <= stackOffset'
    BY <1>4, <1>6 DEF SlotsInFrame, Reserved, alignTo, regSize
  <2>1. CASE i = n + 1
    BY <2>1, <1>3, <1>4, <1>6
  <2>2. CASE i \in 1 .. n
    <3>1. locs'[i] = locs[i] /\ args'[i] = args[i]
      BY <2>2, <1>6
    <3>2. /\ Reserved(args[i]) \in Nat /\ locs[i] \in Nat
          /\ locs[i] + Reserved(args[i]) <= stackOffset
      BY <2>2, <1>11
    <3>3. Reserved(args'[i]) = Reserved(args[i])
      BY <3>1
    <3>4. stackOffset \in Nat /\ stackOffset' \in Nat /\ stackOffset <= stackOffset'
      BY <1>2, <1>3, <1>4
    <3>5. locs[i] + Reserved(args[i]) <= stackOffset'
      BY <3>2, <3>4
    <3> QED BY <3>1, <3>3, <3>5
  <2>3. QED BY <2>1, <2>2, <1>2
<1>14. FormalsAgree' /\ NestedLarge' /\ AreaShape'
  BY <1>4, <1>5 DEF FormalsAgree, NestedLarge, AreaShape, NoCall
<1>15. QED BY <1>8, <1>9, <1>10, <1>12, <1>13, <1>14 DEF Layout

(* The slots stay as they are once the operands are assigned.              *)
LEMMA SlotsKept ==
  ASSUME Layout, UNCHANGED <<args, locs>>
  PROVE  LocsFollow' /\ SlotsOrdered'
<1>1. LocsFollow'
  BY DEF Layout, LocsFollow, EndOf, Reserved, Assign, CC_SICS32, handleByValArg,
         alignTo, Larger, Smaller, regSize
<1>2. SlotsOrdered'
  BY DEF Layout, SlotsOrdered, Reserved, alignTo, regSize
<1>3. QED BY <1>1, <1>2

(* Rounding the offset up keeps every slot below the operand of            *)
(* CALLSEQ_START.                                                          *)
LEMMA CallSeqStartLayout ==
  ASSUME Layout, CallSeqStart
  PROVE  Layout'
<1>1. /\ phase = "operands" /\ phase' = "entry"
      /\ callFrame' = alignTo(stackOffset, stackAlignment)
      /\ area' = [b \in 0 .. ReservedFor(callFrame') + ObjectBytes - 1 |->
                   IF b < ReservedFor(callFrame') THEN Unset ELSE Object]
      /\ todo' = 1 .. Len(args)
      /\ args' = args /\ stackOffset' = stackOffset /\ locs' = locs
      /\ formals' = formals /\ argInfo' = argInfo /\ nested' = nested
  BY DEF CallSeqStart
<1>2. TypeOK /\ Phases /\ SlotsInFrame /\ FormalsAgree /\ NestedLarge
  BY DEF Layout
<1>3. callFrame' \in Nat /\ stackOffset <= callFrame'
  BY <1>1, <1>2, alignToBounds DEF TypeOK, stackAlignment, Alignments
<1>4. TypeOK'
  BY <1>1, <1>2, <1>3 DEF TypeOK
<1>5. formals = <<>> /\ nested = NoCall
  BY <1>1, <1>2 DEF Phases
<1>6. Phases'
  BY <1>1, <1>5 DEF Phases, NoCall
<1>7. LocsFollow' /\ SlotsOrdered'
  BY <1>1, SlotsKept
<1>8. SlotsInFrame'
  <2> SUFFICES ASSUME NEW i \in 1 .. Len(args)
               PROVE  locs[i] + Reserved(args[i]) <= callFrame'
    BY <1>1 DEF SlotsInFrame, Reserved, alignTo, regSize
  <2>1. locs[i] + Reserved(args[i]) <= stackOffset
    BY <1>1, <1>2 DEF SlotsInFrame
  <2>2. locs[i] \in Nat /\ args[i] \in ArgType /\ stackOffset \in Nat
    BY <1>2 DEF TypeOK
  <2>3. Reserved(args[i]) \in Nat
    BY <2>2, AssignBounds
  <2>4. QED BY <1>3, <2>1, <2>2, <2>3
<1>9. FormalsAgree' /\ NestedLarge' /\ AreaShape'
  <2>1. FormalsAgree' /\ NestedLarge'
    BY <1>1, <1>2, <1>5 DEF FormalsAgree, NestedLarge, NoCall
  <2>2. Reserve' = ReservedFor(callFrame')
    BY <1>1 DEF Reserve, ReservedFor
  <2>3. DOMAIN area' = 0 .. ReservedFor(callFrame') + ObjectBytes - 1
    BY <1>1, Zenon
  <2>4. QED BY <2>1, <2>2, <2>3 DEF AreaShape
<1>10. QED BY <1>4, <1>6, <1>7, <1>8, <1>9 DEF Layout

(* A step that changes neither the operands nor the call frame.            *)
LEMMA FrameKept ==
  ASSUME Layout, UNCHANGED <<args, locs, callFrame>>,
         phase # "operands", phase' # "operands"
  PROVE  SlotsInFrame'
<1>1. SlotsInFrame
  BY DEF Layout
<1>2. QED BY <1>1 DEF SlotsInFrame, Reserved, alignTo, regSize

(* The callee's arguments start from the same offset and see the same      *)
(* arguments, so its offsets are the caller's.                             *)
LEMMA CalleeLayout ==
  ASSUME Layout, LowerFormalArguments \/ analyzeFormalArgument \/ FormalsDone
  PROVE  Layout'
<1>1. TypeOK /\ Phases /\ LocsFollow /\ FormalsAgree /\ NestedLarge /\ AreaShape
  BY DEF Layout
<1>2. /\ args' = args /\ locs' = locs /\ callFrame' = callFrame
      /\ todo' = todo /\ nested' = nested /\ area' = area
      /\ phase \in {"entry", "formals"} /\ phase' \in {"formals", "store"}
  BY DEF LowerFormalArguments, analyzeFormalArgument, FormalsDone, analysis
<1>3. LocsFollow' /\ SlotsOrdered' /\ SlotsInFrame'
  BY <1>2, SlotsKept, FrameKept
<1>4. nested = NoCall /\ nested' = NoCall
  BY <1>1, <1>2 DEF Phases
<1>5. NestedLarge' /\ AreaShape'
  BY <1>1, <1>2, <1>4, ReserveKept DEF NestedLarge, AreaShape, NoCall
<1>6. Phases' <=>
        /\ phase' = "operands" =>
             stackOffset' = EndOf(locs', args', Len(args')) /\ nested' = NoCall
        /\ phase' \in {"operands", "entry"} => formals' = <<>> /\ nested' = NoCall
        /\ phase' = "formals" =>
             stackOffset' = EndOf(locs', args', Len(formals')) /\ nested' = NoCall
        /\ phase' \in {"store", "called"} => Len(formals') = Len(args')
        /\ phase' = "called" => todo' = {} /\ nested' = NoCall
  BY DEF Phases, EndOf, Reserved, alignTo, regSize, NoCall
<1>7. CASE LowerFormalArguments
  <2>1. /\ phase = "entry" /\ phase' = "formals" /\ stackOffset' = 0
        /\ argInfo' = [size |-> 0, byval |-> FALSE] /\ formals' = formals
    BY <1>7 DEF LowerFormalArguments, InitialOffset
  <2>2. formals = <<>>
    BY <1>1, <2>1 DEF Phases
  <2>3. Phases'
    <3>1. EndOf(locs', args', Len(formals')) = 0
      BY <2>1, <2>2 DEF EndOf
    <3>2. QED BY <1>4, <1>6, <2>1, <3>1
  <2>4. TypeOK'
    BY <1>1, <1>2, <2>1 DEF TypeOK
  <2>5. FormalsAgree'
    BY <2>1, <2>2 DEF FormalsAgree
  <2>6. QED BY <1>3, <1>5, <2>3, <2>4, <2>5 DEF Layout
<1>8. CASE analyzeFormalArgument
  <2>1. PICK m : m = Len(formals)
    OBVIOUS
  <2>2. PICK slot : slot = Assign(stackOffset, args[m + 1])
    OBVIOUS
  <2>3. /\ phase = "formals" /\ phase' = phase
        /\ m < Len(args)
        /\ formals' = Append(formals, [offset |-> slot.offset,
                                       size |-> args[m + 1].size])
        /\ stackOffset' = slot.next /\ argInfo' = argInfo
    BY <1>8, <2>1, <2>2 DEF analyzeFormalArgument, FormalObject
  <2>4. /\ m \in Nat /\ m + 1 \in 1 .. Len(args) /\ args[m + 1] \in ArgType
        /\ Len(args) \in Nat /\ stackOffset \in Nat
        /\ formals \in Seq([offset : Nat, size : Nat \ {0}])
    BY <1>1, <2>1, <2>3 DEF TypeOK
  <2>5. /\ slot.offset \in Nat /\ slot.next \in Nat
        /\ slot.next = slot.offset + Reserved(args[m + 1])
    BY <2>2, <2>4, AssignBounds
  <2>6. slot.offset = locs[m + 1]
    <3>1. stackOffset = EndOf(locs, args, m)
      BY <1>1, <2>1, <2>3 DEF Phases
    <3>2. locs[m + 1] = Assign(EndOf(locs, args, m + 1 - 1), args[m + 1]).offset
      BY <1>1, <2>4 DEF LocsFollow
    <3>3. m + 1 - 1 = m
      BY <2>4
    <3>4. QED BY <2>2, <3>1, <3>2, <3>3
  <2>7. PICK f : f = [offset |-> slot.offset, size |-> args[m + 1].size]
    OBVIOUS
  <2>8. f \in [offset : Nat, size : Nat \ {0}]
    BY <2>4, <2>5, <2>7 DEF ArgType
  <2>9. /\ formals' \in Seq([offset : Nat, size : Nat \ {0}])
        /\ Len(formals') = m + 1
        /\ \A i \in 1 .. m : formals'[i] = formals[i]
        /\ formals'[m + 1] = f
    BY <2>1, <2>3, <2>4, <2>7, <2>8
  <2>10. TypeOK'
    BY <1>1, <1>2, <2>3, <2>4, <2>5, <2>9 DEF TypeOK
  <2>11. Phases'
    <3>1. EndOf(locs', args', m + 1) = locs[m + 1] + Reserved(args[m + 1])
      BY <1>2, <2>4 DEF EndOf
    <3>2. stackOffset' = EndOf(locs', args', Len(formals'))
      BY <2>3, <2>5, <2>6, <2>9, <3>1
    <3>3. QED BY <1>4, <1>6, <2>3, <3>2
  <2>12. FormalsAgree'
    <3> SUFFICES ASSUME NEW i \in 1 .. m + 1
                 PROVE  formals'[i] = [offset |-> locs[i], size |-> args[i].size]
      BY <1>2, <2>9 DEF FormalsAgree
    <3>1. CASE i = m + 1
      BY <3>1, <2>6, <2>7, <2>9
    <3>2. CASE i \in 1 .. m
      BY <3>2, <1>1, <2>1, <2>9 DEF FormalsAgree
    <3>3. QED BY <3>1, <3>2, <2>4
  <2>13. QED BY <1>3, <1>5, <2>10, <2>11, <2>12 DEF Layout
<1>9. CASE FormalsDone
  <2>1. /\ phase' = "store" /\ Len(formals) = Len(args) /\ formals' = formals
        /\ stackOffset' = stackOffset /\ argInfo' = argInfo
    BY <1>9 DEF FormalsDone, analysis
  <2>2. TypeOK'
    BY <1>1, <1>2, <2>1 DEF TypeOK
  <2>3. Phases'
    BY <1>2, <1>4, <1>6, <2>1
  <2>4. FormalsAgree'
    BY <1>1, <1>2, <2>1 DEF FormalsAgree
  <2>5. QED BY <1>3, <1>5, <2>2, <2>3, <2>4 DEF Layout
<1>10. QED BY <1>7, <1>8, <1>9

(* The stores change bytes of the area only.                               *)
LEMMA StoreLayout ==
  ASSUME Layout,
         \/ \E i \in todo : passArgOnStack(i) \/ passByValArg(i)
         \/ \E s \in nested.todo : MemcpyOperand(s)
         \/ MemcpyCall
         \/ JmpLink
  PROVE  Layout'
<1>1. TypeOK /\ Phases /\ FormalsAgree /\ NestedLarge /\ AreaShape
  BY DEF Layout
<1>2. /\ args' = args /\ locs' = locs /\ callFrame' = callFrame
      /\ formals' = formals /\ argInfo' = argInfo /\ stackOffset' = stackOffset
  BY DEF passArgOnStack, passByValArg, MemcpyOperand, MemcpyCall, JmpLink, analysis
<1>3. FormalsAgree'
  BY <1>1, <1>2 DEF FormalsAgree
<1>4. nested \in [arg : 0 .. Len(args), todo : SUBSET MemcpySlots]
  BY <1>1 DEF TypeOK
<1>5. phase = "store"
  <2>1. CASE nested # NoCall
    BY <1>1, <2>1 DEF Phases, TypeOK
  <2>2. CASE nested = NoCall
    <3>1. nested.todo = {}
      BY <2>2 DEF NoCall
    <3>2. QED BY <2>2, <3>1 DEF passArgOnStack, passByValArg, MemcpyCall, JmpLink
  <2>3. QED BY <2>1, <2>2
<1>6. phase' \in {"store", "called"}
  BY <1>5 DEF passArgOnStack, passByValArg, MemcpyOperand, MemcpyCall, JmpLink
<1>7. LocsFollow' /\ SlotsOrdered' /\ SlotsInFrame'
  BY <1>2, <1>5, <1>6, SlotsKept, FrameKept
<1>8. DOMAIN area' = DOMAIN area
  BY DEF passArgOnStack, passByValArg, MemcpyOperand, MemcpyCall, JmpLink, Written
<1>9. AreaShape'
  BY <1>1, <1>2, <1>5, <1>8, ReserveKept DEF AreaShape
<1>10. todo' \subseteq todo
  BY DEF passArgOnStack, passByValArg, MemcpyOperand, MemcpyCall, JmpLink
<1>11. /\ nested' \in [arg : 0 .. Len(args), todo : SUBSET MemcpySlots]
       /\ NestedLarge'
  <2>1. CASE nested' = nested
    BY <1>1, <1>2, <1>4, <2>1 DEF NestedLarge, NoCall
  <2>2. CASE nested' = NoCall
    BY <2>2, <1>1 DEF NestedLarge, NoCall, TypeOK
  <2>3. ASSUME NEW i \in todo, passByValArg(i)
        PROVE  /\ nested' \in [arg : 0 .. Len(args), todo : SUBSET MemcpySlots]
               /\ NestedLarge'
    <3>1. i \in 1 .. Len(args) /\ NeedsCall(args[i])
      BY <1>1, <2>3 DEF TypeOK, passByValArg
    <3>2. nested' = [arg |-> i, todo |-> MemcpySlots]
      BY <2>3 DEF passByValArg
    <3>3. nested'.arg = i
      BY <3>2
    <3>4. QED BY <1>2, <3>1, <3>2, <3>3 DEF NestedLarge, NoCall
  <2>4. ASSUME NEW s \in nested.todo, MemcpyOperand(s)
        PROVE  /\ nested' \in [arg : 0 .. Len(args), todo : SUBSET MemcpySlots]
               /\ NestedLarge'
    <3>1. nested' = [nested EXCEPT !.todo = @ \ {s}]
      BY <2>4 DEF MemcpyOperand
    <3>2. nested'.arg = nested.arg /\ nested'.todo = nested.todo \ {s}
      BY <1>4, <3>1
    <3>3. nested # NoCall
      BY <2>4 DEF NoCall
    <3>4. nested' \in [arg : 0 .. Len(args), todo : SUBSET MemcpySlots]
      BY <1>4, <3>1
    <3>5. NestedLarge'
      BY <1>1, <1>2, <3>2, <3>3 DEF NestedLarge, NoCall
    <3>6. QED BY <3>4, <3>5
  <2>5. QED BY <2>1, <2>2, <2>3, <2>4
            DEF passArgOnStack, MemcpyCall, JmpLink
<1>12. phase' = "called" => todo' = {} /\ nested' = NoCall
  BY <1>5 DEF passArgOnStack, passByValArg, MemcpyOperand, MemcpyCall, JmpLink
<1>13. Phases'
  BY <1>1, <1>2, <1>5, <1>6, <1>12 DEF Phases, NoCall
<1>14. TypeOK'
  BY <1>1, <1>2, <1>6, <1>10, <1>11 DEF TypeOK
<1>15. QED BY <1>3, <1>7, <1>9, <1>11, <1>13, <1>14 DEF Layout

(* Every step keeps the invariant.                                         *)
LEMMA NextLayout == Layout /\ [Next]_vars => Layout'
<1> SUFFICES ASSUME Layout, [Next]_vars PROVE Layout'
  OBVIOUS
<1>1. CASE UNCHANGED vars
  <2>1. /\ phase' = phase /\ args' = args /\ stackOffset' = stackOffset
        /\ locs' = locs /\ callFrame' = callFrame /\ formals' = formals
        /\ argInfo' = argInfo /\ todo' = todo /\ nested' = nested /\ area' = area
    BY <1>1 DEF vars, analysis
  <2>2. LocsFollow' /\ SlotsOrdered'
    BY <2>1, SlotsKept
  <2>3. TypeOK'
    BY <2>1 DEF Layout, TypeOK
  <2>4. Phases'
    BY <2>1 DEF Layout, Phases, EndOf, Reserved, alignTo, regSize, NoCall
  <2>5. SlotsInFrame'
    BY <2>1 DEF Layout, SlotsInFrame, Reserved, alignTo, regSize
  <2>6. FormalsAgree' /\ NestedLarge' /\ AreaShape'
    BY <2>1, ReserveKept DEF Layout, FormalsAgree, NestedLarge, AreaShape, NoCall
  <2>7. QED BY <2>2, <2>3, <2>4, <2>5, <2>6 DEF Layout
<1>2. QED BY <1>1, OperandLayout, CallSeqStartLayout, CalleeLayout, StoreLayout
          DEF Next

(* The variables of the model keep the shape of their C++ counterparts for *)
(* every set of argument kinds.                                            *)
THEOREM TypeCorrect == Spec => []TypeOK
<1>1. Layout => TypeOK
  BY DEF Layout
<1>2. QED BY <1>1, InitLayout, NextLayout, PTL DEF Spec
-----------------------------------------------------------------------------
(* What a store to slot i changes.                                         *)
LEMMA WrittenBytes ==
  ASSUME NEW from \in Nat, NEW size \in Nat, NEW i,
         area' = Written(from, size, i)
  PROVE  \A b \in DOMAIN area :
           /\ from <= b /\ b < from + size => area'[b] = <<i, b - from>>
           /\ ~(from <= b /\ b < from + size) => area'[b] = area[b]
BY DEF Written

(* A slot lies in the area, and two slots share no byte.                   *)
LEMMA SlotsApart ==
  ASSUME Layout, phase # "operands",
         NEW i \in 1 .. Len(args), NEW k \in 0 .. args[i].size - 1
  PROVE  /\ locs[i] \in Nat /\ args[i].size \in Nat \ {0}
         /\ locs[i] + args[i].size <= callFrame
         /\ callFrame \in Nat
         /\ locs[i] + k \in DOMAIN area
         /\ \A j \in 1 .. Len(args) \ {i} :
              ~(locs[j] <= locs[i] + k /\ locs[i] + k < locs[j] + args[j].size)
<1>1. /\ args \in Seq(ArgType) /\ locs \in Seq(Nat) /\ Len(locs) = Len(args)
      /\ callFrame \in Nat /\ Len(args) \in Nat
  BY DEF Layout, TypeOK
<1>2. \A j \in 1 .. Len(args) :
        /\ locs[j] \in Nat /\ args[j] \in ArgType
        /\ args[j].size \in Nat \ {0}
        /\ Reserved(args[j]) \in Nat /\ args[j].size <= Reserved(args[j])
  <2> SUFFICES ASSUME NEW j \in 1 .. Len(args)
               PROVE  /\ locs[j] \in Nat /\ args[j] \in ArgType
                      /\ args[j].size \in Nat \ {0}
                      /\ Reserved(args[j]) \in Nat
                      /\ args[j].size <= Reserved(args[j])
    OBVIOUS
  <2>1. locs[j] \in Nat /\ args[j] \in ArgType
    BY <1>1
  <2>2. args[j].size \in Nat \ {0}
    BY <2>1 DEF ArgType
  <2>3. QED BY <2>1, <2>2, AssignBounds
<1>3. locs[i] + args[i].size <= callFrame
  <2>1. locs[i] + Reserved(args[i]) <= callFrame
    BY DEF Layout, SlotsInFrame
  <2>2. QED BY <1>1, <1>2, <2>1
<1>4. locs[i] + k \in DOMAIN area
  <2>1. DOMAIN area = 0 .. Reserve + ObjectBytes - 1 /\ ObjectBytes \in Nat
    BY BoundsAssumption DEF Layout, AreaShape
  <2>2. callFrame \in Nat /\ Reserve \in Nat /\ callFrame <= Reserve
    BY ReserveBounds DEF Layout, TypeOK
  <2>3. QED BY <1>1, <1>2, <1>3, <2>1, <2>2
<1>5. ASSUME NEW j \in 1 .. Len(args), j # i
      PROVE  ~(locs[j] <= locs[i] + k /\ locs[i] + k < locs[j] + args[j].size)
  <2>1. CASE i < j
    <3>1. locs[i] + Reserved(args[i]) <= locs[j]
      BY <2>1 DEF Layout, SlotsOrdered
    <3>2. QED BY <1>2, <3>1
  <2>2. CASE j < i
    <3>1. locs[j] + Reserved(args[j]) <= locs[i]
      BY <2>2 DEF Layout, SlotsOrdered
    <3>2. QED BY <1>2, <3>1
  <2>3. QED BY <1>1, <1>5, <2>1, <2>2
<1>6. QED BY <1>1, <1>2, <1>3, <1>4, <1>5

(* The arguments that nested calls cannot reach, and whose stores have run, *)
(* are in their slots.                                                     *)
Safe(i) ==
  \/ \A j \in 1 .. Len(args) : Inline(args[j])
  \/ Inline(args[i]) /\ locs[i] >= 12

Stored ==
  phase # "operands" =>
    \A i \in 1 .. Len(args) \ todo : Safe(i) =>
      \A k \in 0 .. args[i].size - 1 : area[locs[i] + k] = <<i, k>>

(* A store to the slot of argument i completes it and keeps the others.    *)
LEMMA StoreKeepsOthers ==
  ASSUME Layout, Stored, phase # "operands", UNCHANGED <<phase, args, locs>>,
         NEW i \in 1 .. Len(args), todo \ {i} \subseteq todo',
         area' = Written(locs[i], args[i].size, i)
  PROVE  Stored'
<1>1. locs[i] \in Nat /\ args[i] \in ArgType
  BY DEF Layout, TypeOK
<1>2. args[i].size \in Nat
  BY <1>1 DEF ArgType
<1>3. \A b \in DOMAIN area :
        /\ locs[i] <= b /\ b < locs[i] + args[i].size =>
             area'[b] = <<i, b - locs[i]>>
        /\ ~(locs[i] <= b /\ b < locs[i] + args[i].size) => area'[b] = area[b]
  BY <1>1, <1>2, WrittenBytes
<1>4. ASSUME NEW j \in 1 .. Len(args), j \notin todo', Safe(j),
             NEW k \in 0 .. args[j].size - 1
      PROVE  area'[locs[j] + k] = <<j, k>>
  <2>1. /\ locs[j] \in Nat /\ args[j].size \in Nat \ {0}
        /\ locs[j] + k \in DOMAIN area
        /\ \A l \in 1 .. Len(args) \ {j} :
             ~(locs[l] <= locs[j] + k /\ locs[j] + k < locs[l] + args[l].size)
    BY SlotsApart
  <2>2. CASE j = i
    <3>1. PICK b : b = locs[i] + k
      OBVIOUS
    <3>2. b \in DOMAIN area
      BY <2>1, <2>2, <3>1
    <3>3. locs[i] <= b /\ b < locs[i] + args[i].size /\ b - locs[i] = k
      BY <1>1, <1>2, <2>2, <3>1
    <3>4. area'[b] = <<i, b - locs[i]>>
      BY <1>3, <3>2, <3>3, Zenon
    <3>5. QED BY <2>2, <3>1, <3>3, <3>4
  <2>3. CASE j # i
    <3>1. ~(locs[i] <= locs[j] + k /\ locs[j] + k < locs[i] + args[i].size)
      BY <2>1, <2>3
    <3>2. area'[locs[j] + k] = area[locs[j] + k]
      BY <1>3, <2>1, <3>1
    <3>3. j \notin todo
      BY <1>4, <2>3
    <3>4. area[locs[j] + k] = <<j, k>>
      BY <1>4, <3>3 DEF Stored
    <3>5. QED BY <3>2, <3>4
  <2>4. QED BY <2>2, <2>3
<1>5. QED BY <1>4 DEF Stored, Safe

(* A step that stores nothing, and after which no argument out of reach    *)
(* counts as stored that did not before.                                   *)
LEMMA NoStore ==
  ASSUME Stored, UNCHANGED <<args, locs, area>>,
         phase # "operands" \/ phase' = phase,
         \A i \in 1 .. Len(args) : Safe(i) => (i \in todo => i \in todo')
  PROVE  Stored'
BY DEF Stored, Safe

(* Every step of a call, with or without nested calls.                     *)
LEMMA NextStored ==
  ASSUME Layout, Stored, [Next]_vars
  PROVE  Stored'
<1>1. TypeOK /\ Phases /\ NestedLarge
  BY DEF Layout
<1>2. ASSUME NEW a \in ArgTypes, analyzeCallOperand(a)
      PROVE  Stored'
  BY <1>2 DEF analyzeCallOperand, Stored
<1>3. CASE CallSeqStart
  BY <1>3 DEF CallSeqStart, Stored
<1>4. CASE LowerFormalArguments \/ analyzeFormalArgument \/ FormalsDone \/ JmpLink
  BY <1>4, NoStore DEF LowerFormalArguments, analyzeFormalArgument, FormalsDone, JmpLink,
                       analysis
<1>5. ASSUME NEW i \in todo, passArgOnStack(i)
      PROVE  Stored'
  <2>1. /\ phase = "store" /\ UNCHANGED <<phase, args, locs>>
        /\ todo' = todo \ {i}
        /\ area' = Written(locs[i], args[i].size, i)
        /\ i \in 1 .. Len(args)
    BY <1>1, <1>5 DEF passArgOnStack, analysis, TypeOK
  <2>2. QED BY <2>1, StoreKeepsOthers
<1>6. ASSUME NEW i \in todo, passByValArg(i)
      PROVE  Stored'
  <2>1. /\ UNCHANGED <<phase, args, locs, area>>
        /\ todo' = todo \ {i}
        /\ i \in 1 .. Len(args)
    BY <1>1, <1>6 DEF passByValArg, analysis, TypeOK
  <2>2. ~Inline(args[i])
    BY <1>6 DEF passByValArg, Inline
  <2>3. QED BY <2>1, <2>2, NoStore DEF Safe
<1>7. nested # NoCall =>
        /\ phase = "store"
        /\ nested.arg \in 1 .. Len(args)
        /\ ~Inline(args[nested.arg])
  <2>1. SUFFICES ASSUME nested # NoCall
                 PROVE  /\ phase = "store"
                        /\ nested.arg \in 1 .. Len(args)
                        /\ ~Inline(args[nested.arg])
    OBVIOUS
  <2>2. phase = "store"
    BY <1>1, <2>1 DEF Phases, TypeOK
  <2>3. nested.arg \in 1 .. Len(args) /\ NeedsCall(args[nested.arg])
    BY <1>1, <2>1 DEF NestedLarge
  <2>4. QED BY <2>2, <2>3 DEF Inline
<1>8. ASSUME NEW s \in nested.todo, MemcpyOperand(s)
      PROVE  Stored'
  <2>1. nested # NoCall
    BY <1>8 DEF NoCall
  <2>2. s \in {0, 4, 8}
    BY <1>1 DEF TypeOK, MemcpySlots
  <2>3. UNCHANGED <<phase, args, locs, todo>> /\ area' = Written(s, 3, 0)
    BY <1>8 DEF MemcpyOperand, analysis
  <2>4. \A b \in DOMAIN area : b >= 12 => area'[b] = area[b]
    <3>1. DOMAIN area \subseteq Int
      <4>1. DOMAIN area = 0 .. Reserve + ObjectBytes - 1
        BY <1>7, <2>1 DEF Layout, AreaShape
      <4>2. QED BY <4>1
    <3>2. SUFFICES ASSUME NEW b \in DOMAIN area, b >= 12
                   PROVE  area'[b] = area[b]
      OBVIOUS
    <3>3. ~(s <= b /\ b < s + 3)
      BY <2>2, <3>1, <3>2
    <3>4. s \in Nat /\ 3 \in Nat
      BY <2>2
    <3>5. QED BY <2>3, <3>3, <3>4, WrittenBytes
  <2>5. ASSUME NEW j \in 1 .. Len(args), j \notin todo, Safe(j),
               NEW k \in 0 .. args[j].size - 1
        PROVE  area'[locs[j] + k] = <<j, k>>
    <3>1. locs[j] >= 12
      BY <1>7, <2>1, <2>5 DEF Safe
    <3>2. locs[j] \in Nat /\ args[j].size \in Nat /\ locs[j] + k \in DOMAIN area
      BY <1>7, <2>1, SlotsApart
    <3>3. area'[locs[j] + k] = area[locs[j] + k]
      BY <2>4, <3>1, <3>2
    <3>4. area[locs[j] + k] = <<j, k>>
      BY <1>7, <2>1, <2>5 DEF Stored
    <3>5. QED BY <3>3, <3>4
  <2>6. QED BY <2>3, <2>5 DEF Stored, Safe
<1>9. CASE MemcpyCall
  <2>1. nested # NoCall /\ UNCHANGED <<phase, args, locs, todo>>
        /\ area' \in {area, Written(locs[nested.arg], args[nested.arg].size,
                                    nested.arg)}
    BY <1>9 DEF MemcpyCall, analysis
  <2>2. CASE area' = area
    BY <2>1, <2>2, NoStore
  <2>3. CASE area' = Written(locs[nested.arg], args[nested.arg].size, nested.arg)
    BY <1>7, <2>1, <2>3, StoreKeepsOthers
  <2>4. QED BY <2>1, <2>2, <2>3
<1>10. CASE UNCHANGED vars
  BY <1>10, NoStore DEF vars, analysis
<1>11. QED BY <1>2, <1>3, <1>4, <1>5, <1>6, <1>8, <1>9, <1>10 DEF Next

(* Whatever the kinds of arguments and the order of the stores, a callee   *)
(* finds every argument where it reads it, except those a nested call to   *)
(* memcpy can reach: all of them when no copy is large.                    *)
THEOREM ArgumentsOutOfReachAlwaysArrive == Spec => []ArgumentsOutOfReachArrive
<1>1. Init => Stored
  BY DEF Init, Stored
<1>2. Layout /\ Stored /\ [Next]_vars => Stored'
  BY NextStored
<1>3. Layout /\ Stored => ArgumentsOutOfReachArrive
  <2> SUFFICES ASSUME Layout, Stored, phase = "called",
                      NEW i \in 1 .. Len(args), OutOfReach(i),
                      NEW k \in 0 .. args[i].size - 1
               PROVE  area[formals[i].offset + k] = <<i, k>>
    BY DEF ArgumentsOutOfReachArrive, Arrived
  <2>1. todo = {} /\ Len(formals) = Len(args)
    BY DEF Layout, Phases
  <2>2. formals[i] = [offset |-> locs[i], size |-> args[i].size]
    BY <2>1 DEF Layout, FormalsAgree
  <2>3. formals[i].offset = locs[i]
    BY <2>2
  <2>4. Safe(i)
    BY <2>3 DEF OutOfReach, Safe
  <2>5. QED BY <2>1, <2>3, <2>4 DEF Stored
<1>4. QED BY <1>1, <1>2, <1>3, InitLayout, NextLayout, PTL DEF Spec
-----------------------------------------------------------------------------
Kept ==
  phase # "operands" =>
    \A b \in DOMAIN area : b >= Reserve => area[b] = Object

(* The stores of a step stay below what the layout reserves.               *)
LEMMA NextKept ==
  ASSUME Layout, Kept, [Next]_vars
  PROVE  Kept'
<1>1. TypeOK /\ Phases /\ NestedLarge /\ AreaShape
  BY DEF Layout
<1>2. callFrame \in Nat /\ ObjectBytes \in Nat /\ Reserve \in Nat /\ callFrame <= Reserve
  BY <1>1, BoundsAssumption, ReserveBounds DEF TypeOK
<1>3. ASSUME NEW from \in Nat, NEW size \in Nat, NEW i, from + size <= Reserve,
             area' = Written(from, size, i), phase # "operands",
             callFrame' = callFrame, args' = args
      PROVE  Kept'
  <2>1. DOMAIN area' = DOMAIN area /\ DOMAIN area \subseteq Int
    BY <1>1, <1>2, <1>3 DEF Written, AreaShape
  <2>2. ASSUME NEW b \in DOMAIN area, b >= Reserve
        PROVE  area'[b] = Object
    <3>1. ~(from <= b /\ b < from + size)
      BY <1>2, <1>3, <2>1, <2>2
    <3>2. area'[b] = area[b]
      BY <1>3, <3>1, WrittenBytes
    <3>3. QED BY <1>3, <2>2, <3>2 DEF Kept
  <2>3. Reserve' = Reserve
    BY <1>3, ReserveKept
  <2>4. QED BY <1>3, <2>1, <2>2, <2>3 DEF Kept, Object
<1>4. ASSUME UNCHANGED <<args, callFrame, area>>, phase # "operands" \/ phase' = phase
      PROVE  Kept'
  BY <1>4, ReserveKept DEF Kept, Object
<1>5. ASSUME NEW a \in ArgTypes, analyzeCallOperand(a)
      PROVE  Kept'
  BY <1>5 DEF analyzeCallOperand, Kept
<1>6. CASE CallSeqStart
  <2>1. area' = [b \in 0 .. ReservedFor(callFrame') + ObjectBytes - 1 |->
                   IF b < ReservedFor(callFrame') THEN Unset ELSE Object]
        /\ callFrame' = alignTo(stackOffset, stackAlignment)
        /\ args' = args
    BY <1>6 DEF CallSeqStart
  <2>2. callFrame' \in Nat
    BY <1>1, <2>1, alignToBounds DEF TypeOK, stackAlignment, Alignments
  <2>3. PICK r \in Nat : r = ReservedFor(callFrame')
    BY <2>2, ReservedForBounds
  <2>4. Reserve' = r
    BY <2>1, <2>3 DEF Reserve, ReservedFor
  <2>5. \A b \in DOMAIN area' : b >= r => area'[b] = Object
    BY <1>2, <2>1, <2>3
  <2>6. QED BY <2>4, <2>5 DEF Kept, Object
<1>7. CASE LowerFormalArguments \/ analyzeFormalArgument \/ FormalsDone \/ JmpLink
  BY <1>4, <1>7 DEF LowerFormalArguments, analyzeFormalArgument, FormalsDone, JmpLink,
                    analysis
<1>8. ASSUME NEW i \in 1 .. Len(args)
      PROVE  locs[i] \in Nat /\ args[i].size \in Nat \ {0}
             /\ (phase # "operands" => locs[i] + args[i].size <= callFrame)
  <2>1. locs[i] \in Nat /\ args[i] \in ArgType
    BY <1>1, <1>8 DEF TypeOK
  <2>2. args[i].size \in Nat \ {0}
    BY <2>1 DEF ArgType
  <2>3. 0 \in 0 .. args[i].size - 1
    BY <2>2
  <2>4. QED BY <1>8, <2>1, <2>2, <2>3, SlotsApart
<1>9. ASSUME NEW i \in todo, passArgOnStack(i)
      PROVE  Kept'
  <2>1. i \in 1 .. Len(args) /\ phase = "store" /\ callFrame' = callFrame
        /\ args' = args
        /\ area' = Written(locs[i], args[i].size, i)
    BY <1>1, <1>9 DEF passArgOnStack, analysis, TypeOK
  <2>2. locs[i] \in Nat /\ args[i].size \in Nat /\ locs[i] + args[i].size <= Reserve
    BY <1>2, <1>8, <2>1
  <2>3. QED BY <1>3, <2>1, <2>2
<1>10. ASSUME NEW i \in todo, passByValArg(i)
       PROVE  Kept'
  BY <1>4, <1>10 DEF passByValArg, analysis
<1>11. nested # NoCall =>
         /\ phase = "store"
         /\ nested.arg \in 1 .. Len(args)
         /\ 12 <= Reserve
  <2> SUFFICES ASSUME nested # NoCall
               PROVE  /\ phase = "store"
                      /\ nested.arg \in 1 .. Len(args)
                      /\ 12 <= Reserve
    OBVIOUS
  <2>1. phase = "store"
    BY <1>1 DEF Phases, TypeOK
  <2>2. nested.arg \in 1 .. Len(args) /\ NeedsCall(args[nested.arg])
    BY <1>1 DEF NestedLarge
  <2>3. QED BY <1>2, <2>1, <2>2, ReserveBounds
<1>12. ASSUME NEW s \in nested.todo, MemcpyOperand(s)
       PROVE  Kept'
  <2>1. nested # NoCall
    BY <1>12 DEF NoCall
  <2>2. s \in {0, 4, 8}
    BY <1>1 DEF TypeOK, MemcpySlots
  <2>3. callFrame' = callFrame /\ args' = args /\ area' = Written(s, 3, 0)
    BY <1>12 DEF MemcpyOperand, analysis
  <2>4. s \in Nat /\ 3 \in Nat /\ s + 3 <= Reserve
    BY <1>2, <1>11, <2>1, <2>2
  <2>5. QED BY <1>3, <1>11, <2>1, <2>3, <2>4
<1>13. CASE MemcpyCall
  <2>1. /\ nested # NoCall /\ callFrame' = callFrame /\ phase' = phase /\ args' = args
        /\ area' \in {area, Written(locs[nested.arg], args[nested.arg].size,
                                     nested.arg)}
    BY <1>13 DEF MemcpyCall, analysis
  <2>2. CASE area' = area
    BY <1>4, <2>1, <2>2
  <2>3. CASE area' = Written(locs[nested.arg], args[nested.arg].size, nested.arg)
    <3>1. /\ locs[nested.arg] \in Nat /\ args[nested.arg].size \in Nat
          /\ locs[nested.arg] + args[nested.arg].size <= Reserve
      BY <1>2, <1>8, <1>11, <2>1
    <3>2. QED BY <1>3, <1>11, <2>1, <2>3, <3>1
  <2>4. QED BY <2>1, <2>2, <2>3
<1>14. CASE UNCHANGED vars
  BY <1>4, <1>14 DEF vars, analysis
<1>15. QED BY <1>5, <1>6, <1>7, <1>9, <1>10, <1>12, <1>13, <1>14 DEF Next

(* The call frames that CALLSEQ_START announces, that of a nested memcpy   *)
(* included, cover every byte the call stores to, whatever the number of   *)
(* stores from which on a copy becomes a call.                             *)
THEOREM CallerObjectsAreKept == Spec => []CallerObjectsKept
<1>1. Init => Kept
  BY DEF Init, Kept
<1>2. Layout /\ Kept /\ [Next]_vars => Kept'
  BY NextKept
<1>3. Kept => CallerObjectsKept
  BY DEF Kept, CallerObjectsKept, Reserve
<1>4. QED BY <1>1, <1>2, <1>3, InitLayout, NextLayout, PTL DEF Spec
-----------------------------------------------------------------------------
(* What CALLSEQ_START tells the frame layout of the caller.                *)

(* The call frame keeps the alignment of the stack, and a call that passes *)
(* an argument announces at least a word: the layout reserves as much, and *)
(* FramesAreSuitable of SICFrame relies on it.                             *)
CallFrameSuits ==
  phase # "operands" =>
    /\ callFrame % stackAlignment = 0
    /\ args # <<>> => callFrame >= 3

CallFrameAligned == phase # "operands" => callFrame % stackAlignment = 0

LEMMA NextCallFrameAligned ==
  ASSUME TypeOK, CallFrameAligned, [Next]_vars
  PROVE  CallFrameAligned'
<1>1. CASE CallSeqStart
  <2>1. callFrame' = alignTo(stackOffset, 8) /\ stackOffset \in Nat
    BY <1>1 DEF CallSeqStart, stackAlignment, TypeOK
  <2>2. callFrame' % 8 = 0
    BY <2>1, SMT DEF alignTo
  <2>3. QED BY <2>2 DEF CallFrameAligned, stackAlignment
<1>2. CASE ~CallSeqStart
  <2>1. UNCHANGED callFrame /\ (phase' # "operands" => phase # "operands")
    BY <1>2 DEF Next, analyzeCallOperand, LowerFormalArguments, analyzeFormalArgument,
                FormalsDone, passArgOnStack, passByValArg, MemcpyOperand, MemcpyCall,
                JmpLink, analysis, vars
  <2>2. QED BY <2>1 DEF CallFrameAligned, stackAlignment
<1>3. QED BY <1>1, <1>2

(* Whatever a call passes, its call frame is a multiple of the stack's     *)
(* alignment, and at least a word when it passes anything.                 *)
THEOREM CallFramesSuitTheLayout == Spec => []CallFrameSuits
<1>1. Init => CallFrameAligned
  BY DEF Init, CallFrameAligned
<1>2. Layout /\ CallFrameAligned /\ [Next]_vars => CallFrameAligned'
  BY NextCallFrameAligned DEF Layout
<1>3. Layout /\ CallFrameAligned => CallFrameSuits
  <2> SUFFICES ASSUME Layout, CallFrameAligned, phase # "operands", args # <<>>
               PROVE  callFrame >= 3
    BY DEF CallFrameSuits, CallFrameAligned
  <2>1. /\ 1 \in 1 .. Len(args) /\ args[1] \in ArgType
        /\ locs[1] \in Nat /\ callFrame \in Nat
    BY DEF Layout, TypeOK
  <2>2. locs[1] + Reserved(args[1]) <= callFrame
    BY <2>1 DEF Layout, SlotsInFrame
  <2>3. Reserved(args[1]) \in Nat /\ Reserved(args[1]) >= 1
    <3>1. args[1].size \in Nat \ {0} /\ args[1].byval \in BOOLEAN
      BY <2>1 DEF ArgType
    <3>2. alignTo(args[1].size, regSize) \in Nat /\ args[1].size <= alignTo(args[1].size, regSize)
      BY <3>1, alignToBounds DEF regSize, Alignments
    <3>3. QED BY <3>1, <3>2 DEF Reserved
  <2>4. callFrame % 8 = 0 /\ callFrame >= 1
    BY <2>1, <2>2, <2>3 DEF CallFrameAligned, stackAlignment
  <2>5. QED BY <2>1, <2>4, SMT
<1>4. QED BY <1>1, <1>2, <1>3, InitLayout, NextLayout, PTL DEF Spec
=============================================================================
