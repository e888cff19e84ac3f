-------------------------- MODULE SICFrame_proofs --------------------------
(***************************************************************************)
(* Proofs about the frame layout, for all sizes, offsets, call frames and  *)
(* numbers of objects, and for the alignments 1 to 16.                     *)
(***************************************************************************)
EXTENDS SICFrame, TLAPS

(* alignTo (MathExtras.h) returns a multiple of the alignment that is at   *)
(* least its argument.                                                     *)
LEMMA alignToBounds ==
  ASSUME NEW value \in Nat, NEW align \in Alignments
  PROVE  /\ alignTo(value, align) \in Nat
         /\ alignTo(value, align) >= value
         /\ alignTo(value, align) % align = 0
<1>1. CASE align = 1
  BY <1>1, SMT DEF alignTo
<1>2. CASE align = 2
  BY <1>2, SMT DEF alignTo
<1>3. CASE align = 4
  BY <1>3, SMT DEF alignTo
<1>4. CASE align = 8
  BY <1>4, SMT DEF alignTo
<1>5. CASE align = 16
  BY <1>5, SMT DEF alignTo
<1>6. QED
  BY <1>1, <1>2, <1>3, <1>4, <1>5 DEF Alignments

(* The larger of two alignments, or of none and one, is an alignment.      *)
LEMMA LargerAlignment ==
  ASSUME NEW a \in Alignments \cup {0}, NEW b \in Alignments \cup {0},
         a # 0 \/ b # 0
  PROVE  /\ Larger(a, b) \in Alignments
         /\ Larger(a, b) >= a
         /\ Larger(a, b) >= b
BY DEF Larger, Alignments

(* Every frame index names an object with a size and an alignment.         *)
LEMMA ObjectType ==
  ASSUME TypeOK, NEW i \in FI
  PROVE  /\ objects[i].size \in Nat \ {0}
         /\ objects[i].align \in Alignments
<1>1. objects[i] \in StackObject
  BY DEF TypeOK, FI
<1>2. QED
  BY <1>1 DEF StackObject

(* Every argument has an offset from the entry SP upwards and a size.      *)
LEMMA FixedType ==
  ASSUME TypeOK, NEW k \in DOMAIN fixed
  PROVE  /\ k \in Nat \ {0}
         /\ fixed[k].offset \in Nat
         /\ fixed[k].size \in Nat \ {0}
<1>1. fixed[k] \in FixedObject
  BY DEF TypeOK
<1>2. k \in Nat \ {0}
  BY DEF TypeOK
<1>3. QED
  BY <1>1, <1>2 DEF FixedObject

(* What an index of an argument and an index of another object stand for.  *)
LEMMA FixedIndex ==
  ASSUME TypeOK, NEW fi \in FixedFI
  PROVE  /\ fi \in Int /\ fi < 0 /\ -fi \in DOMAIN fixed
         /\ getObjectSize(fi) = fixed[-fi].size
         /\ getObjectOffset(fi) = fixed[-fi].offset
         /\ getObjectSize(fi) \in Nat \ {0}
         /\ getObjectOffset(fi) \in Nat
<1>1. PICK k \in DOMAIN fixed : fi = -k
  BY DEF FixedFI
<1>2. k \in Nat \ {0} /\ -fi = k /\ fi < 0 /\ fi \in Int
  BY <1>1, FixedType
<1>3. QED
  BY <1>1, <1>2, FixedType DEF getObjectSize, getObjectOffset

LEMMA LocalIndex ==
  ASSUME TypeOK, NEW fi \in FI
  PROVE  /\ fi \in Nat /\ fi > 0
         /\ getObjectSize(fi) = objects[fi].size
         /\ getObjectOffset(fi) = -dist[fi]
         /\ getObjectSize(fi) \in Nat \ {0}
<1>1. fi \in Nat /\ fi > 0
  BY DEF FI, TypeOK
<1>2. QED
  BY <1>1, ObjectType DEF getObjectSize, getObjectOffset

(* Placing an object moves Offset away from the entry SP by at least the   *)
(* object's size, to a multiple of its alignment.                          *)
LEMMA PlacedAtBounds ==
  ASSUME TypeOK, NEW i \in FI
  PROVE  /\ PlacedAt(i) \in Nat
         /\ PlacedAt(i) >= offset + objects[i].size
         /\ PlacedAt(i) % objects[i].align = 0
<1>1. offset + objects[i].size \in Nat
  BY ObjectType DEF TypeOK
<1>2. QED
  BY <1>1, ObjectType, alignToBounds DEF PlacedAt

-----------------------------------------------------------------------------
(* Type correctness.                                                       *)

LEMMA InitType == Init => TypeOK
<1> SUFFICES ASSUME Init PROVE TypeOK
  OBVIOUS
<1>1. /\ objects \in Seq(StackObject)
      /\ fixed \in Seq(FixedObject)
      /\ callFrames \in Seq(Nat)
      /\ csFI \in 0 .. Len(objects)
  BY DEF Init
<1>2. ref \in [object : Int, imm : Nat, disp : Int]
  BY DEF Init, NoRef
<1>3. /\ pass \in Passes
      /\ pass \notin {"callee-saved", "objects", "emit"}
  BY DEF Init, Passes
<1>4. /\ dead \subseteq FI
      /\ modifiesL \in BOOLEAN
      /\ adjustsStack \in BOOLEAN
  BY DEF Init
<1>5. /\ maxCallFrame \in Nat
      /\ next \in Nat \ {0}
      /\ offset \in Nat
      /\ maxAlign \in Alignments \cup {0}
      /\ stackSize \in Nat
  BY DEF Init
<1>6. QED
  BY <1>1, <1>2, <1>3, <1>4, <1>5 DEF TypeOK

LEMMA ISelType ==
  ASSUME TypeOK, ISel
  PROVE  TypeOK'
<1> USE DEF TypeOK, pseudoVars, layoutVars, FI, Passes
<1>1. ASSUME NEW size \in Sizes, NEW align \in Aligns,
             CreateStackObject(size, align)
      PROVE  TypeOK'
  <2>1. [size |-> size, align |-> align] \in StackObject
    BY SizesAssumption, AlignsAssumption DEF StackObject
  <2>2. /\ objects' \in Seq(StackObject)
        /\ Len(objects') = Len(objects) + 1
    BY <1>1, <2>1 DEF CreateStackObject
  <2>3. maxAlign' \in Alignments \cup {0}
    BY <1>1, AlignsAssumption DEF CreateStackObject, Larger
  <2>4. QED
    BY <1>1, <2>2, <2>3 DEF CreateStackObject
<1>2. ASSUME NEW o \in ArgOffsets, NEW size \in ArgSizes, CreateFixedObject(o, size)
      PROVE  TypeOK'
  <2>1. [offset |-> o, size |-> size] \in FixedObject
    BY ArgsAssumption DEF FixedObject
  <2>2. fixed' \in Seq(FixedObject)
    BY <1>2, <2>1 DEF CreateFixedObject
  <2>3. QED
    BY <1>2, <2>2 DEF CreateFixedObject
<1>3. ASSUME NEW i \in FI, RemoveStackObject(i)
      PROVE  TypeOK'
  BY <1>3 DEF RemoveStackObject
<1>4. ASSUME NEW s \in CallFrames, LowerCall(s)
      PROVE  TypeOK'
  <2>1. callFrames' \in Seq(Nat)
    BY <1>4, CallsAssumption DEF LowerCall
  <2>2. QED
    BY <1>4, <2>1 DEF LowerCall
<1>5. ASSUME AllocateL
      PROVE  TypeOK'
  BY <1>5 DEF AllocateL
<1>6. QED
  BY <1>1, <1>2, <1>3, <1>4, <1>5 DEF ISel

LEMMA CallFrameInfoType ==
  ASSUME TypeOK, calculateCallFrameInfo
  PROVE  TypeOK'
<1>1. callFrames[next] \in Nat
  BY DEF TypeOK, calculateCallFrameInfo
<1>2. maxCallFrame' \in Nat
  BY <1>1 DEF TypeOK, calculateCallFrameInfo, Larger
<1>3. QED
  BY <1>2 DEF TypeOK, calculateCallFrameInfo, iselVars, FI, Passes

LEMMA CalleeSavedSlotType ==
  ASSUME TypeOK, assignCalleeSavedSpillSlots
  PROVE  TypeOK'
<1>1. CASE modifiesL \/ callFrames # <<>>
  <2>1. [size |-> RegSize, align |-> 4] \in StackObject
    BY DEF StackObject, RegSize, Alignments
  <2>2. /\ objects' = Append(objects, [size |-> RegSize, align |-> 4])
        /\ csFI' = Len(objects) + 1
        /\ maxAlign' = Larger(maxAlign, 4)
    BY <1>1 DEF assignCalleeSavedSpillSlots, RegAlign, stackAlignment
  <2>3. /\ objects' \in Seq(StackObject)
        /\ Len(objects') = Len(objects) + 1
    BY <2>1, <2>2 DEF TypeOK
  <2>4. maxAlign' \in Alignments \cup {0}
    BY <2>2 DEF TypeOK, Alignments, Larger
  <2>5. QED
    BY <2>2, <2>3, <2>4
    DEF assignCalleeSavedSpillSlots, TypeOK, pseudoVars, FI, Passes
<1>2. CASE ~ (modifiesL \/ callFrames # <<>>)
  BY <1>2 DEF assignCalleeSavedSpillSlots, TypeOK, pseudoVars, FI, Passes
<1>3. QED
  BY <1>1, <1>2

LEMMA LayoutType ==
  ASSUME TypeOK, LayoutFixed \/ LayoutCalleeSaved \/ LayoutObject
  PROVE  TypeOK'
<1>1. CASE LayoutFixed
  <2> DEFINE FixedOffs == {-fixed[k].offset : k \in DOMAIN fixed}
  <2>1. \A f \in FixedOffs : f \in Int /\ f <= 0
    BY FixedType
  <2>2. offset' = CHOOSE o \in {0} \cup FixedOffs : o >= 0 /\ \A f \in FixedOffs : f <= o
    BY <1>1 DEF LayoutFixed
  <2> HIDE DEF FixedOffs
  <2>3. offset' \in {0} \cup FixedOffs /\ offset' >= 0
    BY <2>1, <2>2
  <2>4. offset' \in Nat
    BY <2>1, <2>3
  <2>5. dist' \in [FI -> Nat]
    BY <1>1 DEF LayoutFixed
  <2>6. QED
    BY <1>1, <2>4, <2>5
    DEF LayoutFixed, TypeOK, iselVars, pseudoVars, FI, Passes
<1>2. CASE LayoutCalleeSaved
  <2>1. CASE csFI # 0
    <3>1. csFI \in FI
      BY <2>1 DEF TypeOK, FI
    <3>2. PlacedAt(csFI) \in Nat
      BY <3>1, PlacedAtBounds
    <3>3. offset' \in Nat /\ dist' \in [FI -> Nat]
      BY <1>2, <2>1, <3>2 DEF LayoutCalleeSaved, Place, TypeOK
    <3>4. QED
      BY <1>2, <3>3 DEF LayoutCalleeSaved, TypeOK, iselVars, pseudoVars, FI, Passes
  <2>2. CASE csFI = 0
    BY <1>2, <2>2 DEF LayoutCalleeSaved, TypeOK, iselVars, pseudoVars, FI, Passes
  <2>3. QED
    BY <2>1, <2>2
<1>3. CASE LayoutObject
  <2>1. CASE next = csFI \/ next \in dead
    BY <1>3, <2>1 DEF LayoutObject, TypeOK, iselVars, pseudoVars, FI, Passes
  <2>2. CASE ~ (next = csFI \/ next \in dead)
    <3>1. next \in FI
      BY <1>3 DEF LayoutObject
    <3>2. maxAlign' \in Alignments \cup {0}
      <4>1. maxAlign' = Larger(maxAlign, objects[next].align)
        BY <1>3, <2>2 DEF LayoutObject
      <4>2. QED
        BY <3>1, <4>1, ObjectType DEF TypeOK, Larger
    <3>3. PlacedAt(next) \in Nat
      BY <3>1, PlacedAtBounds
    <3>4. offset' \in Nat /\ dist' \in [FI -> Nat]
      BY <1>3, <2>2, <3>3 DEF LayoutObject, Place, TypeOK
    <3>5. QED
      BY <1>3, <3>2, <3>4 DEF LayoutObject, TypeOK, iselVars, pseudoVars, FI, Passes
  <2>3. QED
    BY <2>1, <2>2
<1>4. QED
  BY <1>1, <1>2, <1>3

LEMMA LayoutEndType ==
  ASSUME TypeOK, LayoutEnd
  PROVE  TypeOK'
<1>1. Larger(stackAlignment, maxAlign) \in Alignments
  BY DEF TypeOK, Larger, stackAlignment, Alignments
<1>2. (IF adjustsStack /\ hasReservedCallFrame
         THEN offset + maxCallFrame ELSE offset) \in Nat
  BY DEF TypeOK
<1>3. offset' \in Nat /\ stackSize' \in Nat
  BY <1>1, <1>2, alignToBounds DEF LayoutEnd
<1>4. QED
  BY <1>3 DEF LayoutEnd, TypeOK, iselVars, pseudoVars, FI, Passes

LEMMA PEIType ==
  ASSUME TypeOK, PEI
  PROVE  TypeOK'
<1>1. CASE StartPEI
  BY <1>1 DEF StartPEI, TypeOK, iselVars, pseudoVars, layoutVars, FI, Passes
<1>2. QED
  BY <1>1, CallFrameInfoType, CalleeSavedSlotType, LayoutType, LayoutEndType
  DEF PEI

LEMMA RewriteType ==
  ASSUME TypeOK, Rewrite
  PROVE  TypeOK'
<1>1. PICK fi \in FI \cup FixedFI : \E imm \in {0, getObjectSize(fi) - 1} :
               eliminateFrameIndex(fi, imm)
  BY DEF Rewrite
<1>2. PICK imm \in {0, getObjectSize(fi) - 1} : eliminateFrameIndex(fi, imm)
  BY <1>1
<1>3. fi \in Int /\ imm \in Nat /\ getObjectOffset(fi) \in Int
  <2>1. CASE fi \in FI
    <3>1. dist[fi] \in Nat
      BY <1>2, <2>1 DEF eliminateFrameIndex, TypeOK
    <3>2. QED
      BY <1>2, <2>1, <3>1, LocalIndex
  <2>2. CASE fi \in FixedFI
    BY <1>2, <2>2, FixedIndex
  <2>3. QED
    BY <1>1, <2>1, <2>2
<1>4. ref' \in [object : Int, imm : Nat, disp : Int]
  BY <1>2, <1>3 DEF eliminateFrameIndex, TypeOK
<1>5. QED
  BY <1>2, <1>4
  DEF eliminateFrameIndex, TypeOK, iselVars, pseudoVars, layoutVars, FI, Passes

(* The frame's variables keep the shapes of their C++ counterparts.        *)
THEOREM TypeCorrect == Spec => []TypeOK
<1>1. TypeOK /\ [Next]_vars => TypeOK'
  <2>1. CASE UNCHANGED vars
    BY <2>1
    DEF TypeOK, vars, iselVars, pseudoVars, layoutVars, FI, Passes
  <2>2. QED
    BY <2>1, ISelType, PEIType, RewriteType DEF Next
<1>2. QED
  BY InitType, <1>1, PTL DEF Spec
-----------------------------------------------------------------------------
(* The inductive invariant.  Disjointness alone is not inductive: it needs *)
(* that every placed object ends at or before Offset, so that the next one *)
(* is placed beyond all of them, and that the loop variable starts at 1.   *)

LoopStarts == pass \in {"fixed", "callee-saved"} => next = 1

CallFrameBound ==
  /\ callFrames \in Seq(CallFrames)
  /\ maxCallFrame \in CallFrames \cup {0}
  /\ maxCallFrame # 0 => adjustsStack

PlacedBound ==
  \A i \in Placed : /\ objects[i].size <= dist[i]
                    /\ dist[i] <= offset
                    /\ dist[i] % objects[i].align = 0

ReservedSize == IF adjustsStack /\ hasReservedCallFrame THEN maxCallFrame ELSE 0

FrameClosed ==
  pass = "emit" => /\ stackSize % stackAlignment = 0
                   /\ ReservedSize <= stackSize
                   /\ \A i \in Placed : dist[i] <= stackSize - ReservedSize

IInv ==
  /\ TypeOK
  /\ LoopStarts
  /\ CallFrameBound
  /\ PlacedBound
  /\ ObjectsDisjoint
  /\ FrameClosed

LayoutPart == PlacedBound /\ ObjectsDisjoint /\ FrameClosed

(* Before the layout loop no object has an address.                        *)
LEMMA NothingPlaced ==
  ASSUME pass \notin {"objects", "emit"}
  PROVE  LayoutPart
BY DEF LayoutPart, PlacedBound, ObjectsDisjoint, FrameClosed, Placed

LEMMA ISelStep ==
  ASSUME IInv, ISel
  PROVE  IInv'
<1>1. pass' = "isel" /\ UNCHANGED pseudoVars
  BY DEF ISel, CreateStackObject, CreateFixedObject, RemoveStackObject,
         LowerCall, AllocateL
<1>2. callFrames' \in Seq(CallFrames)
  <2>1. callFrames \in Seq(CallFrames)
    BY DEF IInv, CallFrameBound
  <2>2. CASE UNCHANGED callFrames
    BY <2>1, <2>2
  <2>3. ASSUME NEW s \in CallFrames, LowerCall(s)
        PROVE  callFrames' \in Seq(CallFrames)
    BY <2>1, <2>3 DEF LowerCall
  <2>4. QED
    BY <2>2, <2>3
    DEF ISel, CreateStackObject, CreateFixedObject, RemoveStackObject, AllocateL
<1>3. LayoutPart'
  BY <1>1 DEF LayoutPart, PlacedBound, ObjectsDisjoint, FrameClosed, Placed
<1>4. TypeOK'
  BY ISelType DEF IInv
<1>5. QED
  BY <1>1, <1>2, <1>3, <1>4
  DEF IInv, LayoutPart, LoopStarts, CallFrameBound, pseudoVars

(* The passes before the layout loop.                                      *)
LEMMA EarlyStep ==
  ASSUME IInv, \/ StartPEI
               \/ calculateCallFrameInfo
               \/ assignCalleeSavedSpillSlots
               \/ LayoutFixed
  PROVE  IInv'
<1>1. TypeOK'
  BY PEIType DEF IInv, PEI
<1>2. pass' \in {"callframes", "fixed", "callee-saved"}
  BY DEF StartPEI, calculateCallFrameInfo, assignCalleeSavedSpillSlots,
         LayoutFixed
<1>3. LayoutPart'
  BY <1>2 DEF LayoutPart, PlacedBound, ObjectsDisjoint, FrameClosed, Placed
<1>4. LoopStarts'
  BY DEF StartPEI, calculateCallFrameInfo, assignCalleeSavedSpillSlots,
         LayoutFixed, LoopStarts, IInv
<1>5. CallFrameBound'
  <2>1. CASE calculateCallFrameInfo
    <3>1. callFrames[next] \in CallFrames
      BY <2>1 DEF calculateCallFrameInfo, IInv, TypeOK, CallFrameBound
    <3>2. QED
      BY <2>1, <3>1
      DEF calculateCallFrameInfo, IInv, CallFrameBound, Larger, iselVars
  <2>2. CASE StartPEI \/ assignCalleeSavedSpillSlots \/ LayoutFixed
    BY <2>2 DEF StartPEI, assignCalleeSavedSpillSlots, LayoutFixed, IInv,
                CallFrameBound, iselVars, pseudoVars
  <2>3. QED
    BY <2>1, <2>2
<1>6. QED
  BY <1>1, <1>3, <1>4, <1>5 DEF IInv, LayoutPart

(* Placing one object beyond Offset keeps all placed objects apart.        *)
LEMMA PlaceStep ==
  ASSUME TypeOK, PlacedBound, ObjectsDisjoint, dist \in [FI -> Nat],
         NEW i \in FI, i \notin Placed, Place(i), UNCHANGED objects,
         Placed' = Placed \cup {i}, pass' = "objects"
  PROVE  LayoutPart'
<1>1. /\ PlacedAt(i) \in Nat
      /\ PlacedAt(i) >= offset + objects[i].size
      /\ PlacedAt(i) % objects[i].align = 0
  BY PlacedAtBounds
<1>2. /\ dist'[i] = PlacedAt(i)
      /\ offset' = PlacedAt(i)
      /\ \A j \in FI \ {i} : dist'[j] = dist[j]
  BY DEF Place
<1>3. Placed \subseteq FI \ {i}
  BY DEF Placed
<1>4. \A j \in FI : objects[j].size \in Nat \ {0} /\ dist[j] \in Nat
  BY ObjectType
<1>5. offset \in Nat
  BY DEF TypeOK
<1>6. PlacedBound'
  BY <1>1, <1>2, <1>3, <1>4, <1>5 DEF PlacedBound
<1>7. \A j \in Placed : Below(j, i)'
  BY <1>1, <1>2, <1>3, <1>4, <1>5 DEF PlacedBound, Below
<1>8. \A j, k \in Placed : j # k => Below(j, k)' \/ Below(k, j)'
  BY <1>2, <1>3 DEF ObjectsDisjoint, Below
<1>9. ObjectsDisjoint'
  BY <1>7, <1>8 DEF ObjectsDisjoint
<1>10. QED
  BY <1>6, <1>9 DEF LayoutPart, FrameClosed

LEMMA CalleeSavedStep ==
  ASSUME IInv, LayoutCalleeSaved
  PROVE  IInv'
<1>1. TypeOK'
  BY PEIType DEF IInv, PEI
<1>2. /\ pass = "callee-saved"
      /\ pass' = "objects"
      /\ next = 1
      /\ UNCHANGED <<objects, csFI, next, dead>>
  BY DEF LayoutCalleeSaved, IInv, LoopStarts, iselVars
<1>3. LoopStarts' /\ CallFrameBound'
  BY <1>2 DEF LayoutCalleeSaved, IInv, LoopStarts, CallFrameBound, iselVars,
              pseudoVars
<1>4. LayoutPart'
  <2>1. CASE csFI = 0
    <3>1. Placed' = {}
      BY <1>2, <2>1 DEF Placed, FI
    <3>2. QED
      BY <1>2, <3>1 DEF LayoutPart, PlacedBound, ObjectsDisjoint, FrameClosed
  <2>2. CASE csFI # 0
    <3>1. csFI \in FI /\ Placed = {} /\ Placed' = {csFI}
      BY <1>2, <2>2 DEF Placed, FI, IInv, TypeOK
    <3>2. dist \in [FI -> Nat]
      BY <1>2 DEF IInv, TypeOK
    <3>3. Place(csFI)
      BY <2>2 DEF LayoutCalleeSaved
    <3>4. TypeOK /\ PlacedBound /\ ObjectsDisjoint
      BY DEF IInv
    <3>5. QED
      BY <1>2, <3>1, <3>2, <3>3, <3>4, PlaceStep
  <2>3. QED
    BY <2>1, <2>2
<1>5. QED
  BY <1>1, <1>3, <1>4 DEF IInv, LayoutPart

LEMMA LayoutObjectStep ==
  ASSUME IInv, LayoutObject
  PROVE  IInv'
<1>1. TypeOK'
  BY PEIType DEF IInv, PEI
<1>2. /\ pass = "objects" /\ pass' = "objects"
      /\ next \in FI /\ next' = next + 1
      /\ UNCHANGED <<objects, csFI, dead>>
  BY DEF LayoutObject, iselVars
<1>3. LoopStarts' /\ CallFrameBound'
  BY <1>2 DEF LayoutObject, IInv, LoopStarts, CallFrameBound, iselVars,
              pseudoVars
<1>4. LayoutPart'
  <2>1. CASE next = csFI \/ next \in dead
    <3>1. Placed' = Placed
      BY <1>2, <2>1 DEF Placed, FI
    <3>2. UNCHANGED <<dist, offset>>
      BY <2>1 DEF LayoutObject
    <3>3. QED
      BY <1>2, <3>1, <3>2
      DEF IInv, LayoutPart, PlacedBound, ObjectsDisjoint, FrameClosed, Below
  <2>2. CASE ~ (next = csFI \/ next \in dead)
    <3>1. next \notin Placed /\ Placed' = Placed \cup {next}
      BY <1>2, <2>2 DEF Placed, FI
    <3>2. dist \in [FI -> Nat]
      BY <1>2 DEF IInv, TypeOK
    <3>3. Place(next)
      BY <2>2 DEF LayoutObject
    <3>4. TypeOK /\ PlacedBound /\ ObjectsDisjoint
      BY DEF IInv
    <3>5. QED
      BY <1>2, <3>1, <3>2, <3>3, <3>4, PlaceStep
  <2>3. QED
    BY <2>1, <2>2
<1>5. QED
  BY <1>1, <1>3, <1>4 DEF IInv, LayoutPart

(* A multiple of an alignment not below the stack's is one of the stack's. *)
LEMMA StackMultiple ==
  ASSUME NEW n \in Nat, NEW a \in {8, 16}, n % a = 0
  PROVE  n % stackAlignment = 0
BY SMT DEF stackAlignment

LEMMA LayoutEndStep ==
  ASSUME IInv, LayoutEnd
  PROVE  IInv'
<1> DEFINE a == Larger(stackAlignment, maxAlign)
<1>1. TypeOK'
  BY LayoutEndType DEF IInv
<1>2. /\ pass = "objects" /\ pass' = "emit"
      /\ UNCHANGED <<objects, csFI, dead, next, dist>>
      /\ UNCHANGED <<callFrames, adjustsStack, maxCallFrame>>
  BY DEF LayoutEnd, iselVars, pseudoVars
<1>3. LoopStarts' /\ CallFrameBound'
  BY <1>2 DEF IInv, LoopStarts, CallFrameBound
<1>4. Placed' = Placed /\ ReservedSize' = ReservedSize
  BY <1>2 DEF Placed, FI, ReservedSize, hasReservedCallFrame
<1>5. /\ offset \in Nat
      /\ maxCallFrame \in Nat
      /\ ReservedSize \in Nat
      /\ a \in {8, 16}
  BY DEF IInv, TypeOK, ReservedSize, Larger, stackAlignment, Alignments
<1>6. /\ offset' = alignTo(offset + ReservedSize, a)
      /\ stackSize' = offset'
  BY <1>5 DEF LayoutEnd, ReservedSize
<1>7. /\ offset' \in Nat
      /\ offset' >= offset + ReservedSize
      /\ offset' % a = 0
  <2> HIDE DEF a
  <2>1. offset + ReservedSize \in Nat /\ a \in Alignments
    BY <1>5 DEF Alignments
  <2>2. QED
    BY <1>6, <2>1, alignToBounds
<1>8. \A i \in Placed : dist[i] \in Nat
  BY <1>2 DEF IInv, TypeOK, Placed
<1>9. PlacedBound'
  BY <1>2, <1>4, <1>5, <1>7, <1>8 DEF IInv, PlacedBound
<1>10. ObjectsDisjoint'
  BY <1>2, <1>4 DEF IInv, ObjectsDisjoint, Below
<1>11. stackSize' % stackAlignment = 0
  BY <1>5, <1>6, <1>7, StackMultiple
<1>12. /\ ReservedSize <= stackSize'
       /\ \A i \in Placed : dist[i] <= stackSize' - ReservedSize
  <2>1. offset \in Nat
    BY DEF IInv, TypeOK
  <2>2. QED
    BY <2>1, <1>5, <1>6, <1>7, <1>8 DEF IInv, PlacedBound
<1>13. FrameClosed'
  BY <1>2, <1>4, <1>11, <1>12 DEF FrameClosed, stackAlignment
<1>14. QED
  BY <1>1, <1>3, <1>9, <1>10, <1>13 DEF IInv

LEMMA UnchangedStep ==
  ASSUME IInv, TypeOK',
         UNCHANGED <<pass, iselVars, pseudoVars, csFI, layoutVars, maxAlign,
                     stackSize>>
  PROVE  IInv'
BY DEF IInv, LoopStarts, CallFrameBound, PlacedBound, ObjectsDisjoint,
       FrameClosed, Placed, FI, Below, ReservedSize, hasReservedCallFrame,
       iselVars, pseudoVars, layoutVars, stackAlignment

LEMMA Inductive == IInv /\ [Next]_vars => IInv'
<1> SUFFICES ASSUME IInv, [Next]_vars PROVE IInv'
  OBVIOUS
<1>1. CASE ISel
  BY <1>1, ISelStep
<1>2. CASE PEI
  BY <1>2, EarlyStep, CalleeSavedStep, LayoutObjectStep, LayoutEndStep DEF PEI
<1>3. CASE Rewrite
  <2>1. TypeOK'
    BY <1>3, RewriteType DEF IInv
  <2>2. UNCHANGED <<pass, iselVars, pseudoVars, csFI, layoutVars, maxAlign,
                    stackSize>>
    BY <1>3 DEF Rewrite, eliminateFrameIndex
  <2>3. QED
    BY <2>1, <2>2, UnchangedStep
<1>4. CASE UNCHANGED vars
  <2>1. TypeOK'
    BY <1>4 DEF IInv, TypeOK, vars, iselVars, pseudoVars, layoutVars, FI, Passes
  <2>2. UNCHANGED <<pass, iselVars, pseudoVars, csFI, layoutVars, maxAlign,
                    stackSize>>
    BY <1>4 DEF vars
  <2>3. QED
    BY <2>1, <2>2, UnchangedStep
<1>5. QED
  BY <1>1, <1>2, <1>3, <1>4 DEF Next

THEOREM InvariantHolds == Spec => []IInv
<1>1. Init => IInv
  <2> SUFFICES ASSUME Init PROVE IInv
    OBVIOUS
  <2>1. LayoutPart
    BY NothingPlaced DEF Init
  <2>2. CallFrameBound
    BY DEF Init, CallFrameBound
  <2>3. LoopStarts
    BY DEF Init, LoopStarts
  <2>4. QED
    BY <2>1, <2>2, <2>3, InitType DEF IInv, LayoutPart
<1>2. QED
  BY <1>1, Inductive, PTL DEF Spec

(* No two objects of a frame share a byte.                                 *)
THEOREM ObjectsAreDisjoint == Spec => []ObjectsDisjoint
<1>1. IInv => ObjectsDisjoint
  BY DEF IInv
<1>2. QED
  BY <1>1, InvariantHolds, PTL

(* The objects of a finished frame lie between the SP of the body and the  *)
(* SP at entry.                                                            *)
THEOREM FrameHoldsItsObjects == Spec => []FrameHoldsObjects
<1>1. IInv => FrameHoldsObjects
  <2> SUFFICES ASSUME IInv, pass = "emit", NEW i \in Placed
               PROVE  objects[i].size <= dist[i] /\ dist[i] <= stackSize
    BY DEF FrameHoldsObjects
  <2>1. /\ stackSize \in Nat
        /\ dist[i] \in Nat
        /\ ReservedSize \in Nat
    BY DEF IInv, TypeOK, Placed, ReservedSize
  <2>2. QED
    BY <2>1 DEF IInv, PlacedBound, FrameClosed
<1>2. QED
  BY <1>1, InvariantHolds, PTL

(* When every call frame of the function fits the immediate field that     *)
(* hasReservedCallFrame tests, the outgoing arguments overlap no object.   *)
THEOREM OutgoingAreaIsFree ==
  ASSUME \A s \in CallFrames : s + stackAlignment \in UInt12
  PROVE  Spec => []OutgoingAreaFree
<1>1. IInv => OutgoingAreaFree
  <2> SUFFICES ASSUME IInv, pass = "emit", NEW i \in Placed
               PROVE  stackSize - dist[i] >= maxCallFrame
    BY DEF OutgoingAreaFree
  <2>1. /\ stackSize \in Nat
        /\ dist[i] \in Nat
        /\ maxCallFrame \in Nat
    BY DEF IInv, TypeOK, Placed
  <2>2. ReservedSize = maxCallFrame
    BY DEF IInv, CallFrameBound, ReservedSize, hasReservedCallFrame
  <2>3. QED
    BY <2>1, <2>2 DEF IInv, FrameClosed
<1>2. QED
  BY <1>1, InvariantHolds, PTL
-----------------------------------------------------------------------------
(* Alignment.                                                              *)

(* Objects never have a larger alignment than the stack, as long as none   *)
(* is requested with one.                                                  *)
LowAligned == \A i \in FI : objects[i].align \in {1, 2, 4, 8}

(* A new object of a low alignment leaves all of them low.                 *)
LEMMA LowAlignedAppend ==
  ASSUME TypeOK, LowAligned,
         NEW o, o.align \in {1, 2, 4, 8}, objects' = Append(objects, o)
  PROVE  LowAligned'
<1>1. /\ Len(objects') = Len(objects) + 1
      /\ Len(objects) \in Nat
      /\ objects'[Len(objects) + 1] = o
      /\ \A i \in FI : objects'[i] = objects[i]
  BY DEF TypeOK, FI
<1>2. ASSUME NEW i \in FI'
      PROVE  objects'[i].align \in {1, 2, 4, 8}
  <2>1. i \in FI \/ i = Len(objects) + 1
    BY <1>1, <1>2 DEF FI
  <2>2. CASE i \in FI
    BY <1>1, <2>2 DEF LowAligned
  <2>3. CASE i = Len(objects) + 1
    BY <1>1, <2>3
  <2>4. QED
    BY <2>1, <2>2, <2>3
<1>3. QED
  BY <1>2 DEF LowAligned

LEMMA LowAlignedStep ==
  ASSUME Aligns \subseteq {1, 2, 4, 8}, TypeOK, LowAligned, [Next]_vars
  PROVE  LowAligned'
<1>1. CASE objects' = objects
  BY <1>1 DEF LowAligned, FI
<1>2. ASSUME NEW size \in Sizes, NEW align \in Aligns, CreateStackObject(size, align)
      PROVE  LowAligned'
  <2>1. objects' = Append(objects, [size |-> size, align |-> align])
    BY <1>2 DEF CreateStackObject
  <2>2. QED
    BY <2>1, LowAlignedAppend
<1>3. CASE assignCalleeSavedSpillSlots
  <2>1. \/ objects' = objects
        \/ objects' = Append(objects, [size |-> RegSize, align |-> RegAlign])
    BY <1>3 DEF assignCalleeSavedSpillSlots, RegAlign, stackAlignment
  <2>2. QED
    BY <1>1, <2>1, LowAlignedAppend DEF RegAlign
<1>4. CASE UNCHANGED vars
  BY <1>1, <1>4 DEF vars, iselVars
<1>5. CASE Rewrite
  BY <1>1, <1>5 DEF Rewrite, eliminateFrameIndex, iselVars
<1>6. ASSUME ISel, \A size \in Sizes, align \in Aligns : ~CreateStackObject(size, align)
      PROVE  LowAligned'
  BY <1>1, <1>6 DEF ISel, CreateFixedObject, RemoveStackObject, LowerCall, AllocateL
<1>7. ASSUME PEI, ~assignCalleeSavedSpillSlots
      PROVE  LowAligned'
  BY <1>1, <1>7 DEF PEI, StartPEI, calculateCallFrameInfo, LayoutFixed,
                    LayoutCalleeSaved, LayoutObject, LayoutEnd, iselVars
<1>8. QED
  BY <1>2, <1>3, <1>4, <1>5, <1>6, <1>7 DEF Next

(* An SP aligned for the stack and a distance that is a multiple of the    *)
(* object's alignment give an aligned address.                             *)
LEMMA AlignedDifference ==
  ASSUME NEW sp \in {64, 72}, NEW d \in Nat, NEW a \in {1, 2, 4, 8}, d % a = 0
  PROVE  (sp - d) % a = 0
<1>1. CASE a = 1
  BY <1>1, SMT
<1>2. CASE a = 2
  BY <1>2, SMT
<1>3. CASE a = 4
  BY <1>3, SMT
<1>4. CASE a = 8
  BY <1>4, SMT
<1>5. QED
  BY <1>1, <1>2, <1>3, <1>4

(* In a function that asks for no alignment above the stack's, the SP of   *)
(* the body is aligned and so is every object, whatever the sizes.         *)
THEOREM ObjectsAreAligned ==
  ASSUME Aligns \subseteq {1, 2, 4, 8}
  PROVE  Spec => []ObjectsAligned
<1>1. Init => LowAligned
  BY DEF Init, LowAligned, FI
<1>2. IInv /\ LowAligned /\ [Next]_vars => LowAligned'
  BY LowAlignedStep DEF IInv
<1>3. IInv /\ LowAligned => ObjectsAligned
  <2> SUFFICES ASSUME IInv, LowAligned, pass = "emit"
               PROVE  /\ stackSize % stackAlignment = 0
                      /\ \A entrySP \in {64, 72}, i \in Placed :
                           (entrySP - dist[i]) % objects[i].align = 0
    BY DEF ObjectsAligned
  <2>1. stackSize % stackAlignment = 0
    BY DEF IInv, FrameClosed
  <2>2. ASSUME NEW entrySP \in {64, 72}, NEW i \in Placed
        PROVE  (entrySP - dist[i]) % objects[i].align = 0
    <3>1. /\ dist[i] \in Nat
          /\ objects[i].align \in {1, 2, 4, 8}
          /\ dist[i] % objects[i].align = 0
      BY DEF IInv, TypeOK, Placed, PlacedBound, LowAligned
    <3>2. QED
      BY <3>1, AlignedDifference
  <2>3. QED
    BY <2>1, <2>2
<1>4. QED
  BY <1>1, <1>2, <1>3, InvariantHolds, PTL DEF Spec
-----------------------------------------------------------------------------
(* Operands.                                                               *)

(* The arguments lie one above the other.                                  *)
ArgsApart ==
  \A j, k \in DOMAIN fixed : j < k => fixed[j].offset + fixed[j].size <= fixed[k].offset

LEMMA ArgsApartStep ==
  ASSUME TypeOK, ArgsApart, [Next]_vars
  PROVE  ArgsApart'
<1>1. ASSUME NEW o \in ArgOffsets, NEW size \in ArgSizes, CreateFixedObject(o, size)
      PROVE  ArgsApart'
  <2>1. /\ fixed' = Append(fixed, [offset |-> o, size |-> size])
        /\ \A k \in DOMAIN fixed : fixed[k].offset + fixed[k].size <= o
    BY <1>1 DEF CreateFixedObject
  <2>2. /\ DOMAIN fixed' = DOMAIN fixed \cup {Len(fixed) + 1}
        /\ \A k \in DOMAIN fixed : fixed'[k] = fixed[k] /\ k < Len(fixed) + 1
        /\ fixed'[Len(fixed) + 1].offset = o
        /\ Len(fixed) \in Nat
    BY <2>1 DEF TypeOK
  <2>3. ASSUME NEW j \in DOMAIN fixed', NEW k \in DOMAIN fixed', j < k
        PROVE  fixed'[j].offset + fixed'[j].size <= fixed'[k].offset
    <3>1. j \in DOMAIN fixed
      BY <2>2, <2>3
    <3>2. CASE k \in DOMAIN fixed
      BY <2>2, <2>3, <3>1, <3>2 DEF ArgsApart
    <3>3. CASE k = Len(fixed) + 1
      BY <2>1, <2>2, <3>1, <3>3
    <3>4. QED
      BY <2>2, <3>2, <3>3
  <2>4. QED
    BY <2>3 DEF ArgsApart
<1>2. CASE UNCHANGED fixed
  BY <1>2 DEF ArgsApart
<1>3. UNCHANGED fixed \/ \E o \in ArgOffsets, size \in ArgSizes : CreateFixedObject(o, size)
  <2>1. CASE ISel
    BY <2>1 DEF ISel, CreateStackObject, RemoveStackObject, LowerCall, AllocateL
  <2>2. CASE PEI
    BY <2>2 DEF PEI, StartPEI, calculateCallFrameInfo, assignCalleeSavedSpillSlots,
                LayoutFixed, LayoutCalleeSaved, LayoutObject, LayoutEnd, iselVars
  <2>3. CASE Rewrite \/ UNCHANGED vars
    BY <2>3 DEF Rewrite, eliminateFrameIndex, vars, iselVars
  <2>4. QED
    BY <2>1, <2>2, <2>3 DEF Next
<1>4. QED
  BY <1>1, <1>2, <1>3

(* Once operands are rewritten every live object has been placed, and the  *)
(* last operand holds the displacement of a byte of a live object or of an *)
(* argument.                                                               *)
RefFollows ==
  /\ pass = "emit" => next \notin FI
  /\ ref.object # 0 =>
       /\ pass = "emit"
       /\ ref.object \in (FI \ dead) \cup FixedFI
       /\ ref.imm \in 0 .. getObjectSize(ref.object) - 1
       /\ ref.disp = getObjectOffset(ref.object) + stackSize + ref.imm

LEMMA RefFollowsStep ==
  ASSUME TypeOK, RefFollows, [Next]_vars
  PROVE  RefFollows'
<1>1. CASE ISel
  BY <1>1 DEF RefFollows, ISel, CreateStackObject, CreateFixedObject, RemoveStackObject,
              LowerCall, AllocateL
<1>2. CASE PEI
  <2>1. CASE LayoutEnd
    BY <2>1 DEF RefFollows, LayoutEnd, FI, iselVars
  <2>2. CASE ~LayoutEnd
    BY <1>2, <2>2 DEF RefFollows, PEI, StartPEI, calculateCallFrameInfo,
                      assignCalleeSavedSpillSlots, LayoutFixed, LayoutCalleeSaved,
                      LayoutObject
  <2>3. QED
    BY <2>1, <2>2
<1>3. CASE Rewrite
  <2>0. PICK fi \in FI \cup FixedFI : \E imm \in {0, getObjectSize(fi) - 1} :
               eliminateFrameIndex(fi, imm)
    BY <1>3 DEF Rewrite
  <2>1. PICK imm \in {0, getObjectSize(fi) - 1} : eliminateFrameIndex(fi, imm)
    BY <2>0
  <2>2. /\ UNCHANGED <<pass, next, objects, dead, fixed, dist, stackSize>>
        /\ pass = "emit"
        /\ fi \in (FI \ dead) \cup FixedFI
        /\ imm \in 0 .. getObjectSize(fi) - 1
        /\ ref'.object = fi /\ ref'.imm = imm
        /\ ref'.disp = getObjectOffset(fi) + stackSize + imm
    BY <2>1 DEF eliminateFrameIndex, iselVars, layoutVars
  <2>3. /\ FI' = FI /\ FixedFI' = FixedFI
        /\ getObjectSize(fi)' = getObjectSize(fi)
        /\ getObjectOffset(fi)' = getObjectOffset(fi)
    BY <2>2 DEF FI, FixedFI, getObjectSize, getObjectOffset
  <2>4. QED
    BY <2>2, <2>3 DEF RefFollows, getObjectSize, getObjectOffset
<1>4. CASE UNCHANGED vars
  BY <1>4 DEF RefFollows, vars, iselVars, layoutVars, FI, FixedFI, getObjectSize,
              getObjectOffset
<1>5. QED
  BY <1>1, <1>2, <1>3, <1>4 DEF Next

(* Where an object of a finished frame lies: below the entry SP when it is *)
(* the function's own, from the entry SP upwards when it is an argument.   *)
LEMMA WhereObjectsLie ==
  ASSUME IInv, pass = "emit", NEW fi \in Placed \cup FixedFI
  PROVE  /\ getObjectOffset(fi) \in Int /\ getObjectSize(fi) \in Nat
         /\ fi \in Placed => /\ fi \in Nat /\ fi > 0
                             /\ getObjectOffset(fi) + getObjectSize(fi) <= 0
                             /\ 0 <= getObjectOffset(fi) + stackSize - ReservedSize
         /\ fi \in FixedFI => fi < 0 /\ 0 <= getObjectOffset(fi)
<1>1. CASE fi \in Placed
  <2>1. fi \in FI /\ dist[fi] \in Nat
    BY <1>1 DEF Placed, IInv, TypeOK
  <2>2. /\ objects[fi].size <= dist[fi]
        /\ dist[fi] <= stackSize - ReservedSize
    BY <1>1 DEF IInv, PlacedBound, FrameClosed
  <2>3. /\ fi \in Nat /\ fi > 0
        /\ getObjectSize(fi) = objects[fi].size
        /\ getObjectOffset(fi) = -dist[fi]
        /\ getObjectSize(fi) \in Nat
    BY <2>1, LocalIndex DEF IInv
  <2>4. fi \notin FixedFI
    BY <2>3, FixedIndex DEF IInv
  <2>5. stackSize \in Nat /\ ReservedSize \in Nat
    BY DEF IInv, TypeOK, ReservedSize
  <2>6. QED
    BY <2>1, <2>2, <2>3, <2>4, <2>5
<1>2. CASE fi \in FixedFI
  <2>1. /\ fi \in Int /\ fi < 0
        /\ getObjectSize(fi) \in Nat
        /\ getObjectOffset(fi) \in Nat
    BY <1>2, FixedIndex DEF IInv
  <2>2. fi \notin Placed
    BY <2>1, LocalIndex DEF IInv, Placed
  <2>3. QED
    BY <2>1, <2>2
<1>3. QED
  BY <1>1, <1>2

(* A byte of a finished frame, or of the arguments above it, belongs to    *)
(* one object at most.                                                     *)
LEMMA BytesHaveOneObject ==
  ASSUME IInv, ArgsApart, pass = "emit", NEW d \in Int,
         NEW o \in Placed \cup FixedFI, NEW q \in Placed \cup FixedFI, o # q,
         Occupies(o, d)
  PROVE  ~ Occupies(q, d)
<1>1. CASE o \in Placed /\ q \in Placed
  <2>1. /\ o \in FI /\ dist[o] \in Nat /\ q \in FI /\ dist[q] \in Nat
    BY <1>1 DEF Placed, IInv, TypeOK
  <2>2. /\ getObjectSize(o) = objects[o].size /\ getObjectOffset(o) = -dist[o]
        /\ getObjectSize(q) = objects[q].size /\ getObjectOffset(q) = -dist[q]
        /\ objects[o].size \in Nat /\ objects[q].size \in Nat
    BY <2>1, LocalIndex DEF IInv
  <2>3. Below(o, q) \/ Below(q, o)
    BY <1>1 DEF IInv, ObjectsDisjoint
  <2>4. QED
    BY <2>1, <2>2, <2>3 DEF Below, Occupies
<1>2. CASE o \in FixedFI /\ q \in FixedFI
  <2>1. /\ o \in Int /\ -o \in DOMAIN fixed
        /\ getObjectSize(o) = fixed[-o].size /\ getObjectOffset(o) = fixed[-o].offset
        /\ fixed[-o].size \in Nat /\ fixed[-o].offset \in Nat
    BY <1>2, FixedIndex DEF IInv
  <2>2. /\ q \in Int /\ -q \in DOMAIN fixed
        /\ getObjectSize(q) = fixed[-q].size /\ getObjectOffset(q) = fixed[-q].offset
        /\ fixed[-q].size \in Nat /\ fixed[-q].offset \in Nat
    BY <1>2, FixedIndex DEF IInv
  <2>3. -o < -q \/ -q < -o
    BY <2>1, <2>2
  <2>4. \/ fixed[-o].offset + fixed[-o].size <= fixed[-q].offset
        \/ fixed[-q].offset + fixed[-q].size <= fixed[-o].offset
    BY <2>1, <2>2, <2>3 DEF ArgsApart
  <2>5. QED
    BY <2>1, <2>2, <2>4 DEF Occupies
<1>3. CASE o \in Placed /\ q \in FixedFI
  BY <1>3, WhereObjectsLie DEF Occupies
<1>4. CASE o \in FixedFI /\ q \in Placed
  BY <1>4, WhereObjectsLie DEF Occupies
<1>5. QED
  BY <1>1, <1>2, <1>3, <1>4

(* Every operand that is rewritten, one that refers to an incoming argument *)
(* included, addresses the byte of its own object, when every call frame   *)
(* is small enough to be reserved.                                         *)
THEOREM RefsReachTheirObjects ==
  ASSUME \A s \in CallFrames : s + stackAlignment \in UInt12
  PROVE  Spec => []RefReachesOnlyItsObject
<1>1. Init => RefFollows /\ ArgsApart
  BY DEF Init, RefFollows, NoRef, ArgsApart
<1>2. IInv /\ RefFollows /\ [Next]_vars => RefFollows'
  BY RefFollowsStep DEF IInv
<1>3. IInv /\ ArgsApart /\ [Next]_vars => ArgsApart'
  BY ArgsApartStep DEF IInv
<1>4. IInv /\ RefFollows /\ ArgsApart => RefReachesOnlyItsObject
  <2> SUFFICES ASSUME IInv, RefFollows, ArgsApart, ref.object # 0
               PROVE  RefReachesOnlyItsObject
    BY DEF RefReachesOnlyItsObject
  <2> DEFINE o == ref.object
             d == stackSize - ref.disp
  <2>1. /\ pass = "emit" /\ o \in (FI \ dead) \cup FixedFI /\ next \notin FI
        /\ ref.imm \in 0 .. getObjectSize(o) - 1
        /\ ref.disp = getObjectOffset(o) + stackSize + ref.imm
    BY DEF RefFollows
  <2>2. o \in Placed \cup FixedFI
    BY <2>1 DEF Placed, FI, IInv, TypeOK
  <2>3. /\ getObjectOffset(o) \in Int /\ getObjectSize(o) \in Nat
        /\ o \in Placed => 0 <= getObjectOffset(o) + stackSize - ReservedSize
        /\ o \in FixedFI => 0 <= getObjectOffset(o)
    BY <2>1, <2>2, WhereObjectsLie
  <2>4. stackSize \in Nat /\ maxCallFrame \in Nat /\ ReservedSize <= stackSize
    BY <2>1 DEF IInv, TypeOK, FrameClosed
  <2>5. ReservedSize = maxCallFrame
    BY DEF IInv, CallFrameBound, ReservedSize, hasReservedCallFrame
  <2>6. ref.imm \in Nat /\ ref.imm < getObjectSize(o) /\ ref.disp \in Int
    BY <2>1, <2>3, <2>4
  <2>7. d = -getObjectOffset(o) - ref.imm /\ d \in Int
    BY <2>1, <2>3, <2>4, <2>6
  <2>8. ref.disp >= maxCallFrame
    BY <2>1, <2>2, <2>3, <2>4, <2>5, <2>6
  <2>9. Occupies(o, d)
    BY <2>3, <2>6, <2>7 DEF Occupies
  <2>10. \A fi \in (Placed \cup FixedFI) \ {o} : ~ Occupies(fi, d)
    BY <2>1, <2>2, <2>7, <2>9, BytesHaveOneObject
  <2>11. QED
    BY <2>7, <2>8, <2>10 DEF RefReachesOnlyItsObject
<1>5. QED
  BY <1>1, <1>2, <1>3, <1>4, InvariantHolds, PTL DEF Spec

(* What isUInt<12> accepts.                                                *)
LEMMA FitsUInt12 == \A d \in Nat : d < 4096 => d \in UInt12
BY DEF UInt12

(* No displacement of an object exceeds the 12-bit field in a frame of at  *)
(* most 4096 bytes, and none of an incoming argument while the argument    *)
(* ends at most 4096 bytes above the SP of the body, whatever the call     *)
(* frames are.                                                             *)
THEOREM DisplacementsFitTheField == Spec => []DisplacementsFit
<1>1. Init => RefFollows
  BY DEF Init, RefFollows, NoRef
<1>2. IInv /\ RefFollows /\ [Next]_vars => RefFollows'
  BY RefFollowsStep DEF IInv
<1>3. IInv /\ RefFollows => DisplacementsFit
  <2> DEFINE o == ref.object
             end == getObjectOffset(o) + getObjectSize(o)
             above == IF o < 0 THEN end ELSE 0
             d == ref.disp
  <2> SUFFICES ASSUME IInv, RefFollows, o # 0, stackSize + above <= 4096
               PROVE  d \in UInt12
    BY DEF DisplacementsFit
  <2>1. /\ pass = "emit" /\ o \in (FI \ dead) \cup FixedFI /\ next \notin FI
        /\ ref.imm \in 0 .. getObjectSize(o) - 1
        /\ d = getObjectOffset(o) + stackSize + ref.imm
    BY DEF RefFollows
  <2>2. o \in Placed \cup FixedFI
    BY <2>1 DEF Placed, FI, IInv, TypeOK
  <2>3. ReservedSize \in Nat /\ stackSize \in Nat
    BY DEF ReservedSize, IInv, TypeOK
  <2>4. /\ getObjectOffset(o) \in Int /\ getObjectSize(o) \in Nat
        /\ o \in Placed => /\ o \in Nat /\ o > 0
                           /\ end <= 0
                           /\ 0 <= getObjectOffset(o) + stackSize - ReservedSize
        /\ o \in FixedFI => o < 0 /\ 0 <= getObjectOffset(o)
    BY <2>1, <2>2, WhereObjectsLie
  <2>5. 0 <= getObjectOffset(o) + stackSize
    BY <2>2, <2>3, <2>4
  <2>6. end <= above /\ above \in Int
    BY <2>2, <2>4
  <2>7. d \in Int /\ 0 <= d /\ d < stackSize + end
    BY <2>1, <2>3, <2>4, <2>5
  <2>8. d \in Nat /\ d < 4096
    <3> HIDE DEF d, above
    <3>1. QED
      BY <2>3, <2>4, <2>6, <2>7
  <2>9. QED
    BY <2>8, FitsUInt12
<1>4. QED
  BY <1>1, <1>2, <1>3, InvariantHolds, PTL DEF Spec
-----------------------------------------------------------------------------
(* The frame a running program sees.                                       *)

Early == {"isel", "callframes"}

(* The slot of L: there is none before it is assigned, and afterwards      *)
(* there is one for every function that changes L or has calls.            *)
SlotOfL ==
  /\ pass \in Early => csFI = 0
  /\ pass \notin Early /\ (modifiesL \/ callFrames # <<>>) => csFI # 0
  /\ csFI # 0 => objects[csFI].size = RegSize

(* Once the loop over the calls has passed one, its call frame is counted. *)
CallsCounted ==
  /\ pass = "isel" => next = 1
  /\ \A k \in DOMAIN callFrames :
       k < next \/ pass \notin Early => maxCallFrame >= callFrames[k]

LEMMA SlotOfLStep ==
  ASSUME TypeOK, SlotOfL, [Next]_vars
  PROVE  SlotOfL'
<1>1. CASE ISel
  BY <1>1 DEF SlotOfL, Early, ISel, CreateStackObject, CreateFixedObject,
              RemoveStackObject, LowerCall, AllocateL
<1>2. CASE assignCalleeSavedSpillSlots
  <2>1. pass' = "fixed" /\ UNCHANGED <<callFrames, modifiesL>> /\ csFI = 0
    BY <1>2 DEF assignCalleeSavedSpillSlots, SlotOfL, Early
  <2>2. CASE modifiesL \/ callFrames # <<>>
    <3>1. PICK align : /\ objects' = Append(objects, [size |-> RegSize, align |-> align])
                       /\ csFI' = Len(objects) + 1
      BY <1>2, <2>2 DEF assignCalleeSavedSpillSlots
    <3>2. objects'[csFI'] = [size |-> RegSize, align |-> align]
      BY <3>1 DEF TypeOK
    <3>3. csFI' # 0
      BY <3>1 DEF TypeOK
    <3>4. QED
      BY <2>1, <3>2, <3>3 DEF SlotOfL, Early, RegSize
  <2>3. CASE ~(modifiesL \/ callFrames # <<>>)
    BY <1>2, <2>1, <2>3 DEF assignCalleeSavedSpillSlots, SlotOfL, Early
  <2>4. QED
    BY <2>2, <2>3
<1>3. ASSUME PEI, ~assignCalleeSavedSpillSlots
      PROVE  SlotOfL'
  <2>1. /\ UNCHANGED <<objects, callFrames, modifiesL, csFI>>
        /\ pass \in Early <=> pass' \in Early
    BY <1>3 DEF PEI, StartPEI, calculateCallFrameInfo, LayoutFixed, LayoutCalleeSaved,
                LayoutObject, LayoutEnd, iselVars, Early
  <2>2. QED
    BY <2>1 DEF SlotOfL, RegSize
<1>4. CASE Rewrite \/ UNCHANGED vars
  <2>1. UNCHANGED <<objects, callFrames, modifiesL, csFI, pass>>
    BY <1>4 DEF Rewrite, eliminateFrameIndex, vars, iselVars
  <2>2. QED
    BY <2>1 DEF SlotOfL, Early, RegSize
<1>5. QED
  BY <1>1, <1>2, <1>3, <1>4 DEF Next

LEMMA CallsCountedStep ==
  ASSUME TypeOK, CallsCounted, [Next]_vars
  PROVE  CallsCounted'
<1>1. \A k \in DOMAIN callFrames : k \in Nat \ {0} /\ callFrames[k] \in Nat
  BY DEF TypeOK
<1>2. next \in Nat /\ maxCallFrame \in Nat
  BY DEF TypeOK
<1>3. CASE ISel
  <2>1. pass = "isel" /\ pass' = "isel" /\ next' = 1
    BY <1>3 DEF ISel, CreateStackObject, CreateFixedObject, RemoveStackObject, LowerCall,
                AllocateL, CallsCounted, layoutVars
  <2>2. callFrames' \in Seq(Nat)
    BY <1>3, ISelType DEF TypeOK
  <2>3. \A k \in DOMAIN callFrames' : ~(k < next')
    BY <2>1, <2>2
  <2>4. QED
    BY <2>1, <2>3 DEF CallsCounted, Early
<1>4. CASE calculateCallFrameInfo
  <2>1. /\ pass = "callframes" /\ pass' = pass /\ next' = next + 1
        /\ UNCHANGED callFrames /\ next \in DOMAIN callFrames
        /\ maxCallFrame' = Larger(callFrames[next], maxCallFrame)
    BY <1>4, <1>2 DEF calculateCallFrameInfo, iselVars, TypeOK
  <2>2. maxCallFrame' >= maxCallFrame /\ maxCallFrame' >= callFrames[next]
        /\ maxCallFrame' \in Nat
    BY <2>1, <1>1, <1>2 DEF Larger
  <2>3. ASSUME NEW k \in DOMAIN callFrames, k < next + 1
        PROVE  maxCallFrame' >= callFrames[k]
    <3>1. CASE k = next
      BY <3>1, <2>2
    <3>2. CASE k # next
      <4>1. k < next
        BY <3>2, <2>3, <1>1, <1>2
      <4>2. maxCallFrame >= callFrames[k]
        BY <4>1 DEF CallsCounted
      <4>3. QED
        BY <4>2, <2>2, <1>1, <1>2
    <3>3. QED
      BY <3>1, <3>2
  <2>4. QED
    BY <2>1, <2>3 DEF CallsCounted, Early
<1>5. CASE assignCalleeSavedSpillSlots
  <2>1. /\ pass' = "fixed" /\ next > Len(callFrames)
        /\ UNCHANGED <<callFrames, maxCallFrame>>
    BY <1>5 DEF assignCalleeSavedSpillSlots, pseudoVars
  <2>2. \A k \in DOMAIN callFrames : k < next
    BY <2>1, <1>2 DEF TypeOK
  <2>3. QED
    BY <2>1, <2>2 DEF CallsCounted, Early
<1>6. CASE StartPEI
  BY <1>6 DEF StartPEI, iselVars, pseudoVars, layoutVars, CallsCounted, Early
<1>7. CASE LayoutFixed \/ LayoutCalleeSaved \/ LayoutObject \/ LayoutEnd
  <2>1. /\ UNCHANGED <<callFrames, maxCallFrame>>
        /\ pass \notin Early /\ pass' \notin Early
    BY <1>7 DEF LayoutFixed, LayoutCalleeSaved, LayoutObject, LayoutEnd, iselVars,
                pseudoVars, Early
  <2>2. QED
    BY <2>1 DEF CallsCounted, Early
<1>8. CASE Rewrite \/ UNCHANGED vars
  <2>1. UNCHANGED <<callFrames, maxCallFrame, pass, next>>
    BY <1>8 DEF Rewrite, eliminateFrameIndex, vars, iselVars, pseudoVars, layoutVars
  <2>2. QED
    BY <2>1 DEF CallsCounted, Early
<1>9. QED
  BY <1>3, <1>4, <1>5, <1>6, <1>7, <1>8 DEF Next, PEI

(* What the layout guarantees of the slot of L and of a local, from which  *)
(* the contract of a frame follows.                                        *)
LEMMA SuitableFrame ==
  ASSUME IInv, SlotOfL, CallsCounted, OutgoingAreaFree, pass = "emit",
         \A k \in DOMAIN callFrames : callFrames[k] >= RegSize,
         NEW i \in Placed \ {csFI}, objects[i].size >= RegSize
  PROVE  Suitable(FrameWith(i), callFrames # <<>>)
<1> DEFINE local == stackSize - dist[i]
           slot == IF csFI = 0 THEN 0 ELSE stackSize - dist[csFI]
           G == FrameWith(i)
<1>1. G.size = stackSize /\ G.savesL = (csFI # 0) /\ G.slotL = slot /\ G.local = local
  BY DEF FrameWith
<1>2. /\ stackSize \in Nat /\ maxCallFrame \in Nat /\ ReservedSize \in Nat
      /\ stackSize % 8 = 0
  BY DEF IInv, TypeOK, ReservedSize, FrameClosed, stackAlignment
<1>3. \A j \in Placed : /\ dist[j] \in Nat /\ objects[j].size \in Nat
                       /\ objects[j].size <= dist[j] /\ dist[j] <= stackSize
                       /\ stackSize - dist[j] >= maxCallFrame
  <2> SUFFICES ASSUME NEW j \in Placed
               PROVE  /\ dist[j] \in Nat /\ objects[j].size \in Nat
                      /\ objects[j].size <= dist[j] /\ dist[j] <= stackSize
                      /\ stackSize - dist[j] >= maxCallFrame
    OBVIOUS
  <2>1. j \in FI /\ dist[j] \in Nat
    BY DEF IInv, TypeOK, Placed
  <2>2. objects[j].size \in Nat
    BY <2>1, ObjectType DEF IInv
  <2>3. QED
    BY <2>1, <2>2, <1>2 DEF IInv, PlacedBound, FrameClosed, OutgoingAreaFree
<1>4. local \in Nat /\ local + 3 <= stackSize /\ local >= maxCallFrame
  BY <1>2, <1>3 DEF RegSize
<1>5. ASSUME csFI # 0
      PROVE  /\ csFI \in Placed
             /\ slot \in Nat /\ slot + 3 <= stackSize /\ slot >= maxCallFrame
             /\ Apart(slot, local)
  <2>1. csFI \in Placed /\ objects[csFI].size = 3
    BY <1>5 DEF IInv, TypeOK, Placed, FI, SlotOfL, RegSize
  <2>2. slot = stackSize - dist[csFI]
    BY <1>5
  <2>3. Below(i, csFI) \/ Below(csFI, i)
    BY <2>1 DEF IInv, ObjectsDisjoint
  <2>4. Apart(slot, local)
    BY <2>1, <2>2, <2>3, <1>2, <1>3 DEF Below, Apart, RegSize
  <2>5. QED
    BY <2>1, <2>2, <2>4, <1>2, <1>3
<1>6. ASSUME callFrames # <<>>
      PROVE  csFI # 0 /\ maxCallFrame >= 3
  <2>1. csFI # 0
    BY <1>6 DEF SlotOfL, Early
  <2>2. 1 \in DOMAIN callFrames /\ callFrames[1] \in Nat
    BY <1>6 DEF IInv, TypeOK
  <2>3. maxCallFrame >= callFrames[1] /\ callFrames[1] >= 3
    BY <2>2 DEF CallsCounted, Early, RegSize
  <2>4. QED
    BY <2>1, <2>2, <2>3, <1>2
<1>7. slot \in Nat
  BY <1>5
<1> HIDE DEF local, slot, G
<1>8. /\ G.size \in Nat /\ G.slotL \in Nat /\ G.local \in Nat
      /\ G.size % 8 = 0
      /\ G.local + 3 <= G.size
  BY <1>1, <1>2, <1>4, <1>7
<1>9. G.savesL \in BOOLEAN /\ (G.savesL <=> csFI # 0)
  BY <1>1, Zenon
<1>10. G.savesL => G.slotL + 3 <= G.size /\ Apart(G.slotL, G.local)
  <2>1. SUFFICES ASSUME csFI # 0
                 PROVE  G.slotL + 3 <= G.size /\ Apart(G.slotL, G.local)
    BY <1>9, Zenon
  <2>2. QED
    BY <1>1, <1>5, <2>1
<1>11. ASSUME callFrames # <<>>
       PROVE  G.savesL /\ G.slotL >= 3 /\ G.local >= 3
  <2>1. csFI # 0 /\ maxCallFrame >= 3
    BY <1>6, <1>11
  <2>2. slot >= 3 /\ local >= 3
    BY <2>1, <1>2, <1>4, <1>5
  <2>3. G.savesL
    BY <2>1, <1>9, Zenon
  <2>4. QED
    BY <2>2, <2>3, <1>1, Zenon
<1>12. Suitable(G, callFrames # <<>>)
  BY <1>8, <1>9, <1>10, <1>11, Zenon DEF Suitable
<1>13. QED
  BY <1>12 DEF G

(* Of a function whose calls pass at least a word each and whose call      *)
(* frames can all be reserved, the layout makes a frame on which SICExec   *)
(* shows that calls work, whichever local one looks at.                    *)
THEOREM FramesSuitTheProgram ==
  ASSUME \A s \in CallFrames : s + stackAlignment \in UInt12
  PROVE  Spec => []FramesAreSuitable
<1>1. Init => SlotOfL /\ CallsCounted
  BY DEF Init, SlotOfL, CallsCounted, Early
<1>2. IInv /\ SlotOfL /\ [Next]_vars => SlotOfL'
  BY SlotOfLStep DEF IInv
<1>3. IInv /\ CallsCounted /\ [Next]_vars => CallsCounted'
  BY CallsCountedStep DEF IInv
<1>4. IInv /\ SlotOfL /\ CallsCounted /\ OutgoingAreaFree => FramesAreSuitable
  <2> SUFFICES ASSUME IInv, SlotOfL, CallsCounted, OutgoingAreaFree, pass = "emit",
                      \A k \in DOMAIN callFrames : callFrames[k] >= RegSize
               PROVE  /\ modifiesL => csFI # 0
                      /\ \A i \in Placed \ {csFI} :
                           objects[i].size >= RegSize =>
                             Suitable(FrameWith(i), callFrames # <<>>)
    BY DEF FramesAreSuitable
  <2>1. modifiesL => csFI # 0
    BY DEF SlotOfL, Early
  <2>2. QED
    BY <2>1, SuitableFrame
<1>5. Spec => []OutgoingAreaFree
  BY OutgoingAreaIsFree
<1>6. QED
  BY <1>1, <1>2, <1>3, <1>4, <1>5, InvariantHolds, PTL DEF Spec
=============================================================================
