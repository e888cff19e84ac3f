------------------------------ MODULE SICFrame ------------------------------
(***************************************************************************)
(* The stack frame of one function: the objects that instruction selection *)
(* and register allocation put in its MachineFrameInfo, the layout that    *)
(* PEI::calculateFrameObjectOffsets computes for them with the hooks of    *)
(* SICFrameLowering, and the X-relative displacement that                  *)
(* SICRegisterInfo::eliminateFrameIndex gives each reference to an object. *)
(*                                                                         *)
(* The stack grows down.  A distance is measured from the stack pointer at *)
(* function entry towards lower addresses, as the C++ variable Offset is:  *)
(* the object at distance d occupies the bytes entrySP-d .. entrySP-d+size-1. *)
(* Frame index k >= 0 of the code is the element k+1 of objects; a fixed   *)
(* object, which stands for an incoming argument, keeps its negative index. *)
(***************************************************************************)
EXTENDS Sequences, FrameContract

CONSTANTS
  Sizes,        (* sizes of stack objects, in bytes                          *)
  Aligns,       (* alignments requested for stack objects                    *)
  ArgOffsets,   (* offsets of incoming arguments, from the entry SP upwards  *)
  ArgSizes,     (* sizes of incoming arguments, in bytes                     *)
  CallFrames,   (* operands of ADJCALLSTACKDOWN, one per call                *)
  MaxObjects,   (* bound: objects a function creates before PEI              *)
  MaxCalls      (* bound: calls in a function                                *)

Alignments == {1, 2, 4, 8, 16}

ASSUME SizesAssumption   == Sizes \subseteq Nat \ {0}
ASSUME AlignsAssumption  == Aligns \subseteq Alignments
ASSUME ArgsAssumption    == ArgOffsets \subseteq Nat /\ ArgSizes \subseteq Nat \ {0}
ASSUME CallsAssumption   == CallFrames \subseteq Nat
ASSUME BoundsAssumption  == MaxObjects \in Nat /\ MaxCalls \in Nat

VARIABLES
  pass,          (* the pass that runs next                                  *)
  objects,       (* MachineFrameInfo::Objects, the non-fixed ones            *)
  fixed,         (* the fixed objects: element k has the frame index -k      *)
  dead,          (* frame indices given to RemoveStackObject                 *)
  callFrames,    (* sizes on the call frame pseudo instructions, in order    *)
  modifiesL,     (* the function holds an instruction that defines L         *)
  adjustsStack,  (* MachineFrameInfo::AdjustsStack                           *)
  maxCallFrame,  (* MachineFrameInfo::MaxCallFrameSize                       *)
  csFI,          (* frame index of the slot that saves L, 0 when L is not saved *)
  next,          (* loop variable of the pass                                *)
  offset,        (* the layout's Offset                                      *)
  maxAlign,      (* MachineFrameInfo::MaxAlignment                           *)
  dist,          (* -getObjectOffset of each object the layout has placed    *)
  stackSize,     (* MachineFrameInfo::StackSize                              *)
  ref            (* the operand eliminateFrameIndex rewrote last             *)

iselVars   == <<objects, fixed, dead, callFrames, modifiesL>>
pseudoVars == <<adjustsStack, maxCallFrame>>
layoutVars == <<next, offset, dist>>
vars == <<pass, iselVars, pseudoVars, csFI, layoutVars, maxAlign, stackSize, ref>>

FI == 1 .. Len(objects)
FixedFI == {-k : k \in DOMAIN fixed}

StackObject == [size : Nat \ {0}, align : Alignments]
FixedObject == [offset : Nat, size : Nat \ {0}]

getObjectSize(fi)   == IF fi < 0 THEN fixed[-fi].size ELSE objects[fi].size
getObjectOffset(fi) == IF fi < 0 THEN fixed[-fi].offset ELSE -dist[fi]

stackAlignment == 8
RegSize  == 3      \* a 24-bit register in memory
RegAlign == 4

UInt12 == {n \in Nat : n < 4096}

Larger(a, b) == IF a >= b THEN a ELSE b

alignTo(value, align) == ((value + align - 1) \div align) * align

NoRef == [object |-> 0, imm |-> 0, disp |-> 0]
-----------------------------------------------------------------------------
(* Instruction selection and register allocation.                          *)

(* Static allocas, by-value copies and spill slots.  SICFrameLowering      *)
(* leaves StackReal at its default, so an alignment above the stack's is   *)
(* kept, not clamped.                                                      *)
CreateStackObject(size, align) ==
  /\ pass = "isel"
  /\ Len(objects) < MaxObjects
  /\ objects' = Append(objects, [size |-> size, align |-> align])
  /\ maxAlign' = Larger(maxAlign, align)
  /\ UNCHANGED <<pass, fixed, dead, callFrames, modifiesL, pseudoVars, csFI,
                 layoutVars, stackSize, ref>>

(* LowerFormalArguments: an argument stays where the caller stored it.  Its *)
(* slot lies above those of the arguments before it (CCState's             *)
(* AllocateStack).                                                         *)
CreateFixedObject(spOffset, size) ==
  /\ pass = "isel"
  /\ \A k \in DOMAIN fixed : fixed[k].offset + fixed[k].size <= spOffset
  /\ fixed' = Append(fixed, [offset |-> spOffset, size |-> size])
  /\ UNCHANGED <<pass, objects, dead, callFrames, modifiesL, pseudoVars, csFI,
                 layoutVars, maxAlign, stackSize, ref>>

(* StackColoring and StackSlotColoring merge slots and remove the emptied  *)
(* ones.                                                                   *)
RemoveStackObject(i) ==
  /\ pass = "isel"
  /\ dead' = dead \cup {i}
  /\ UNCHANGED <<pass, objects, fixed, callFrames, modifiesL, pseudoVars, csFI,
                 layoutVars, maxAlign, stackSize, ref>>

(* LowerCall brackets the call with ADJCALLSTACKDOWN and ADJCALLSTACKUP;   *)
(* JSUB defines L.                                                         *)
LowerCall(size) ==
  /\ pass = "isel"
  /\ Len(callFrames) < MaxCalls
  /\ callFrames' = Append(callFrames, size)
  /\ modifiesL' = TRUE
  /\ UNCHANGED <<pass, objects, fixed, dead, pseudoVars, csFI, layoutVars,
                 maxAlign, stackSize, ref>>

(* L is not reserved: the register allocator may use it for a value.       *)
AllocateL ==
  /\ pass = "isel"
  /\ modifiesL' = TRUE
  /\ UNCHANGED <<pass, objects, fixed, dead, callFrames, pseudoVars, csFI,
                 layoutVars, maxAlign, stackSize, ref>>
-----------------------------------------------------------------------------
(* Prologue and epilogue insertion.                                        *)

StartPEI ==
  /\ pass = "isel"
  /\ pass' = "callframes"
  /\ UNCHANGED <<iselVars, pseudoVars, csFI, layoutVars, maxAlign, stackSize, ref>>

(* The loop over the call frame pseudo instructions.                       *)
calculateCallFrameInfo ==
  /\ pass = "callframes"
  /\ next <= Len(callFrames)
  /\ next' = next + 1
  /\ maxCallFrame' = Larger(callFrames[next], maxCallFrame)
  /\ adjustsStack' = TRUE
  /\ UNCHANGED <<pass, iselVars, csFI, offset, dist, maxAlign, stackSize, ref>>

assignCalleeSavedSpillSlots_pastEnd ==
  /\ pass = "callframes"
  /\ next > Len(callFrames)
  /\ pass' = "fixed"
  /\ next' = 1
  /\ IF modifiesL \/ callFrames # <<>>
       THEN /\ objects' = Append(objects, [size |-> RegSize, align |-> RegAlign])
            /\ csFI' = Len(objects) + 2
            /\ maxAlign' = Larger(maxAlign, RegAlign)
       ELSE UNCHANGED <<objects, csFI, maxAlign>>
  /\ UNCHANGED <<fixed, dead, callFrames, modifiesL, pseudoVars, offset, dist,
                 stackSize, ref>>

(* determineCalleeSaves saves L when an instruction modifies it or the     *)
(* function has calls; L is the only callee-saved register.                *)
assignCalleeSavedSpillSlots ==
  /\ pass = "callframes"
  /\ next > Len(callFrames)
  /\ pass' = "fixed"
  /\ next' = 1
  /\ IF modifiesL \/ callFrames # <<>>
       THEN LET align == IF RegAlign < stackAlignment THEN RegAlign
                                                      ELSE stackAlignment
            IN /\ objects' = Append(objects, [size |-> RegSize, align |-> align])
               /\ csFI' = Len(objects) + 1
               /\ maxAlign' = Larger(maxAlign, align)
       ELSE UNCHANGED <<objects, csFI, maxAlign>>
  /\ UNCHANGED <<fixed, dead, callFrames, modifiesL, pseudoVars, offset, dist,
                 stackSize, ref>>

hasReservedCallFrame == maxCallFrame + stackAlignment \in UInt12

PlacedAt_noSize(i) == alignTo(offset, objects[i].align)
PlacedAt_sizeAfter(i) == alignTo(offset, objects[i].align) + objects[i].size

(* AdjustStackOffset for a stack that grows down.                          *)
PlacedAt(i) == alignTo(offset + objects[i].size, objects[i].align)

Place(i) ==
  /\ offset' = PlacedAt(i)
  /\ dist' = [dist EXCEPT ![i] = PlacedAt(i)]

(* Offset starts past the fixed objects that lie below the entry SP.       *)
LayoutFixed ==
  /\ pass = "fixed"
  /\ pass' = "callee-saved"
  /\ LET FixedOffs == {-fixed[k].offset : k \in DOMAIN fixed}
     IN offset' = CHOOSE o \in {0} \cup FixedOffs :
                    o >= 0 /\ \A f \in FixedOffs : f <= o
  /\ dist' = [i \in FI |-> 0]
  /\ UNCHANGED <<iselVars, pseudoVars, csFI, next, maxAlign, stackSize, ref>>

LayoutCalleeSaved_exclusive ==
  /\ pass = "callee-saved"
  /\ pass' = "objects"
  /\ UNCHANGED <<iselVars, pseudoVars, csFI, next, offset, dist, maxAlign,
                 stackSize, ref>>

LayoutCalleeSaved ==
  /\ pass = "callee-saved"
  /\ pass' = "objects"
  /\ IF csFI # 0 THEN Place(csFI) ELSE UNCHANGED <<offset, dist>>
  /\ UNCHANGED <<iselVars, pseudoVars, csFI, next, maxAlign, stackSize, ref>>

LayoutObject ==
  /\ pass = "objects"
  /\ next \in FI
  /\ next' = next + 1
  /\ IF next = csFI \/ next \in dead
       THEN UNCHANGED <<offset, dist, maxAlign>>
       ELSE /\ Place(next)
            /\ maxAlign' = Larger(maxAlign, objects[next].align)
  /\ UNCHANGED <<pass, iselVars, pseudoVars, csFI, stackSize, ref>>

LayoutEnd_noCallFrame ==
  /\ pass = "objects"
  /\ next \notin FI
  /\ pass' = "emit"
  /\ offset' = alignTo(offset, Larger(stackAlignment, maxAlign))
  /\ stackSize' = offset'
  /\ UNCHANGED <<iselVars, pseudoVars, csFI, next, dist, maxAlign, ref>>

LayoutEnd_roundDown ==
  /\ pass = "objects"
  /\ next \notin FI
  /\ pass' = "emit"
  /\ LET reserved == IF adjustsStack /\ hasReservedCallFrame
                       THEN offset + maxCallFrame ELSE offset
         align == Larger(stackAlignment, maxAlign)
     IN /\ offset' = (reserved \div align) * align
        /\ stackSize' = offset'
  /\ UNCHANGED <<iselVars, pseudoVars, csFI, next, dist, maxAlign, ref>>

(* The transient alignment equals the stack alignment, so leaf functions   *)
(* round to it as well.                                                    *)
LayoutEnd ==
  /\ pass = "objects"
  /\ next \notin FI
  /\ pass' = "emit"
  /\ LET reserved == IF adjustsStack /\ hasReservedCallFrame
                       THEN offset + maxCallFrame ELSE offset
     IN /\ offset' = alignTo(reserved, Larger(stackAlignment, maxAlign))
        /\ stackSize' = offset'
  /\ UNCHANGED <<iselVars, pseudoVars, csFI, next, dist, maxAlign, ref>>

eliminateFrameIndex_argsAtSP(fi, imm) ==
  /\ pass = "emit"
  /\ fi \in (FI \ dead) \cup FixedFI
  /\ imm \in 0 .. getObjectSize(fi) - 1
  /\ ref' = [object |-> fi, imm |-> imm,
             disp |-> (IF fi < 0 THEN 0 ELSE stackSize) + getObjectOffset(fi) + imm]
  /\ UNCHANGED <<pass, iselVars, pseudoVars, csFI, layoutVars, maxAlign,
                 stackSize>>

eliminateFrameIndex_signSlip(fi, imm) ==
  /\ pass = "emit"
  /\ fi \in (FI \ dead) \cup FixedFI
  /\ imm \in 0 .. getObjectSize(fi) - 1
  /\ ref' = [object |-> fi, imm |-> imm,
             disp |-> stackSize - getObjectOffset(fi) + imm]
  /\ UNCHANGED <<pass, iselVars, pseudoVars, csFI, layoutVars, maxAlign,
                 stackSize>>

(* An instruction refers to byte imm of an object of the frame or of an    *)
(* incoming argument.  The operand becomes X and the displacement; nothing *)
(* is done when it exceeds the field.                                      *)
eliminateFrameIndex(fi, imm) ==
  /\ pass = "emit"
  /\ fi \in (FI \ dead) \cup FixedFI
  /\ imm \in 0 .. getObjectSize(fi) - 1
  /\ ref' = [object |-> fi, imm |-> imm,
             disp |-> getObjectOffset(fi) + stackSize + imm]
  /\ UNCHANGED <<pass, iselVars, pseudoVars, csFI, layoutVars, maxAlign,
                 stackSize>>
-----------------------------------------------------------------------------
Init ==
  /\ pass = "isel"
  /\ objects = <<>>
  /\ fixed = <<>>
  /\ dead = {}
  /\ callFrames = <<>>
  /\ modifiesL = FALSE
  /\ adjustsStack = FALSE
  /\ maxCallFrame = 0
  /\ csFI = 0
  /\ next = 1
  /\ offset = 0
  /\ maxAlign = 0
  /\ dist = <<>>
  /\ stackSize = 0
  /\ ref = NoRef

ISel ==
  \/ \E size \in Sizes, align \in Aligns : CreateStackObject(size, align)
  \/ \E o \in ArgOffsets, size \in ArgSizes : CreateFixedObject(o, size)
  \/ \E i \in FI : RemoveStackObject(i)
  \/ \E s \in CallFrames : LowerCall(s)
  \/ AllocateL

PEI ==
  \/ StartPEI
  \/ calculateCallFrameInfo
  \/ assignCalleeSavedSpillSlots
  \/ LayoutFixed
  \/ LayoutCalleeSaved
  \/ LayoutObject
  \/ LayoutEnd

(* References to the first and to the last byte of each object and of each *)
(* argument.                                                               *)
Rewrite ==
  \E fi \in FI \cup FixedFI :
    \E imm \in {0, getObjectSize(fi) - 1} : eliminateFrameIndex(fi, imm)

Next == ISel \/ PEI \/ Rewrite

Spec == Init /\ [][Next]_vars
-----------------------------------------------------------------------------
(* Properties.                                                             *)

Passes == {"isel", "callframes", "fixed", "callee-saved", "objects", "emit"}

(* Every variable keeps the shape of its C++ counterpart.                  *)
TypeOK ==
  /\ pass \in Passes
  /\ objects \in Seq(StackObject)
  /\ fixed \in Seq(FixedObject)
  /\ dead \subseteq FI
  /\ callFrames \in Seq(Nat)
  /\ modifiesL \in BOOLEAN
  /\ adjustsStack \in BOOLEAN
  /\ maxCallFrame \in Nat
  /\ csFI \in 0 .. Len(objects)
  /\ next \in Nat \ {0}
  /\ offset \in Nat
  /\ maxAlign \in Alignments \cup {0}
  /\ pass \in {"callee-saved", "objects", "emit"} => dist \in [FI -> Nat]
  /\ stackSize \in Nat
  /\ ref \in [object : Int, imm : Nat, disp : Int]

(* The objects the layout has given an address.                            *)
Placed == {i \in FI : /\ pass \in {"objects", "emit"}
                      /\ i = csFI \/ (i < next /\ i \notin dead)}

Below(i, j) == dist[i] <= dist[j] - objects[j].size

(* No two objects that have an address share a byte, whatever order the    *)
(* callee-saved slot and the other objects were created in: a store to a   *)
(* local never changes another local, a spill slot or the saved L.         *)
ObjectsDisjoint ==
  \A i, j \in Placed : i # j => Below(i, j) \/ Below(j, i)

(* When the frame is laid out, every object lies between the SP of the body *)
(* and the SP at entry, so neither a callee nor the caller's incoming      *)
(* arguments share bytes with it.                                          *)
FrameHoldsObjects ==
  pass = "emit" =>
    \A i \in Placed : objects[i].size <= dist[i] /\ dist[i] <= stackSize

(* LowerCall stores the arguments of a call from the SP upwards: the bytes  *)
(* 0 .. maxCallFrame-1 above the SP of the body belong to no object.       *)
OutgoingAreaFree ==
  pass = "emit" => \A i \in Placed : stackSize - dist[i] >= maxCallFrame

(* An SP that is a multiple of stackAlignment at entry is one at each call  *)
(* too, and each object then has the alignment it was created with.  72 and *)
(* 64 stand for the two residues of such an SP modulo the largest alignment. *)
ObjectsAligned ==
  pass = "emit" =>
    /\ stackSize % stackAlignment = 0
    /\ \A entrySP \in {64, 72}, i \in Placed :
         (entrySP - dist[i]) % objects[i].align = 0

(* The byte at distance d from the entry SP is one of object fi.           *)
Occupies(fi, d) ==
  /\ d <= -getObjectOffset(fi)
  /\ -getObjectOffset(fi) < d + getObjectSize(fi)

(* The byte that a rewritten operand addresses is the byte of the object or *)
(* incoming argument the instruction referred to, and neither part of      *)
(* another object, nor of another argument, nor of the outgoing arguments. *)
RefReachesOnlyItsObject ==
  ref.object # 0 =>
    LET d == stackSize - ref.disp      \* distance of the byte from entry SP
    IN /\ d = -getObjectOffset(ref.object) - ref.imm
       /\ ref.disp >= maxCallFrame
       /\ \A fi \in (Placed \cup FixedFI) \ {ref.object} : ~ Occupies(fi, d)

(* Nothing refuses a displacement that the 12-bit field cannot hold (the   *)
(* assertion that should is of a string, always true).  None comes up for  *)
(* an object while the frame has at most 4096 bytes, nor for an incoming   *)
(* argument, which lies above the frame, while the frame and the caller's  *)
(* area up to the end of that argument have at most 4096 bytes together.   *)
DisplacementsFit ==
  LET above == IF ref.object < 0
                 THEN getObjectOffset(ref.object) + getObjectSize(ref.object)
                 ELSE 0
  IN ref.object # 0 /\ stackSize + above <= 4096 => ref.disp \in UInt12

(* The frame as code that runs on it sees it, with object i as its local.  *)
FrameWith(i) ==
  [size   |-> stackSize,
   savesL |-> csFI # 0,
   slotL  |-> IF csFI = 0 THEN 0 ELSE stackSize - dist[csFI],
   local  |-> stackSize - dist[i]]

(* The finished frame of a function whose calls all pass a word is one on  *)
(* which SICExec shows that calls work: each local is apart from the saved *)
(* L and from the outgoing arguments, and L is saved wherever it changes.  *)
FramesAreSuitable ==
  pass = "emit" /\ (\A k \in DOMAIN callFrames : callFrames[k] >= RegSize) =>
    /\ modifiesL => csFI # 0
    /\ \A i \in Placed \ {csFI} :
         objects[i].size >= RegSize => Suitable(FrameWith(i), callFrames # <<>>)
=============================================================================
