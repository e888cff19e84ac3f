---------------------------- MODULE SICCallConv ----------------------------
(***************************************************************************)
(* One call under the S32 convention, the only one computeTargetABI        *)
(* selects: the caller assigns every operand a slot of the outgoing        *)
(* argument area (LowerCall), the callee assigns every formal argument a   *)
(* fixed object (LowerFormalArguments), each from its own CCState, and the *)
(* caller's stores run in any order the scheduler picks, because LowerCall *)
(* only joins them in a TokenFactor before the JSUB.                       *)
(*                                                                         *)
(* Byte b of area is the byte b above the caller's X.  A stored byte is    *)
(* <<i, k>>, byte k of argument i; argument 0 stands for the arguments of  *)
(* a call to memcpy that the copy of a by-value argument may become.       *)
(***************************************************************************)
EXTENDS Integers, Sequences

CONSTANTS
  ArgTypes,    (* the kinds of arguments: [byval, size, align]                *)
  MaxArgs,     (* bound: arguments of the call                                *)
  ObjectBytes, (* bound: bytes of the caller's own objects, above the area    *)
  MaxStores    (* getMaxStoresPerMemcpy: 8, or 4 when optimising for size    *)

Alignments == {1, 2, 4, 8, 16}

(* The type legalizer leaves i24 values only, a size of 3 bytes; the       *)
(* alignment is that of the original type.  A by-value size is not 0.      *)
ArgType == [byval : BOOLEAN, size : Nat \ {0}, align : Alignments]

ASSUME ArgTypesAssumption == ArgTypes \subseteq ArgType
ASSUME BoundsAssumption ==
  MaxArgs \in Nat /\ ObjectBytes \in Nat /\ MaxStores \in Nat

(* getMemcpy copies a by-value argument with i24 stores when its alignment *)
(* is that of a pointer, else with i16 or i8 stores, and what is left over *)
(* with one narrower store; a copy of more than MaxStores stores is a call. *)
StoreWidth(a) == IF a.align >= 4 THEN 3 ELSE a.align
CopyStores(a) == (a.size + StoreWidth(a) - 1) \div StoreWidth(a)
NeedsCall(a)  == a.byval /\ CopyStores(a) > MaxStores

(* An i16 store through a pointer has no pattern, so that a call with such *)
(* an inline copy is never compiled.                                       *)
StoresI16(a) == \/ StoreWidth(a) = 2 /\ a.size >= 2
                \/ StoreWidth(a) = 3 /\ a.size % 3 = 2

ASSUME SelectableAssumption ==
  \A a \in ArgTypes : a.byval /\ ~ NeedsCall(a) => ~ StoresI16(a)

VARIABLES
  phase,        (* what happens next                                         *)
  args,         (* Outs of the caller and Ins of the callee                  *)
  stackOffset,  (* StackOffset of the CCState in use                         *)
  locs,         (* LocMemOffset the caller gives each operand                *)
  callFrame,    (* operand of CALLSEQ_START                                  *)
  formals,      (* fixed objects of the callee: [offset, size]               *)
  argInfo,      (* SICFunctionInfo: IncomingArgSize and HasByvalArg          *)
  todo,         (* arguments whose store or copy has not run                 *)
  nested,       (* the memcpy call in progress: [arg, todo]                  *)
  area          (* the bytes above the caller's X                            *)

analysis == <<args, stackOffset, locs, callFrame, formals, argInfo>>
vars == <<phase, analysis, todo, nested, area>>

alignTo_down(value, align) == (value \div align) * align

alignTo(value, align) == ((value + align - 1) \div align) * align
Larger(a, b)  == IF a >= b THEN a ELSE b
Smaller(a, b) == IF a <= b THEN a ELSE b

stackAlignment == 8
regSize == 4

Object == <<-1, 0>>     \* a byte of one of the caller's own objects
Unset  == <<-1, 1>>     \* a byte of the argument area not yet stored to
NoCall == [arg |-> 0, todo |-> {}]
-----------------------------------------------------------------------------
(* The convention: where an argument goes when the offset is o.            *)

CC_SICS32(o, a) ==
  LET offset == alignTo(o, a.align)
  IN [offset |-> offset, next |-> offset + a.size]

handleByValArg(o, a) ==
  LET size   == alignTo(a.size, regSize)
      align  == Smaller(Larger(a.align, regSize), 2 * regSize)
      offset == alignTo(o, align)
  IN [offset |-> offset, next |-> offset + size]

Assign(o, a) == IF a.byval THEN handleByValArg(o, a) ELSE CC_SICS32(o, a)

(* reservedArgArea() is 0 when IsO32 is false.                             *)
InitialOffset == 0
-----------------------------------------------------------------------------
(* The caller: analyzeCallOperands and CALLSEQ_START.                      *)

analyzeCallOperand_noLoc(a) ==
  /\ phase = "operands"
  /\ Len(args) < MaxArgs
  /\ args' = Append(args, a)
  /\ LET slot == Assign(stackOffset, a)
     IN /\ locs' = IF a.byval THEN locs ELSE Append(locs, slot.offset)
        /\ stackOffset' = slot.next
  /\ UNCHANGED <<phase, callFrame, formals, argInfo, todo, nested, area>>

analyzeCallOperand(a) ==
  /\ phase = "operands"
  /\ Len(args) < MaxArgs
  /\ args' = Append(args, a)
  /\ LET slot == Assign(stackOffset, a)
     IN /\ locs' = Append(locs, slot.offset)
        /\ stackOffset' = slot.next
  /\ UNCHANGED <<phase, callFrame, formals, argInfo, todo, nested, area>>

(* What the frame layout reserves for a call: a nested call to memcpy has a *)
(* call frame of its own, for its three operands.                          *)
MemcpyFrame == alignTo(12, stackAlignment)
ReservedFor(frame) ==
  IF \E i \in 1 .. Len(args) : NeedsCall(args[i]) THEN Larger(frame, MemcpyFrame)
                                                ELSE frame

CallSeqStart ==
  /\ phase = "operands"
  /\ phase' = "entry"
  /\ callFrame' = alignTo(stackOffset, stackAlignment)
  /\ area' = [b \in 0 .. ReservedFor(callFrame') + ObjectBytes - 1 |->
                IF b < ReservedFor(callFrame') THEN Unset ELSE Object]
  /\ todo' = 1 .. Len(args)
  /\ UNCHANGED <<args, stackOffset, locs, formals, argInfo, nested>>
-----------------------------------------------------------------------------
(* The callee: LowerFormalArguments starts a CCState of its own and calls  *)
(* setFormalArgInfo before the arguments are analysed.                     *)

LowerFormalArguments ==
  /\ phase = "entry"
  /\ phase' = "formals"
  /\ stackOffset' = InitialOffset
  /\ argInfo' = [size |-> stackOffset', byval |-> FALSE]
  /\ UNCHANGED <<args, locs, callFrame, formals, todo, nested, area>>

(* The fixed object that CreateFixedObject makes for a formal argument.    *)
(* That of a by-value argument has the size of the value, not of the slot: *)
(* copyByValRegs finds no register to add.                                 *)
FormalObject(a, slot) == [offset |-> slot.offset, size |-> a.size]

analyzeFormalArgument_fixedFn ==
  /\ phase = "formals"
  /\ Len(formals) < Len(args)
  /\ LET a    == args[Len(formals) + 1]
         slot == CC_SICS32(stackOffset, a)
     IN /\ formals' = Append(formals, FormalObject(a, slot))
        /\ stackOffset' = slot.next
  /\ UNCHANGED <<phase, args, locs, callFrame, argInfo, todo, nested, area>>

analyzeFormalArgument ==
  /\ phase = "formals"
  /\ Len(formals) < Len(args)
  /\ LET a    == args[Len(formals) + 1]
         slot == Assign(stackOffset, a)
     IN /\ formals' = Append(formals, FormalObject(a, slot))
        /\ stackOffset' = slot.next
  /\ UNCHANGED <<phase, args, locs, callFrame, argInfo, todo, nested, area>>

FormalsDone ==
  /\ phase = "formals"
  /\ Len(formals) = Len(args)
  /\ phase' = "store"
  /\ UNCHANGED <<analysis, todo, nested, area>>
-----------------------------------------------------------------------------
(* The caller's stores at run time.                                        *)

Written(from, size, i) ==
  [b \in DOMAIN area |->
     IF from <= b /\ b < from + size THEN <<i, b - from>> ELSE area[b]]

(* A value is stored with ST, a small struct copied by inline stores (one  *)
(* step, as they write to the argument's own slot only).                   *)
passArgOnStack(i) ==
  /\ phase = "store"
  /\ i \in todo
  /\ ~ NeedsCall(args[i])
  /\ area' = Written(locs[i], args[i].size, i)
  /\ todo' = todo \ {i}
  /\ UNCHANGED <<phase, analysis, nested>>

(* passByValArg with AlwaysInline = false: a larger copy becomes a call,   *)
(* which LowerCall lowers in turn.  Its operands are three pointers, so    *)
(* its own stores go to the slots 0, 4 and 8 of the same area.             *)
MemcpySlots == {0, 4, 8}

passByValArg(i) ==
  /\ phase = "store"
  /\ nested = NoCall
  /\ i \in todo
  /\ NeedsCall(args[i])
  /\ nested' = [arg |-> i, todo |-> MemcpySlots]
  /\ todo' = todo \ {i}
  /\ UNCHANGED <<phase, analysis, area>>

MemcpyOperand(s) ==
  /\ s \in nested.todo
  /\ nested' = [nested EXCEPT !.todo = @ \ {s}]
  /\ area' = Written(s, 3, 0)
  /\ UNCHANGED <<phase, analysis, todo>>

(* memcpy finds its operands at the three slots and fills the slot of the  *)
(* argument; it goes astray when a store of the outer call came between.   *)
MemcpyCall ==
  /\ nested # NoCall
  /\ nested.todo = {}
  /\ nested' = NoCall
  /\ area' = IF \A s \in MemcpySlots, k \in 0 .. 2 : area[s + k] = <<0, k>>
               THEN Written(locs[nested.arg], args[nested.arg].size, nested.arg)
               ELSE area
  /\ UNCHANGED <<phase, analysis, todo>>

JmpLink ==
  /\ phase = "store"
  /\ todo = {}
  /\ nested = NoCall
  /\ phase' = "called"
  /\ UNCHANGED <<analysis, todo, nested, area>>
-----------------------------------------------------------------------------
Init ==
  /\ phase = "operands"
  /\ args = <<>>
  /\ stackOffset = InitialOffset
  /\ locs = <<>>
  /\ callFrame = 0
  /\ formals = <<>>
  /\ argInfo = [size |-> 0, byval |-> FALSE]
  /\ todo = {}
  /\ nested = NoCall
  /\ area = <<>>

Next ==
  \/ \E a \in ArgTypes : analyzeCallOperand(a)
  \/ CallSeqStart
  \/ LowerFormalArguments
  \/ analyzeFormalArgument
  \/ FormalsDone
  \/ \E i \in todo : passArgOnStack(i) \/ passByValArg(i)
  \/ \E s \in nested.todo : MemcpyOperand(s)
  \/ MemcpyCall
  \/ JmpLink

Spec == Init /\ [][Next]_vars
-----------------------------------------------------------------------------
TypeOK ==
  /\ phase \in {"operands", "entry", "formals", "store", "called"}
  /\ args \in Seq(ArgType)
  /\ stackOffset \in Nat
  /\ locs \in Seq(Nat)
  /\ Len(locs) = Len(args)
  /\ callFrame \in Nat
  /\ formals \in Seq([offset : Nat, size : Nat \ {0}])
  /\ Len(formals) <= Len(args)
  /\ argInfo \in [size : Nat, byval : BOOLEAN]
  /\ todo \subseteq 1 .. Len(args)
  /\ nested \in [arg : 0 .. Len(args), todo : SUBSET MemcpySlots]

(* When the callee starts, the object it reads argument i from holds the   *)
(* bytes of argument i.                                                    *)
Arrived(i) ==
  \A k \in 0 .. args[i].size - 1 : area[formals[i].offset + k] = <<i, k>>

ArgumentsArrive == phase = "called" => \A i \in 1 .. Len(args) : Arrived(i)

(* A nested call to memcpy can reach an argument only if there is one, and *)
(* the argument is itself copied by a call or shares the operand slots.    *)
Inline(a) == ~ NeedsCall(a)
OutOfReach(i) ==
  \/ \A j \in 1 .. Len(args) : Inline(args[j])
  \/ Inline(args[i]) /\ formals[i].offset >= 12

(* Whatever order the stores run in, every argument out of reach of nested *)
(* calls arrives: caller and callee agree on every slot, no store of one   *)
(* argument touches another, and the copies of large arguments stay in     *)
(* their own slots.                                                        *)
ArgumentsOutOfReachArrive ==
  phase = "called" => \A i \in 1 .. Len(args) : OutOfReach(i) => Arrived(i)

(* The stores of a call, nested copies included, stay inside the call      *)
(* frames that CALLSEQ_START announces to the frame layout.                *)
CallerObjectsKept ==
  phase \in {"store", "called"} =>
    \A b \in DOMAIN area : b >= ReservedFor(callFrame) => area[b] = Object
=============================================================================
