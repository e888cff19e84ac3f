----------------------------- MODULE SICGlobals -----------------------------
(***************************************************************************)
(* The emission of an initialised global by AsmPrinter, with its changes   *)
(* for 24-bit integers, in the directives of SICMCAsmInfo: each scalar by  *)
(* BYTE or WORD, padding by RESB.  Loads and stores address the fields at  *)
(* the offsets DataLayout gives them; the assembler only counts bytes.     *)
(*                                                                         *)
(* A constant is an "int", a "struct" or an "array", or it is "zero": all  *)
(* zero or undefined, and then its elements are not looked into.  It has   *)
(* its layout with it, as StructLayout has.                                *)
(***************************************************************************)
EXTENDS Integers, Sequences

CONSTANTS
  Constants,      (* the constants and their elements, with their layout    *)
  Initializers    (* those that initialise a global                         *)

-----------------------------------------------------------------------------
(* DataLayout: "i8:8:32-i16:16:32-i24:32".                                 *)

alignTo(value, align) == ((value + align - 1) \div align) * align

IntAlloc(type) == CASE type = "i8" -> 1 [] type = "i16" -> 2 [] type = "i24" -> 4

IsInt(c) ==
  /\ c.kind = "int" /\ c.type \in {"i8", "i16", "i24"}
  /\ c.size = IntAlloc(c.type) /\ c.align = c.size
  /\ c.value \in Nat
  /\ c.type = "i8" => c.value < 256
  /\ c.type = "i16" => c.value < 65536
  /\ c.value < 16777216

(* DataLayout knows the fields of a constant that is not looked into.      *)
IsZero(c) ==
  /\ c.kind = "zero" /\ c.size \in Nat /\ c.align \in {1, 2, 4}
  /\ \A f \in c.fields : f.type \in {"i8", "i16", "i24"} /\ f.offset \in Nat

IsAggregate(c) ==
  /\ c.kind \in {"struct", "array"} /\ c.size \in Nat /\ c.align \in {1, 2, 4}
  /\ c.elements \in Seq(Constants) /\ c.elements # <<>>
  /\ c.offsets \in [DOMAIN c.elements -> Nat]

(* Where the element after element i starts, or where the aggregate ends.  *)
NextOffset(c, i) == IF i = Len(c.elements) THEN c.size ELSE c.offsets[i + 1]
NextAlign(c, i)  == IF i = Len(c.elements) THEN c.align ELSE c.elements[i + 1].align

(* Each field follows the one before it at its alignment; the elements of  *)
(* an array, which have one type, follow each other.                       *)
LaidOut(c) ==
  /\ c.offsets[1] = 0
  /\ \A i \in DOMAIN c.elements :
       LET end == c.offsets[i] + c.elements[i].size
       IN NextOffset(c, i) = IF c.kind = "struct" THEN alignTo(end, NextAlign(c, i)) ELSE end
  /\ \A i \in DOMAIN c.elements : c.elements[i].align <= c.align

ASSUME ConstantsAssumption ==
  \A c \in Constants : IsInt(c) \/ IsZero(c) \/ (IsAggregate(c) /\ LaidOut(c))
ASSUME InitializersAssumption == Initializers \subseteq Constants

(* Where the code is right to take four bytes for a 24-bit integer, and    *)
(* WORD is the directive of an integer that is not a byte.                 *)
AdjustmentFits ==
  \A c \in Constants :
    /\ c.kind = "int" => c.type # "i16"
    /\ c.kind \in {"struct", "array"} =>
         \A i \in DOMAIN c.elements : c.elements[i].size = 4 => c.elements[i].kind = "int"
-----------------------------------------------------------------------------
VARIABLES
  root,     (* the initialiser                                              *)
  loops,    (* the activations of emitGlobalConstantStruct and -Array: the  *)
            (* aggregate c, its Offset, the index i of the loop             *)
  calling,  (* emitGlobalConstantImpl starts, or has returned               *)
  at,       (* the bytes emitted so far                                     *)
  image,    (* what the assembler makes of them                             *)
  scalars   (* auxiliary: for each field in DataLayout's terms, the value   *)
            (* given for it and the byte at which it was emitted            *)

emissionVars == <<root, loops, calling, at, image, scalars>>

Top == loops[Len(loops)]

(* The parameters of the innermost emitGlobalConstantImpl.                 *)
CV     == IF loops = <<>> THEN root ELSE Top.c.elements[Top.i]
Offset == IF loops = <<>> THEN 0 ELSE Top.offset + Top.c.offsets[Top.i]

Emitted == loops = <<>> /\ ~calling
-----------------------------------------------------------------------------
(* The directives: BYTE is one byte, WORD three, for 16 bits too.          *)

Emit(n, bytes) ==
  /\ at' = at + n
  /\ image' = [a \in 0 .. at + n - 1 |-> IF a < at THEN image[a] ELSE bytes[a - at]]

DirectiveBytes(size) == IF size = 1 THEN 1 ELSE 3

EmitIntValue(value, size) ==
  Emit(DirectiveBytes(size),
       IF size = 1 THEN [b \in {0} |-> value]
       ELSE [b \in 0 .. 2 |-> CASE b = 0 -> value \div 65536
                                [] b = 1 -> (value \div 256) % 256
                                [] b = 2 -> value % 256])

EmitZeros(n) == Emit(n, [b \in 0 .. n - 1 |-> 0])
-----------------------------------------------------------------------------
(* emitGlobalConstantImpl.                                                 *)

EmitInt ==
  /\ calling /\ CV.kind = "int"
  /\ EmitIntValue(CV.value, CV.size)
  /\ scalars' = LET f == [type |-> CV.type, offset |-> Offset]
                IN [g \in DOMAIN scalars \cup {f} |->
                      IF g = f THEN [value |-> CV.value, at |-> at] ELSE scalars[g]]
  /\ calling' = FALSE
  /\ UNCHANGED <<root, loops>>

EmitZero ==
  /\ calling /\ CV.kind = "zero"
  /\ EmitZeros(CV.size)
  /\ scalars' = LET fields == {[type |-> f.type, offset |-> Offset + f.offset] : f \in CV.fields}
                IN [g \in DOMAIN scalars \cup fields |->
                      IF g \in fields THEN [value |-> 0, at |-> at + (g.offset - Offset)]
                      ELSE scalars[g]]
  /\ calling' = FALSE
  /\ UNCHANGED <<root, loops>>

(* emitGlobalConstantStruct or -Array starts with its first element.       *)
EnterAggregate ==
  /\ calling /\ CV.kind \in {"struct", "array"}
  /\ loops' = Append(loops, [c |-> CV, offset |-> Offset, i |-> 1])
  /\ UNCHANGED <<root, calling, at, image, scalars>>
-----------------------------------------------------------------------------
(* The padding after element i.  Every element of four bytes is taken for  *)
(* a 24-bit integer.                                                       *)

StructPadding_noHack(c, i) == NextOffset(c, i) - c.offsets[i] - c.elements[i].size

StructPadding(c, i) ==
  LET FieldSize == IF c.elements[i].size = 4 THEN 3 ELSE c.elements[i].size
  IN NextOffset(c, i) - c.offsets[i] - FieldSize

(* An array of bytes is a ConstantDataArray, and a string or a fill takes  *)
(* the same bytes; its loop pads in the same way.                          *)
ArrayPadding_noHack(c, i) == 0

ArrayPadding(c, i) == IF c.elements[i].size = 4 THEN 1 ELSE 0

(* The rest of an iteration, when its element has been emitted: the loop   *)
(* goes on to the next element or returns.                                 *)
PadElement ==
  /\ loops # <<>> /\ ~calling
  /\ EmitZeros(IF Top.c.kind = "struct" THEN StructPadding(Top.c, Top.i)
                                        ELSE ArrayPadding(Top.c, Top.i))
  /\ IF Top.i = Len(Top.c.elements)
       THEN loops' = SubSeq(loops, 1, Len(loops) - 1) /\ calling' = FALSE
       ELSE loops' = [loops EXCEPT ![Len(loops)].i = @ + 1] /\ calling' = TRUE
  /\ UNCHANGED <<root, scalars>>
-----------------------------------------------------------------------------
(* EmitGlobalConstant.                                                     *)
EmissionInit ==
  /\ root \in Initializers
  /\ loops = <<>>
  /\ calling = TRUE
  /\ at = 0
  /\ image = [a \in {} |-> 0]
  /\ scalars = [f \in {} |-> 0]

Emission == EmitInt \/ EmitZero \/ EnterAggregate \/ PadElement
-----------------------------------------------------------------------------
EmissionTypeOK ==
  /\ \A k \in DOMAIN loops : /\ loops[k].offset \in Nat
                            /\ loops[k].i \in DOMAIN loops[k].c.elements
  /\ calling \in BOOLEAN
  /\ at \in Nat
  /\ image \in [0 .. at - 1 -> 0 .. 255]

(* The assembler places every scalar of the global at the offset from      *)
(* which the compiled code loads it, "padding to ensure that the next      *)
(* field starts at the right offset" (AsmPrinter.cpp).                     *)
ScalarsAtTheirOffsets == \A f \in DOMAIN scalars : scalars[f].at = f.offset

(* An aggregate takes as many bytes as DataLayout says, so that an element *)
(* of an outer array, or the next global, starts where it should.          *)
AggregateFillsItsSize == Emitted /\ root.kind # "int" => at = root.size
=============================================================================
