------------------------------ MODULE SICData ------------------------------
(***************************************************************************)
(* Initialised data from end to end: a constant is emitted in directives   *)
(* (SICGlobals), the assembler makes bytes of them, and compiled code      *)
(* loads and stores its fields at the offsets of the data layout           *)
(* (SICMemory).                                                            *)
(***************************************************************************)
EXTENDS SICMemory, SICGlobals

(* Code may access the fields of a constant that is all zero, too.         *)
ASSUME ZeroFieldsAssumption ==
  \A c \in Constants :
    c.kind = "zero" => /\ c.fields \subseteq Field
                       /\ FieldsApart(c.fields)
                       /\ \A f \in c.fields : BytesOf(f) \subseteq 0 .. c.size - 1

vars == <<root, loops, calling, at, image, scalars, base, object, mem, A, last, got>>

(* The object that code sees: the fields of the data layout, with the      *)
(* values given for them, in the bytes that were emitted.                  *)
EmittedObject ==
  [size   |-> root.size,
   fields |-> DOMAIN scalars,
   bytes  |-> [a \in 0 .. root.size - 1 |-> IF a < at THEN image[a] ELSE 0],
   values |-> [f \in DOMAIN scalars |-> scalars[f].value]]

Init == EmissionInit /\ MemoryInit

EmitGlobalConstant == Emission /\ UNCHANGED memoryVars
Load == Emitted /\ Start(EmittedObject) /\ UNCHANGED emissionVars
Run  == Access /\ UNCHANGED emissionVars

Next == EmitGlobalConstant \/ Load \/ Run

Spec == Init /\ [][Next]_vars
-----------------------------------------------------------------------------
TypeOK == EmissionTypeOK /\ MemoryTypeOK
=============================================================================
