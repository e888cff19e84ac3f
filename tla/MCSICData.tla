----------------------------- MODULE MCSICData -----------------------------
(* Constants and accesses for TLC.                                         *)
EXTENDS SICData, SequencesExt, FiniteSetsExt

(* Types, from which constants are made; an "all zero" one stays so.       *)
Integer(type) == [kind |-> "int", type |-> type]
Struct(types) == [kind |-> "struct", elements |-> types]
Array(types)  == [kind |-> "array", elements |-> types]
Zero(t)       == [kind |-> "zero", of |-> t]

i8  == Integer("i8")
i16 == Integer("i16")
i24 == Integer("i24")

RECURSIVE Leaves(_)
Leaves(t) ==
  CASE t.kind = "int" -> 1
    [] t.kind = "zero" -> 0
    [] OTHER -> FoldLeft(LAMBDA n, e : n + Leaves(e), 0, t.elements)

(* The value of the k-th integer: a negative one whose bytes differ.       *)
Given(k, type) == CASE type = "i8"  -> 128 + k
                    [] type = "i16" -> ((128 + k) * 256) + k
                    [] type = "i24" -> ((128 + k) * 65536) + (k * 256) + 255 - k

(* The fields of a constant at an offset.                                  *)
RECURSIVE FieldsOf(_, _)
FieldsOf(c, offset) ==
  CASE c.kind = "int" -> {[type |-> c.type, offset |-> offset]}
    [] c.kind = "zero" -> {[f EXCEPT !.offset = @ + offset] : f \in c.fields}
    [] OTHER -> UNION {FieldsOf(c.elements[i], offset + c.offsets[i]) : i \in DOMAIN c.elements}

(* The constant of type t, with its layout, whose integers are numbered    *)
(* after k.                                                                *)
RECURSIVE Constant(_, _)
Constant(t, k) ==
  CASE t.kind = "int" ->
         [kind |-> "int", type |-> t.type, value |-> Given(k + 1, t.type),
          size |-> IntAlloc(t.type), align |-> IntAlloc(t.type)]
    [] t.kind = "zero" ->
         LET c == Constant(t.of, 0)
         IN [kind |-> "zero", size |-> c.size, align |-> c.align, fields |-> FieldsOf(c, 0)]
    [] OTHER ->
         LET n == Len(t.elements)
             elements == [i \in 1 .. n |->
               Constant(t.elements[i], k + Leaves(Struct(SubSeq(t.elements, 1, i - 1))))]
             align == Max({elements[i].align : i \in 1 .. n})
             offsets[i \in 1 .. n] ==
               IF i = 1 THEN 0
               ELSE alignTo(offsets[i - 1] + elements[i - 1].size, elements[i].align)
         IN [kind |-> t.kind, elements |-> elements, offsets |-> [i \in 1 .. n |-> offsets[i]],
             size |-> alignTo(offsets[n] + elements[n].size, align), align |-> align]

RECURSIVE Within(_)
Within(c) ==
  {c} \cup IF c.kind \in {"struct", "array"}
             THEN UNION {Within(c.elements[i]) : i \in DOMAIN c.elements} ELSE {}

ConstantsOf(initializers) == UNION {Within(c) : c \in initializers}
-----------------------------------------------------------------------------
Structs(types, most) == {Struct(ts) : ts \in UNION {[1 .. n -> types] : n \in 1 .. most}}
Arrays(types, most) ==
  {Array([i \in 1 .. n |-> t]) : t \in types, n \in 1 .. most}

(* Integers of 8 and 24 bits in structs of up to four fields, and          *)
(* aggregates of these of a size other than 4, given or zero, in a struct  *)
(* or an array; an i16 is the last field of a struct of zeros.             *)
Flat == Structs({i8, i24}, 4) \cup Arrays({i8, i24}, 4)
Nested == {t \in Flat : Constant(t, 0).size # 4}
FlatAndNested ==
  {Constant(t, 0) : t \in
     Flat \cup {i8, i24}
          \cup {Struct(<<i8, t, i24>>) : t \in Nested} \cup Arrays(Nested, 3)
          \cup {Struct(<<Zero(t), i24, u>>) : t \in Nested, u \in {i8, i24}}
          \cup {Array(<<t, Zero(t), t>>) : t \in Nested}
          \cup {Zero(Struct(<<i8, i24, i16>>))}}

FlatAndNestedConstants == ConstantsOf(FlatAndNested)

(* An aggregate of size 4, or an undefined integer, before another field.  *)
NestedOfSize4 ==
  {Constant(Struct(<<t, i24>>), 0) :
     t \in {u \in Flat : Constant(u, 0).size = 4} \cup {Zero(i24)}}

NestedOfSize4Constants == ConstantsOf(NestedOfSize4)

(* The first set is within the limit of the proofs, the second is not.     *)
ASSUME LimitAssumption == AdjustmentFits <=> Constants = FlatAndNestedConstants

(* The pattern of this load uses LDCHIN, which moves one byte only.        *)
IndirectSext16 == [type |-> "i16", ext |-> "sext", mode |-> "reg"]

WorkingLoads == LoadKind \ {IndirectSext16}
=============================================================================
