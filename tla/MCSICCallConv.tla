--------------------------- MODULE MCSICCallConv ---------------------------
(* Argument kinds for TLC.                                                 *)
EXTENDS SICCallConv

Scalar(align) == [byval |-> FALSE, size |-> 3, align |-> align]
Struct(size, align) == [byval |-> TRUE, size |-> size, align |-> align]

(* i8, i16, i24 and pointers; small structs, which are copied inline, and  *)
(* one large enough for a call to memcpy.                                  *)
ScalarsAndStructs ==
  {Scalar(1), Scalar(2), Scalar(4), Struct(4, 4), Struct(4, 16), Struct(28, 4)}

WithLargeStruct == {Scalar(4), Struct(28, 4)}
=============================================================================
