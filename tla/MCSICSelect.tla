---------------------------- MODULE MCSICSelect ----------------------------
(* Nodes, and operands at the boundaries of the immediate fields and of    *)
(* the signed range, for TLC.                                              *)
EXTENDS SICSelect

Plain(ops) == [op : ops, cond : {"none"}]
OnCond(conds) == [op : {"setcc", "brcond"}, cond : conds]

AllOperations ==
  Plain({"add", "sub", "mul", "sdiv", "udiv", "srem", "urem",
         "and", "or", "xor", "shl", "srl", "sra", "rotl"})
  \cup OnCond(Conds)

Boundaries == {0, 1, 2, 4096, 8388607, 8388608, 8388609,
               16777215}
ConstantBoundaries == {0, 1, 7, 4095, 4096, 65535, 65536, 1048575, 1048576,
                       8388607, 8388608, 16777215}
=============================================================================
