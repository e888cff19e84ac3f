----------------------------- MODULE MCSICExec -----------------------------
(* A program of three functions for TLC: main calls f twice, f calls       *)
(* itself and the leaf g, and h has no frame at all.                       *)
EXTENDS SICExec

Program == [main |-> <<"f", "h">>, f |-> <<"f", "g">>, g |-> <<>>, h |-> <<>>]

(* L is laid out first, then the local, then the area for one argument.    *)
Framed(savesL) == [size |-> IF savesL THEN 16 ELSE 8, savesL |-> savesL,
                   slotL |-> 12, local |-> IF savesL THEN 8 ELSE 4]
Frameless == [size |-> 0, savesL |-> FALSE, slotL |-> 0, local |-> 0]

Frames == [main |-> Framed(TRUE), f |-> Framed(TRUE), g |-> Framed(FALSE),
           h |-> Frameless]

FunctionNames == DOMAIN Program
=============================================================================
