--------------------------- MODULE FrameContract ---------------------------
(***************************************************************************)
(* What the layout of a frame promises to the code that runs on it: the    *)
(* premise of the model of running programs, SICExec, and a conclusion of  *)
(* the model of the layout, SICFrame.                                      *)
(*                                                                         *)
(* A frame is [size, savesL, slotL, local]: its size, whether L is saved   *)
(* in it, and the displacements from X of the slot of L and of a local     *)
(* variable or spill slot of one word.                                     *)
(***************************************************************************)
EXTENDS Integers

(* Two words of three bytes that share none.                               *)
Apart(a, b) == a + 3 <= b \/ b + 3 <= a

(* A frame keeps the stack aligned and holds its local and the slot of L,  *)
(* which share no byte; a function with calls saves L, and neither lies in *)
(* the word at X, where an argument goes.                                  *)
Suitable(F, calls) ==
  /\ F.size \in Nat /\ F.slotL \in Nat /\ F.local \in Nat /\ F.savesL \in BOOLEAN
  /\ F.size % 8 = 0
  /\ F.size # 0 => F.local + 3 <= F.size
  /\ F.savesL => /\ F.slotL + 3 <= F.size
                 /\ Apart(F.slotL, F.local)
  /\ calls => /\ F.savesL
              /\ F.slotL >= 3 /\ F.local >= 3
=============================================================================
