----------------------------- MODULE CallStack -----------------------------
(***************************************************************************)
(* What compiled calls promise: a stack of activations, of which only the  *)
(* top one runs.  An activation has a parameter and a local variable that  *)
(* nobody else changes, and when its callee returns it goes on at the call *)
(* site where it stopped, the activation it was before the call.           *)
(***************************************************************************)
EXTENDS Integers, Sequences

CONSTANTS
  Functions,  (* the functions of the program                               *)
  Main,       (* the one the program starts with                            *)
  Callee,     (* Callee[f]: the function called at each call site of f       *)
  Values,     (* the values functions assign to their variables             *)
  Undefined   (* the value of a variable no one has assigned                *)

VARIABLE stack

Top == stack[Len(stack)]

(* Nothing is said about a variable before its first assignment: it may    *)
(* hold an old value.                                                      *)
Activations(f) ==
  [fn : {f}, site : {0}, local : Values \cup {Undefined},
   param : Values \cup {Undefined}]

Init == \E a \in Activations(Main) : stack = <<a>>

Assign ==
  /\ stack # <<>>
  /\ \E v \in Values : \/ stack' = [stack EXCEPT ![Len(stack)].local = v]
                       \/ stack' = [stack EXCEPT ![Len(stack)].param = v]

Call ==
  /\ stack # <<>>
  /\ \E s \in DOMAIN Callee[Top.fn] : \E a \in Activations(Callee[Top.fn][s]) :
       stack' = Append([stack EXCEPT ![Len(stack)].site = s], a)

Return ==
  /\ stack # <<>>
  /\ stack' = SubSeq(stack, 1, Len(stack) - 1)

Next == Assign \/ Call \/ Return

Spec == Init /\ [][Next]_stack
=============================================================================
