------------------------------ MODULE SICExec ------------------------------
(***************************************************************************)
(* The calls of a compiled program on the machine: the start-up code of    *)
(* EmitStartOfAsmFile, the prologue and epilogue that SICFrameLowering and *)
(* PEI put around every function, JSUB and RSUB, and the copies of results *)
(* that LowerReturn and LowerCallResult make.  The stack pointer is X, L   *)
(* holds the return address, and L is the only callee-saved register.      *)
(*                                                                         *)
(* Frame[f] is the frame SICFrame lays out for f: its size, whether f saves *)
(* L and at which displacement from X, and the displacement of a local     *)
(* variable (or spill slot).  A word occupies three bytes.                 *)
(***************************************************************************)
EXTENDS Sequences, FrameContract

CONSTANTS
  Functions,    (* the functions of the program                             *)
  Main,         (* the function called main                                 *)
  Callee,       (* Callee[f]: the function called at each call site of f     *)
  Frame,        (* Frame[f]: [size, savesL, slotL, local]                    *)
  Pairs,        (* the functions that return two values                     *)
  Data,         (* values the program stores                                *)
  StackSpace    (* bound: bytes the stack may grow to                       *)

FrameOK(f) == Suitable(Frame[f], Callee[f] # <<>>)

(* What SICFrame shows of the frames it lays out (FramesAreSuitable), for  *)
(* outgoing calls with one argument.                                       *)
ASSUME FrameAssumption == \A f \in Functions : FrameOK(f)
ASSUME CalleeAssumption ==
  /\ Main \in Functions
  /\ Callee \in [Functions -> Seq(Functions)]

(* +LDX #0xFFFFC                                                           *)
StackTop == 1048572

(* Main has room for its frame.                                            *)
ASSUME StackAssumption == StackSpace \in Frame[Main].size .. StackTop

VARIABLES
  pc,     (* [fn, at, site]: the code point, and the last call site         *)
  X,      (* the stack pointer                                              *)
  L,      (* the linkage register                                           *)
  S, T,   (* the result registers; T is also adjustStackPtr's scratch       *)
  mem,    (* the word at each address of the stack                          *)
  callers (* auxiliary: [fn, site, entry] of the calls that have not        *)
          (* returned, entry the X at entry; no instruction reads it        *)

vars == <<pc, X, L, S, T, mem, callers>>

Addr == StackTop - StackSpace .. StackTop

Junk == <<"junk">>
Val(d) == <<"value", d>>
Ret(f, s) == <<"ret", f, s>>       \* the address after call site s of f
Halt == <<"ret", Main, 0>>         \* the address of the label halt
Result(f, n) == <<"result", <<f, n>> >>
Amount(n) == <<"amount", n>>

Values == {Val(d) : d \in Data}
ReturnAddresses ==
  {Halt} \cup UNION {{Ret(f, s) : s \in DOMAIN Callee[f]} : f \in Functions}
Words == Values \cup ReturnAddresses \cup {Junk}

F == Frame[pc.fn]

Go(at) == pc' = [pc EXCEPT !.at = at]

(* A store overwrites the words that share a byte with it.                 *)
Stored(a, w) ==
  [b \in Addr |-> IF b = a THEN w ELSE IF Apart(a, b) THEN mem[b] ELSE Junk]

Fetched(a) == IF a \in Addr THEN mem[a] ELSE Junk

(* A function without a frame has neither prologue nor epilogue.           *)
Entry(f) == [fn |-> f, at |-> IF Frame[f].size = 0 THEN "body" ELSE "amount-down",
             site |-> 0]

(* The stack pointer at the entry of the running function.                 *)
EntryX ==
  IF pc.at \in {"amount-down", "down", "return", "halt"} THEN X ELSE X + F.size
-----------------------------------------------------------------------------
(* Prologue: LDT #size, SUBR T, X, and then the spill of L.                *)

LoadAmount ==
  /\ pc.at \in {"amount-down", "amount-up"}
  /\ T' = Amount(F.size)
  /\ Go(IF pc.at = "amount-down" THEN "down" ELSE "up")
  /\ UNCHANGED <<X, L, S, mem, callers>>

emitPrologue ==
  /\ pc.at = "down"
  /\ X' = X - T[2]
  /\ Go(IF F.savesL THEN "spill" ELSE "body")
  /\ UNCHANGED <<L, S, T, mem, callers>>

spillCalleeSavedRegisters_noStore ==
  /\ pc.at = "spill"
  /\ Go("body")
  /\ UNCHANGED <<X, L, S, T, mem, callers>>

spillCalleeSavedRegisters ==
  /\ pc.at = "spill"
  /\ mem' = Stored(X + F.slotL, L)
  /\ Go("body")
  /\ UNCHANGED <<X, L, S, T, callers>>
-----------------------------------------------------------------------------
(* The body.                                                               *)

StoreLocal(w) ==
  /\ pc.at = "body"
  /\ F.size # 0
  /\ mem' = Stored(X + F.local, w)
  /\ UNCHANGED <<pc, X, L, S, T, callers>>

(* A by-value parameter may be changed where the caller stored it.         *)
StoreParameter(w) ==
  /\ pc.at = "body"
  /\ mem' = Stored(X + F.size, w)
  /\ UNCHANGED <<pc, X, L, S, T, callers>>

(* L is not reserved: a function that saves it may keep a value in it.     *)
UseL ==
  /\ pc.at = "body"
  /\ F.savesL
  /\ L' = Junk
  /\ UNCHANGED <<pc, X, S, T, mem, callers>>

passArgOnStack(w) ==
  /\ pc.at = "body"
  /\ Callee[pc.fn] # <<>>
  /\ mem' = Stored(X, w)
  /\ Go("call")
  /\ UNCHANGED <<X, L, S, T, callers>>

JSUB(s) ==
  /\ pc.at = "call"
  /\ LET g == Callee[pc.fn][s]
     IN /\ X - Frame[g].size \in Addr
        /\ pc' = Entry(g)
  /\ L' = Ret(pc.fn, s)
  /\ callers' = Append(callers, [fn |-> pc.fn, site |-> s, entry |-> EntryX])
  /\ UNCHANGED <<X, S, T, mem>>

(* The caller copies the results out of S and T.                           *)
LowerCallResult ==
  /\ pc.at = "result"
  /\ Go("body")
  /\ UNCHANGED <<X, L, S, T, mem, callers>>
-----------------------------------------------------------------------------
(* The return: results to S and T, reload of L, LDT #size, ADDR T, X, RSUB. *)

LowerReturn_resultInT ==
  /\ pc.at = "body"
  /\ T' = Result(pc.fn, 1)
  /\ Go(IF F.savesL THEN "reload" ELSE IF F.size = 0 THEN "return" ELSE "amount-up")
  /\ UNCHANGED <<X, L, S, mem, callers>>

LowerReturn ==
  /\ pc.at = "body"
  /\ S' = Result(pc.fn, 1)
  /\ T' = IF pc.fn \in Pairs THEN Result(pc.fn, 2) ELSE T
  /\ Go(IF F.savesL THEN "reload" ELSE IF F.size = 0 THEN "return" ELSE "amount-up")
  /\ UNCHANGED <<X, L, mem, callers>>

restoreCalleeSavedRegisters_afterAdjust ==
  /\ pc.at = "reload"
  /\ L' = Fetched(X + F.size + F.slotL)
  /\ Go("amount-up")
  /\ UNCHANGED <<X, S, T, mem, callers>>

restoreCalleeSavedRegisters ==
  /\ pc.at = "reload"
  /\ L' = Fetched(X + F.slotL)
  /\ Go("amount-up")
  /\ UNCHANGED <<X, S, T, mem, callers>>

emitEpilogue_noAdjust ==
  /\ pc.at = "up"
  /\ Go("return")
  /\ UNCHANGED <<X, L, S, T, mem, callers>>

emitEpilogue ==
  /\ pc.at = "up"
  /\ X' = X + T[2]
  /\ Go("return")
  /\ UNCHANGED <<L, S, T, mem, callers>>

(* Where control goes when it jumps to the address w.                      *)
Target(w) ==
  IF w = Halt THEN [fn |-> Main, at |-> "halt", site |-> 0]
  ELSE IF w \in ReturnAddresses THEN [fn |-> w[2], at |-> "result", site |-> w[3]]
  ELSE [fn |-> pc.fn, at |-> "lost", site |-> 0]

RSUB ==
  /\ pc.at = "return"
  /\ pc' = Target(L)
  /\ callers' = SubSeq(callers, 1, Len(callers) - 1)
  /\ UNCHANGED <<X, L, S, T, mem>>
-----------------------------------------------------------------------------
Init ==
  /\ pc = Entry(Main)
  /\ X = StackTop
  /\ L = Halt
  /\ S = Junk
  /\ T = Junk
  /\ mem = [a \in Addr |-> Junk]
  /\ callers = <<>>

Next ==
  \/ LoadAmount
  \/ emitPrologue
  \/ spillCalleeSavedRegisters
  \/ \E d \in Data : StoreLocal(Val(d)) \/ StoreParameter(Val(d)) \/ passArgOnStack(Val(d))
  \/ UseL
  \/ \E s \in DOMAIN Callee[pc.fn] : JSUB(s)
  \/ LowerCallResult
  \/ LowerReturn
  \/ restoreCalleeSavedRegisters
  \/ emitEpilogue
  \/ RSUB

Spec == Init /\ [][Next]_vars
-----------------------------------------------------------------------------
(* The call stack: the suspended activations where callers says they lie,  *)
(* and the running one where pc and X say.                                 *)

Read(a) == IF Fetched(a) \in Values THEN Fetched(a) ELSE Junk

(* The variables of an activation of f that was entered with X = entry.    *)
Activation(f, site, entry) ==
  LET size == Frame[f].size
  IN [fn |-> f, site |-> site,
      local |-> IF size = 0 THEN Junk ELSE Read(entry - size + Frame[f].local),
      param |-> Read(entry)]

Activations ==
  IF pc.at = "halt" THEN <<>>
  ELSE Append([i \in 1 .. Len(callers) |->
                 Activation(callers[i].fn, callers[i].site, callers[i].entry)],
              Activation(pc.fn, pc.site, EntryX))

Abstract == INSTANCE CallStack WITH stack <- Activations, Undefined <- Junk
-----------------------------------------------------------------------------
(* Properties.                                                             *)

Points == {"amount-down", "down", "spill", "body", "call", "result", "reload",
           "amount-up", "up", "return", "halt"}

TypeOK ==
  /\ pc \in [fn : Functions, at : Points, site : Nat]
  /\ X \in Addr
  /\ L \in Words
  /\ mem \in [Addr -> Words]
  /\ pc.at \in {"down", "up"} => T = Amount(F.size)
  /\ callers \in Seq([fn : Functions, site : Nat, entry : Addr])

(* The machine code implements the call stack: whatever the functions      *)
(* store, and although L holds other values in between, every return       *)
(* resumes the caller at its call site, and no function changes a variable *)
(* or parameter of another activation, its own callers' included.          *)
CallsImplementStack == Abstract!Spec

(* When the program halts, every byte of stack has been given back.        *)
StackReleased == pc.at = "halt" => X = StackTop

(* A caller finds the result of the function it called in S, although the  *)
(* epilogue runs between the copy to S and the return.                     *)
ResultReturned ==
  pc.at = "result" => S = Result(Callee[pc.fn][pc.site], 1)

(* "Using S and T for return" (SICCallingConv.td, RetCC_SICEABI).          *)
PairReturned ==
  pc.at = "result" /\ Callee[pc.fn][pc.site] \in Pairs =>
    T = Result(Callee[pc.fn][pc.site], 2)
=============================================================================
