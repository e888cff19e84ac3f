--------------------------- MODULE SICExec_proofs ---------------------------
(***************************************************************************)
(* Proofs about SICExec, for any program and any frames that satisfy       *)
(* FrameAssumption.  The activations of a program are numbered from main's *)
(* to the running one; the argument is that their frames lie below each    *)
(* other without a gap (Chained), that each keeps the address it returns   *)
(* to, in its slot or in L (Linked), and that the running one stores at or *)
(* below its own entry, where no suspended activation keeps anything.      *)
(***************************************************************************)
EXTENDS SICExec, SequenceTheorems, TLAPS

Inner == Len(callers) + 1

FnAt(i) == IF i <= Len(callers) THEN callers[i].fn ELSE pc.fn
SiteAt(i) == IF i <= Len(callers) THEN callers[i].site ELSE pc.site
EntryAt(i) == IF i <= Len(callers) THEN callers[i].entry ELSE EntryX

SizeAt(i) == Frame[FnAt(i)].size
SlotAt(i) == EntryAt(i) - SizeAt(i) + Frame[FnAt(i)].slotL
LocalAt(i) == EntryAt(i) - SizeAt(i) + Frame[FnAt(i)].local
ReturnTo(i) == IF i = 1 THEN Halt ELSE Ret(FnAt(i - 1), SiteAt(i - 1))

Chained ==
  /\ EntryAt(1) = StackTop
  /\ \A i \in 1 .. Len(callers) :
       /\ SiteAt(i) \in DOMAIN Callee[FnAt(i)]
       /\ FnAt(i + 1) = Callee[FnAt(i)][SiteAt(i)]
       /\ EntryAt(i + 1) = EntryAt(i) - SizeAt(i)
       /\ \A j \in i + 1 .. Inner : EntryAt(j) + SizeAt(i) <= EntryAt(i)

(* What the points of the code tell.                                       *)
Placed ==
  /\ EntryX \in Addr
  /\ pc.at \in {"amount-down", "down"} => X - F.size \in Addr
  /\ pc.at \in {"spill", "reload"} => F.savesL
  /\ pc.at = "call" => Callee[pc.fn] # <<>>
  /\ pc.at = "halt" => callers = <<>>

Results ==
  /\ pc.at = "result" => /\ pc.site \in DOMAIN Callee[pc.fn]
                         /\ S = Result(Callee[pc.fn][pc.site], 1)
  /\ pc.at \in {"reload", "amount-up", "up", "return"} => S = Result(pc.fn, 1)

LinkSpilled == F.savesL /\ pc.at \in {"body", "call", "result", "reload"}

Linked ==
  /\ \A i \in 1 .. Len(callers) : mem[SlotAt(i)] = ReturnTo(i)
  /\ pc.at # "halt" => IF LinkSpilled THEN mem[SlotAt(Inner)] = ReturnTo(Inner)
                                      ELSE L = ReturnTo(Inner)

IInv == TypeOK /\ Chained /\ Placed /\ Results /\ Linked
-----------------------------------------------------------------------------
LEMMA Frames ==
  \A f \in Functions :
    LET G == Frame[f]
    IN /\ G.size \in Nat /\ G.slotL \in Nat /\ G.local \in Nat /\ G.savesL \in BOOLEAN
       /\ G.size # 0 => G.local + 3 <= G.size
       /\ G.savesL => G.slotL + 3 <= G.size /\ Apart(G.slotL, G.local)
       /\ Callee[f] # <<>> => G.savesL /\ G.slotL >= 3 /\ G.local >= 3
BY FrameAssumption DEF FrameOK, Suitable

LEMMA Addresses ==
  /\ StackTop \in Addr
  /\ \A a : a \in Addr <=> a \in Int /\ StackTop - StackSpace <= a /\ a <= StackTop
<1>1. StackTop \in Nat /\ StackSpace \in Int /\ StackSpace <= StackTop /\ StackSpace >= 0
  BY StackAssumption, Frames, CalleeAssumption DEF StackTop
<1>2. QED BY <1>1 DEF Addr

LEMMA Storing ==
  ASSUME TypeOK, NEW a \in Int, NEW w \in Words
  PROVE  /\ Stored(a, w) \in [Addr -> Words]
         /\ a \in Addr => Stored(a, w)[a] = w
         /\ \A b \in Addr : a + 3 <= b \/ b + 3 <= a => Stored(a, w)[b] = mem[b]
<1>1. Junk \in Words
  BY DEF Words
<1>2. \A b \in Addr : b \in Int
  BY Addresses
<1>3. QED BY <1>1, <1>2 DEF TypeOK, Stored, Apart

LEMMA Sequence ==
  ASSUME TypeOK
  PROVE  /\ Len(callers) \in Nat
         /\ \A i \in 1 .. Len(callers) :
              callers[i] \in [fn : Functions, site : Nat, entry : Addr]
<1> DEFINE R == [fn : Functions, site : Nat, entry : Addr]
<1>1. callers \in Seq(R)
  BY DEF TypeOK
<1> HIDE DEF R
<1>2. Len(callers) \in Nat /\ \A i \in 1 .. Len(callers) : callers[i] \in R
  BY <1>1
<1>3. QED BY <1>2 DEF R

LEMMA Typed ==
  ASSUME TypeOK, Placed, NEW i \in 1 .. Inner
  PROVE  FnAt(i) \in Functions /\ SiteAt(i) \in Nat /\ EntryAt(i) \in Addr /\ EntryAt(i) \in Int
<1>1. FnAt(i) \in Functions /\ SiteAt(i) \in Nat /\ EntryAt(i) \in Addr
  BY Sequence DEF Inner, FnAt, SiteAt, EntryAt, TypeOK, Placed
<1>2. QED BY <1>1, Addresses

(* What a suspended activation keeps lies above the entry of the running   *)
(* one.                                                                    *)
LEMMA Suspended ==
  ASSUME TypeOK, Chained, Placed, NEW i \in 1 .. Len(callers)
  PROVE  /\ Frame[FnAt(i)].savesL /\ SizeAt(i) \in Nat /\ SizeAt(i) >= 6
         /\ SlotAt(i) \in Addr /\ EntryX + 3 <= SlotAt(i)
         /\ LocalAt(i) \in Addr /\ EntryX + 3 <= LocalAt(i)
         /\ EntryAt(i) \in Addr /\ EntryX + 3 <= EntryAt(i)
<1>1. i \in 1 .. Inner /\ Inner \in i + 1 .. Inner
  BY Sequence DEF Inner
<1>2. FnAt(i) \in Functions /\ EntryAt(i) \in Addr /\ EntryAt(i) \in Int
  BY <1>1, Typed
<1>3. Callee[FnAt(i)] # <<>>
  BY DEF Chained
<1>4. EntryAt(Inner) = EntryX
  BY Sequence DEF EntryAt, Inner
<1>5. EntryX + SizeAt(i) <= EntryAt(i)
  BY <1>1, <1>4 DEF Chained
<1>6. EntryX \in Int /\ StackTop - StackSpace <= EntryX
  BY Addresses DEF Placed
<1>7. /\ Frame[FnAt(i)].savesL /\ SizeAt(i) \in Nat
      /\ Frame[FnAt(i)].slotL \in Nat /\ Frame[FnAt(i)].slotL >= 3
      /\ Frame[FnAt(i)].slotL + 3 <= SizeAt(i)
      /\ Frame[FnAt(i)].local \in Nat /\ Frame[FnAt(i)].local >= 3
      /\ Frame[FnAt(i)].local + 3 <= SizeAt(i)
  BY <1>2, <1>3, Frames DEF SizeAt
<1>8. StackTop \in Int /\ StackSpace \in Int /\ EntryAt(i) <= StackTop
  BY <1>2, Addresses, StackAssumption, Frames, CalleeAssumption
<1> DEFINE e == EntryAt(i)  s == SizeAt(i)  k == Frame[FnAt(i)].slotL  l == Frame[FnAt(i)].local
<1>9. SlotAt(i) = e - s + k /\ LocalAt(i) = e - s + l
  BY DEF SlotAt, LocalAt
<1> HIDE DEF e, s, k, l
<1>10. /\ EntryX + 3 <= e - s + k /\ e - s + k \in Addr
       /\ EntryX + 3 <= e - s + l /\ e - s + l \in Addr
       /\ EntryX + 3 <= e
  <2>1. e \in Int /\ s \in Nat /\ k \in Nat /\ l \in Nat /\ EntryX + s <= e /\ e <= StackTop
          /\ 3 <= k /\ k + 3 <= s /\ 3 <= l /\ l + 3 <= s
    BY <1>2, <1>5, <1>7, <1>8 DEF e, s, k, l
  <2>2. QED BY <2>1, <1>6, <1>8, Addresses
<1>11. s >= 6
  BY <1>7 DEF s
<1>12. QED BY <1>2, <1>7, <1>9, <1>10, <1>11 DEF e, s

(* A store at or below the entry of the running activation.                *)
LEMMA StoringBelow ==
  ASSUME TypeOK, Chained, Placed, NEW a \in Int, a <= EntryX, NEW w \in Words,
         NEW i \in 1 .. Len(callers)
  PROVE  /\ Stored(a, w)[SlotAt(i)] = mem[SlotAt(i)]
         /\ Stored(a, w)[LocalAt(i)] = mem[LocalAt(i)]
         /\ Stored(a, w)[EntryAt(i)] = mem[EntryAt(i)]
<1>1. EntryX \in Int /\ \A b \in Addr : b \in Int
  BY Addresses DEF Placed
<1>2. QED BY <1>1, Suspended, Storing
-----------------------------------------------------------------------------
(* Steps that neither call nor return.                                     *)
Stays == callers' = callers /\ pc' = [pc EXCEPT !.at = pc'.at] /\ EntryX' = EntryX

LEMMA Staying ==
  ASSUME TypeOK, Chained, Placed, Stays
  PROVE  /\ Chained'
         /\ pc'.fn = pc.fn /\ pc'.site = pc.site /\ F' = F /\ Inner' = Inner
         /\ \A i \in 1 .. Inner :
              /\ FnAt(i)' = FnAt(i) /\ SiteAt(i)' = SiteAt(i) /\ EntryAt(i)' = EntryAt(i)
              /\ SlotAt(i)' = SlotAt(i) /\ LocalAt(i)' = LocalAt(i)
              /\ ReturnTo(i)' = ReturnTo(i)
<1>1. pc'.fn = pc.fn /\ pc'.site = pc.site
  BY DEF Stays, TypeOK
<1>2. F' = F /\ Inner' = Inner
  BY <1>1 DEF Stays, F, Inner
<1>3. \A i : FnAt(i)' = FnAt(i) /\ SiteAt(i)' = SiteAt(i) /\ EntryAt(i)' = EntryAt(i)
  BY <1>1 DEF Stays, FnAt, SiteAt, EntryAt
<1>4. \A i : /\ SizeAt(i)' = SizeAt(i) /\ SlotAt(i)' = SlotAt(i) /\ LocalAt(i)' = LocalAt(i)
             /\ ReturnTo(i)' = ReturnTo(i)
  BY <1>3 DEF SizeAt, SlotAt, LocalAt, ReturnTo
<1>5. Chained'
  BY <1>2, <1>3, <1>4 DEF Chained, Stays
<1>6. QED BY <1>1, <1>2, <1>3, <1>4, <1>5

(* The running activation: where its frame is.                             *)
LEMMA RunningFrame ==
  ASSUME TypeOK, Placed
  PROVE  /\ Inner \in Nat /\ Inner \in 1 .. Inner
         /\ FnAt(Inner) = pc.fn /\ SiteAt(Inner) = pc.site /\ EntryAt(Inner) = EntryX
         /\ F = Frame[pc.fn] /\ SizeAt(Inner) = F.size
         /\ X \in Int /\ EntryX \in Int /\ EntryX <= StackTop
         /\ F.size \in Nat /\ F.slotL \in Nat /\ F.local \in Nat /\ F.savesL \in BOOLEAN
         /\ F.size # 0 => F.local + 3 <= F.size
         /\ F.savesL => F.slotL + 3 <= F.size /\ Apart(F.slotL, F.local)
         /\ Callee[pc.fn] # <<>> => F.savesL /\ F.slotL >= 3 /\ F.local >= 3
<1>1. pc.fn \in Functions /\ X \in Int
  BY Addresses DEF TypeOK
<1>2. EntryX \in Int /\ EntryX <= StackTop
  BY Addresses DEF Placed
<1>3. Inner \in Nat /\ Inner \in 1 .. Inner /\ FnAt(Inner) = pc.fn /\ SiteAt(Inner) = pc.site
        /\ EntryAt(Inner) = EntryX
  BY Sequence DEF Inner, FnAt, SiteAt, EntryAt
<1>4. QED BY <1>1, <1>2, <1>3, Frames DEF F, SizeAt
-----------------------------------------------------------------------------
(* The memory a step leaves: the same, or with a store at or below the     *)
(* entry of the running activation.                                        *)
StoresBelow == \/ mem' = mem
               \/ \E a \in Int, w \in Words : a <= EntryX /\ mem' = Stored(a, w)

LEMMA StayingKeeps ==
  ASSUME IInv, Stays, StoresBelow, TypeOK', Placed', Results',
         pc'.at # "halt" => IF LinkSpilled' THEN mem'[SlotAt(Inner)] = ReturnTo(Inner)
                                            ELSE L' = ReturnTo(Inner)
  PROVE  IInv'
<1>1. /\ Chained' /\ Inner' = Inner /\ Len(callers') = Len(callers)
      /\ \A i \in 1 .. Inner : SlotAt(i)' = SlotAt(i) /\ ReturnTo(i)' = ReturnTo(i)
  BY Staying DEF IInv, Stays
<1>2. Inner \in 1 .. Inner /\ \A i \in 1 .. Len(callers) : i \in 1 .. Inner
  BY Sequence DEF IInv, Inner
<1>3. ASSUME NEW i \in 1 .. Len(callers) PROVE mem'[SlotAt(i)] = mem[SlotAt(i)]
  <2>1. CASE \E a \in Int, w \in Words : a <= EntryX /\ mem' = Stored(a, w)
    <3>1. PICK a \in Int, w \in Words : a <= EntryX /\ mem' = Stored(a, w)
      BY <2>1
    <3>2. QED BY <3>1, StoringBelow DEF IInv
  <2>2. QED BY <2>1 DEF StoresBelow
<1>4. \A i \in 1 .. Len(callers)' : mem'[SlotAt(i)'] = ReturnTo(i)'
  BY <1>1, <1>2, <1>3 DEF IInv, Linked
<1>5. pc'.at # "halt" => IF LinkSpilled' THEN mem'[(SlotAt(Inner))'] = (ReturnTo(Inner))'
                                         ELSE L' = (ReturnTo(Inner))'
  <2>1. (SlotAt(Inner))' = SlotAt(Inner) /\ (ReturnTo(Inner))' = ReturnTo(Inner)
    BY <1>1, <1>2
  <2>2. QED BY <2>1
<1>6. QED BY <1>1, <1>4, <1>5 DEF IInv, Linked

LEMMA LoadAmountKeeps ==
  ASSUME IInv, LoadAmount
  PROVE  IInv' /\ Stays
<1>1. Stays
  BY DEF IInv, TypeOK, LoadAmount, Go, Stays, EntryX, F
<1>2. F' = F
  BY <1>1, Staying DEF IInv
<1>3. TypeOK'
  BY <1>2 DEF IInv, TypeOK, LoadAmount, Go, Points
<1>4. Placed' /\ Results'
  BY <1>1, <1>2 DEF IInv, TypeOK, LoadAmount, Go, Stays, Placed, Results
<1>5. ~LinkSpilled /\ ~LinkSpilled' /\ pc.at # "halt"
  BY DEF IInv, TypeOK, LoadAmount, Go, LinkSpilled
<1>6. L' = ReturnTo(Inner) /\ mem' = mem
  BY <1>5 DEF IInv, Linked, LoadAmount
<1>7. QED BY <1>1, <1>3, <1>4, <1>5, <1>6, StayingKeeps DEF StoresBelow

LEMMA PrologueKeeps ==
  ASSUME IInv, emitPrologue
  PROVE  IInv' /\ Stays
<1>1. X - F.size \in Addr /\ T[2] = F.size /\ EntryX = X
  BY DEF IInv, TypeOK, Placed, emitPrologue, EntryX, Amount
<1>2. F' = F /\ X' = X - F.size /\ callers' = callers /\ pc' = [pc EXCEPT !.at = pc'.at]
  BY <1>1 DEF IInv, TypeOK, emitPrologue, Go, F
<1>3. X \in Int /\ F.size \in Nat
  BY RunningFrame DEF IInv
<1>4. EntryX' = X' + F.size
  BY <1>2 DEF IInv, TypeOK, emitPrologue, Go, EntryX
<1>5. Stays
  BY <1>1, <1>2, <1>3, <1>4 DEF Stays
<1>6. TypeOK'
  BY <1>1, <1>2 DEF IInv, TypeOK, emitPrologue, Go, Points
<1>7. Placed' /\ Results'
  BY <1>2, <1>5 DEF IInv, TypeOK, emitPrologue, Go, Stays, Placed, Results
<1>8. ~LinkSpilled /\ ~LinkSpilled' /\ pc.at # "halt"
  BY <1>2 DEF IInv, TypeOK, emitPrologue, Go, LinkSpilled
<1>9. L' = ReturnTo(Inner) /\ mem' = mem
  BY <1>8 DEF IInv, Linked, emitPrologue
<1>10. QED BY <1>5, <1>6, <1>7, <1>8, <1>9, StayingKeeps DEF StoresBelow

(* In the body, X is the entry less the frame.                             *)
LEMMA BodyAddresses ==
  ASSUME TypeOK, Placed, pc.at \in {"spill", "body", "call", "result", "reload"}
  PROVE  /\ EntryX = X + F.size
         /\ SlotAt(Inner) = X + F.slotL /\ LocalAt(Inner) = X + F.local
         /\ \A k \in Nat : k <= F.size => /\ X + k \in Addr /\ X + k \in Int /\ X + k <= EntryX
<1>1. EntryX = X + F.size
  BY DEF EntryX
<1>2. X \in Addr /\ EntryX \in Addr
  BY DEF TypeOK, Placed
<1>3. X \in Int /\ StackTop - StackSpace <= X /\ EntryX <= StackTop
  BY <1>2, Addresses
<1>4. StackTop \in Int /\ StackSpace \in Int
  BY Addresses, StackAssumption, Frames, CalleeAssumption
<1>5. F.size \in Nat /\ F.slotL \in Nat /\ F.local \in Nat
  BY RunningFrame
<1>6. \A k \in Nat : k <= F.size => X + k \in Addr /\ X + k \in Int /\ X + k <= EntryX
  BY <1>1, <1>3, <1>4, <1>5, Addresses
<1>7. SlotAt(Inner) = EntryX - F.size + F.slotL /\ LocalAt(Inner) = EntryX - F.size + F.local
  BY RunningFrame DEF SlotAt, LocalAt, F
<1>8. QED BY <1>1, <1>3, <1>5, <1>6, <1>7

LEMMA SpillKeeps ==
  ASSUME IInv, spillCalleeSavedRegisters
  PROVE  /\ IInv' /\ Stays
         /\ mem' = Stored(SlotAt(Inner), L) /\ SlotAt(Inner) \in Int
         /\ SlotAt(Inner) <= EntryX /\ L \in Words
<1>1. pc.at = "spill" /\ pc'.at = "body" /\ F.savesL /\ F' = F
  BY DEF IInv, TypeOK, Placed, spillCalleeSavedRegisters, Go, F
<1>2. Stays
  BY <1>1 DEF IInv, TypeOK, spillCalleeSavedRegisters, Go, Stays, EntryX
<1>3. F.slotL \in Nat /\ F.slotL <= F.size
  BY <1>1, RunningFrame DEF IInv
<1>4. SlotAt(Inner) = X + F.slotL /\ SlotAt(Inner) \in Addr /\ SlotAt(Inner) \in Int
        /\ SlotAt(Inner) <= EntryX
  BY <1>1, <1>3, BodyAddresses DEF IInv
<1>5. L \in Words /\ mem' = Stored(SlotAt(Inner), L)
  BY <1>4 DEF IInv, TypeOK, spillCalleeSavedRegisters
<1>6. mem' \in [Addr -> Words] /\ mem'[SlotAt(Inner)] = L
  BY <1>4, <1>5, Storing DEF IInv
<1>7. TypeOK'
  BY <1>1, <1>6 DEF IInv, TypeOK, spillCalleeSavedRegisters, Go, Points
<1>8. Placed' /\ Results'
  BY <1>1, <1>2 DEF IInv, Stays, Placed, Results
<1>9. L = ReturnTo(Inner)
  BY <1>1 DEF IInv, Linked, LinkSpilled
<1>10. LinkSpilled'
  BY <1>1 DEF LinkSpilled
<1>11. QED BY <1>2, <1>4, <1>5, <1>6, <1>7, <1>8, <1>9, <1>10, StayingKeeps DEF StoresBelow

(* A store of the body, at displacement k, that spares the slot of L.      *)
LEMMA BodyStoreKeeps ==
  ASSUME IInv, pc.at = "body", pc' = [pc EXCEPT !.at = pc'.at], pc'.at \in {"body", "call"},
         pc'.at = "call" => Callee[pc.fn] # <<>>,
         NEW k \in Nat, k <= F.size, F.savesL => k + 3 <= F.slotL \/ F.slotL + 3 <= k,
         NEW w \in Words, mem' = Stored(X + k, w), UNCHANGED <<X, L, S, T, callers>>
  PROVE  IInv' /\ Stays
<1>1. F' = F
  BY DEF IInv, TypeOK, F
<1>2. Stays
  BY <1>1 DEF IInv, TypeOK, Stays, EntryX
<1>3. X + k \in Int /\ X + k <= EntryX
  BY BodyAddresses DEF IInv
<1>4. mem' \in [Addr -> Words]
  BY <1>3, Storing DEF IInv
<1>5. TypeOK'
  BY <1>1, <1>4 DEF IInv, TypeOK, Points
<1>6. Placed' /\ Results'
  BY <1>1, <1>2 DEF IInv, TypeOK, Stays, Placed, Results
<1>7. LinkSpilled' <=> LinkSpilled
  BY <1>1 DEF LinkSpilled
<1>8. CASE F.savesL
  <2>1. LinkSpilled
    BY <1>8 DEF LinkSpilled
  <2>2. F.slotL \in Nat /\ F.slotL <= F.size
    BY <1>8, RunningFrame DEF IInv
  <2>3. SlotAt(Inner) = X + F.slotL /\ SlotAt(Inner) \in Addr /\ X \in Int
    BY <2>2, BodyAddresses, RunningFrame DEF IInv
  <2>4. mem'[SlotAt(Inner)] = mem[SlotAt(Inner)]
    <3>1. X + k + 3 <= SlotAt(Inner) \/ SlotAt(Inner) + 3 <= X + k
      BY <1>8, <2>2, <2>3
    <3>2. QED BY <1>3, <2>3, <3>1, Storing DEF IInv
  <2>5. mem'[SlotAt(Inner)] = ReturnTo(Inner)
    BY <2>1, <2>4 DEF IInv, Linked
  <2>6. QED BY <1>2, <1>3, <1>5, <1>6, <1>7, <2>1, <2>5, StayingKeeps DEF StoresBelow
<1>9. CASE ~F.savesL
  <2>1. ~LinkSpilled /\ L' = ReturnTo(Inner)
    BY <1>9 DEF IInv, Linked, LinkSpilled
  <2>2. QED BY <1>2, <1>3, <1>5, <1>6, <1>7, <2>1, StayingKeeps DEF StoresBelow
<1>10. QED BY <1>8, <1>9

LEMMA ValIsWord == \A d \in Data : Val(d) \in Values /\ Val(d) \in Words
BY DEF Values, Words

(* Where the stores of the body go.                                        *)
LEMMA BodyKeeps ==
  ASSUME IInv, NEW d \in Data,
         StoreLocal(Val(d)) \/ StoreParameter(Val(d)) \/ passArgOnStack(Val(d))
  PROVE  IInv' /\ Stays
<1>1. Val(d) \in Words
  BY ValIsWord
<1>2. pc = [pc EXCEPT !.at = pc.at]
  BY DEF IInv, TypeOK
<1>3. /\ F.size \in Nat /\ F.local \in Nat /\ F.slotL \in Nat /\ X \in Int
      /\ F.size # 0 => F.local + 3 <= F.size
      /\ F.savesL => F.slotL + 3 <= F.size /\ Apart(F.slotL, F.local)
      /\ Callee[pc.fn] # <<>> => F.slotL >= 3
  BY RunningFrame DEF IInv
<1>4. CASE StoreLocal(Val(d))
  <2>1. F.local <= F.size /\ (F.savesL => F.local + 3 <= F.slotL \/ F.slotL + 3 <= F.local)
    BY <1>3, <1>4 DEF StoreLocal, Apart
  <2>2. QED BY <1>1, <1>2, <1>3, <1>4, <2>1, BodyStoreKeeps DEF StoreLocal
<1>5. CASE StoreParameter(Val(d))
  BY <1>1, <1>2, <1>3, <1>5, BodyStoreKeeps DEF StoreParameter
<1>6. CASE passArgOnStack(Val(d))
  <2>1. pc' = [pc EXCEPT !.at = pc'.at] /\ pc'.at = "call" /\ X + 0 = X
    BY <1>3, <1>6 DEF IInv, TypeOK, passArgOnStack, Go
  <2>2. mem' = Stored(X + 0, Val(d))
    BY <1>6, <2>1 DEF passArgOnStack
  <2>3. 0 \in Nat /\ 0 <= F.size /\ (F.savesL => 0 + 3 <= F.slotL \/ F.slotL + 3 <= 0)
    BY <1>3, <1>6 DEF passArgOnStack
  <2>4. QED BY <1>1, <1>6, <2>1, <2>2, <2>3, BodyStoreKeeps DEF passArgOnStack
<1>7. QED BY <1>1, <1>4, <1>5, <1>6

LEMMA UseLKeeps ==
  ASSUME IInv, UseL
  PROVE  IInv' /\ Stays
<1>1. pc = [pc EXCEPT !.at = pc.at] /\ Junk \in Words
  BY DEF IInv, TypeOK, Words
<1>2. Stays /\ F' = F
  BY <1>1 DEF UseL, Stays, EntryX, F
<1>3. TypeOK'
  BY <1>1, <1>2 DEF IInv, TypeOK, UseL
<1>4. Placed' /\ Results'
  BY <1>2 DEF IInv, UseL, Stays, Placed, Results
<1>5. LinkSpilled /\ LinkSpilled'
  BY <1>2 DEF UseL, LinkSpilled
<1>6. mem'[SlotAt(Inner)] = ReturnTo(Inner) /\ mem' = mem
  BY <1>5 DEF IInv, Linked, LinkSpilled, UseL
<1>7. QED BY <1>2, <1>3, <1>4, <1>5, <1>6, StayingKeeps DEF StoresBelow

LEMMA ResultKeeps ==
  ASSUME IInv, LowerCallResult
  PROVE  IInv' /\ Stays
<1>1. pc.at = "result" /\ pc'.at = "body" /\ F' = F
  BY DEF IInv, TypeOK, LowerCallResult, Go, F
<1>2. Stays
  BY <1>1 DEF IInv, TypeOK, LowerCallResult, Go, Stays, EntryX
<1>3. TypeOK'
  BY <1>1 DEF IInv, TypeOK, LowerCallResult, Go, Points
<1>4. Placed' /\ Results'
  BY <1>1, <1>2 DEF IInv, Stays, Placed, Results
<1>5. LinkSpilled' <=> LinkSpilled
  BY <1>1 DEF LinkSpilled
<1>6. QED BY <1>1, <1>2, <1>3, <1>4, <1>5, StayingKeeps
          DEF StoresBelow, IInv, Linked, LowerCallResult

LEMMA ReturnKeeps ==
  ASSUME IInv, LowerReturn
  PROVE  IInv' /\ Stays
<1>1. /\ pc.at = "body" /\ F' = F /\ pc'.fn = pc.fn /\ pc' = [pc EXCEPT !.at = pc'.at]
      /\ pc'.at = IF F.savesL THEN "reload" ELSE IF F.size = 0 THEN "return" ELSE "amount-up"
  BY DEF IInv, TypeOK, LowerReturn, Go, F
<1>2. F.size \in Nat /\ F.savesL \in BOOLEAN /\ X \in Int /\ (F.savesL => F.size # 0)
  BY RunningFrame DEF IInv
<1>3. EntryX' = EntryX
  BY <1>1, <1>2 DEF LowerReturn, EntryX
<1>4. Stays
  BY <1>1, <1>3 DEF LowerReturn, Stays
<1>5. TypeOK'
  BY <1>1, <1>2 DEF IInv, TypeOK, LowerReturn, Points
<1>6. Placed' /\ Results'
  BY <1>1, <1>2, <1>3 DEF IInv, LowerReturn, Placed, Results
<1>7. (LinkSpilled' <=> LinkSpilled) /\ pc.at # "halt"
  BY <1>1, <1>2 DEF LinkSpilled
<1>8. QED BY <1>4, <1>5, <1>6, <1>7, StayingKeeps DEF StoresBelow, IInv, Linked, LowerReturn

LEMMA ReloadKeeps ==
  ASSUME IInv, restoreCalleeSavedRegisters
  PROVE  IInv' /\ Stays
<1>1. pc.at = "reload" /\ pc'.at = "amount-up" /\ F' = F /\ F.savesL
  BY DEF IInv, TypeOK, Placed, restoreCalleeSavedRegisters, Go, F
<1>2. Stays
  BY <1>1 DEF IInv, TypeOK, restoreCalleeSavedRegisters, Go, Stays, EntryX
<1>3. F.slotL \in Nat /\ F.slotL <= F.size
  BY <1>1, RunningFrame DEF IInv
<1>4. SlotAt(Inner) = X + F.slotL /\ SlotAt(Inner) \in Addr
  BY <1>1, <1>3, BodyAddresses DEF IInv
<1>5. LinkSpilled
  BY <1>1 DEF LinkSpilled
<1>6. L' = ReturnTo(Inner) /\ L' \in Words /\ mem' = mem
  BY <1>1, <1>4, <1>5 DEF IInv, TypeOK, Linked, restoreCalleeSavedRegisters, Fetched
<1>7. TypeOK'
  BY <1>1, <1>6 DEF IInv, TypeOK, restoreCalleeSavedRegisters, Go, Points
<1>8. Placed' /\ Results'
  BY <1>1, <1>2 DEF IInv, TypeOK, restoreCalleeSavedRegisters, Go, Stays, Placed, Results
<1>9. ~LinkSpilled'
  BY <1>1 DEF LinkSpilled
<1>10. QED BY <1>2, <1>6, <1>7, <1>8, <1>9, StayingKeeps DEF StoresBelow

LEMMA EpilogueKeeps ==
  ASSUME IInv, emitEpilogue
  PROVE  IInv' /\ Stays
<1>1. pc.at = "up" /\ pc'.at = "return" /\ F' = F /\ pc' = [pc EXCEPT !.at = pc'.at]
        /\ pc'.fn = pc.fn
  BY DEF IInv, TypeOK, emitEpilogue, Go, F
<1>2. T[2] = F.size /\ EntryX = X + F.size
  BY <1>1 DEF IInv, TypeOK, EntryX, Amount
<1>3. X' = EntryX /\ EntryX' = EntryX /\ callers' = callers
  BY <1>1, <1>2 DEF emitEpilogue, EntryX
<1>4. Stays
  BY <1>1, <1>3 DEF Stays
<1>5. TypeOK'
  BY <1>1, <1>3 DEF IInv, TypeOK, Placed, emitEpilogue, Points
<1>6. Placed' /\ Results'
  BY <1>1, <1>3 DEF IInv, TypeOK, emitEpilogue, Placed, Results
<1>7. ~LinkSpilled /\ ~LinkSpilled'
  BY <1>1 DEF LinkSpilled
<1>8. L' = ReturnTo(Inner) /\ mem' = mem
  BY <1>1, <1>7 DEF IInv, Linked, emitEpilogue
<1>9. QED BY <1>4, <1>5, <1>6, <1>7, <1>8, StayingKeeps DEF StoresBelow
-----------------------------------------------------------------------------
(* A call: the running activation is suspended and one begins below it.    *)
LEMMA Calling ==
  ASSUME IInv, NEW s \in DOMAIN Callee[pc.fn], JSUB(s), NEW n, n = Inner
  PROVE  LET g == Callee[pc.fn][s]
         IN /\ g \in Functions /\ pc'.fn = g /\ pc'.site = 0 /\ pc' = Entry(g)
            /\ Len(callers') = Inner /\ Inner' = Inner + 1 /\ EntryX' = X /\ X' = X
            /\ callers' \in Seq([fn : Functions, site : Nat, entry : Addr])
            /\ \A i \in 1 .. Inner : FnAt(i)' = FnAt(i) /\ EntryAt(i)' = EntryAt(i)
            /\ \A i \in 1 .. Len(callers) : SiteAt(i)' = SiteAt(i)
            /\ SiteAt(n)' = s /\ FnAt(n + 1)' = g /\ EntryAt(n + 1)' = X /\ SiteAt(n + 1)' = 0
<1> DEFINE g == Callee[pc.fn][s]
           c == [fn |-> pc.fn, site |-> s, entry |-> EntryX]
           R == [fn : Functions, site : Nat, entry : Addr]
<1>1. g \in Functions /\ s \in Nat
  BY CalleeAssumption DEF IInv, TypeOK
<1>2. c \in R /\ callers \in Seq(R)
  BY <1>1 DEF IInv, TypeOK, Placed
<1>3. callers' = Append(callers, c) /\ pc' = Entry(g) /\ X' = X
  BY DEF JSUB
<1> HIDE DEF g, R
<1>4. /\ callers' \in Seq(R) /\ Len(callers') = Len(callers) + 1 /\ Len(callers) \in Nat
      /\ \A i \in 1 .. Len(callers) : callers'[i] = callers[i]
      /\ callers'[Len(callers) + 1] = c
  BY <1>2, <1>3
<1>5. pc'.fn = g /\ pc'.site = 0 /\ EntryX' = X
  <2>1. X \in Int
    BY RunningFrame DEF IInv
  <2>2. Frame[g].size \in Nat
    BY <1>1, Frames
  <2>3. pc'.fn = g /\ pc'.site = 0
          /\ pc'.at = IF Frame[g].size = 0 THEN "body" ELSE "amount-down"
    BY <1>3 DEF Entry
  <2>4. QED BY <1>3, <2>1, <2>2, <2>3 DEF EntryX, F
<1>6. \A i \in 1 .. Len(callers) : FnAt(i)' = FnAt(i) /\ SiteAt(i)' = SiteAt(i)
                                    /\ EntryAt(i)' = EntryAt(i)
  BY <1>4 DEF FnAt, SiteAt, EntryAt
<1>7. /\ FnAt(n)' = pc.fn /\ SiteAt(n)' = s /\ EntryAt(n)' = EntryX
      /\ FnAt(n) = pc.fn /\ EntryAt(n) = EntryX
  BY <1>4 DEF FnAt, SiteAt, EntryAt, Inner
<1>8. /\ FnAt(n + 1)' = g /\ EntryAt(n + 1)' = X /\ SiteAt(n + 1)' = 0
  BY <1>4, <1>5 DEF FnAt, SiteAt, EntryAt, Inner
<1>9. QED BY <1>1, <1>3, <1>4, <1>5, <1>6, <1>7, <1>8 DEF Inner, g, R

LEMMA CallKeeps ==
  ASSUME IInv, NEW s \in DOMAIN Callee[pc.fn], JSUB(s)
  PROVE  IInv'
<1> DEFINE g == Callee[pc.fn][s]
<1>0. PICK n : n = Inner
  OBVIOUS
<1>1. /\ g \in Functions /\ pc'.fn = g /\ pc' = Entry(g) /\ pc'.site = 0
      /\ Len(callers') = Inner /\ Inner' = Inner + 1 /\ EntryX' = X /\ X' = X
      /\ callers' \in Seq([fn : Functions, site : Nat, entry : Addr])
      /\ \A i \in 1 .. Inner : FnAt(i)' = FnAt(i) /\ EntryAt(i)' = EntryAt(i)
      /\ \A i \in 1 .. Len(callers) : SiteAt(i)' = SiteAt(i)
      /\ SiteAt(n)' = s /\ FnAt(n + 1)' = g /\ EntryAt(n + 1)' = X
  BY <1>0, Calling
<1>2. /\ pc.at = "call" /\ X - Frame[g].size \in Addr /\ mem' = mem
      /\ L' = Ret(pc.fn, s) /\ S' = S /\ T' = T
  BY DEF JSUB
<1>3. /\ F.savesL /\ EntryX = X + F.size /\ X \in Int /\ F.size \in Nat
      /\ FnAt(Inner) = pc.fn /\ EntryAt(Inner) = EntryX /\ SizeAt(Inner) = F.size
      /\ Inner \in Nat /\ Inner \in 1 .. Inner /\ X \in Addr
  BY <1>2, RunningFrame, BodyAddresses DEF IInv, TypeOK, Placed
<1>4. \A i \in 1 .. Inner : SizeAt(i)' = SizeAt(i) /\ SlotAt(i)' = SlotAt(i)
  BY <1>1 DEF SizeAt, SlotAt
<1>5. \A i \in 1 .. Inner : ReturnTo(i)' = ReturnTo(i)
  <2>1. Len(callers) \in Nat
    BY Sequence DEF IInv
  <2>2. \A i \in 1 .. Inner : i # 1 => i - 1 \in 1 .. Inner /\ i - 1 \in 1 .. Len(callers)
    BY <2>1 DEF Inner
  <2>3. QED BY <1>1, <2>2 DEF ReturnTo
<1>6. /\ pc'.at \in {"body", "amount-down"}
      /\ pc'.at = "body" => Frame[g].size = 0
  BY <1>1 DEF Entry
<1>7. F' = Frame[g]
  BY <1>1 DEF F
<1>8. TypeOK'
  <2>1. L' \in Words
    <3>1. pc.fn \in Functions
      BY DEF IInv, TypeOK
    <3>2. QED BY <1>2, <3>1 DEF Words, ReturnAddresses
  <2>2. pc' \in [fn : Functions, at : Points, site : Nat]
    BY <1>1 DEF Entry, Points
  <2>3. X' \in Addr /\ mem' \in [Addr -> Words]
    BY <1>1, <1>2 DEF IInv, TypeOK
  <2>4. QED BY <1>1, <1>6, <2>1, <2>2, <2>3 DEF TypeOK
<1>9. Placed' /\ Results'
  BY <1>1, <1>2, <1>3, <1>6, <1>7 DEF Placed, Results
<1>10. Chained'
  <2>1. EntryAt(1)' = StackTop
    BY <1>1, <1>3 DEF IInv, Chained
  <2>2. ASSUME NEW i \in 1 .. Len(callers)
        PROVE  /\ SiteAt(i)' \in DOMAIN Callee[FnAt(i)']
               /\ FnAt(i + 1)' = Callee[FnAt(i)'][SiteAt(i)']
               /\ EntryAt(i + 1)' = EntryAt(i)' - SizeAt(i)'
               /\ \A j \in i + 1 .. Inner' : EntryAt(j)' + SizeAt(i)' <= EntryAt(i)'
    <3>1. i \in 1 .. Inner /\ i + 1 \in 1 .. Inner /\ Inner \in i + 1 .. Inner
            /\ \A j \in i + 1 .. Inner : j \in 1 .. Inner
      BY Sequence DEF IInv, Inner
    <3>2. /\ SiteAt(i) \in DOMAIN Callee[FnAt(i)] /\ FnAt(i + 1) = Callee[FnAt(i)][SiteAt(i)]
          /\ EntryAt(i + 1) = EntryAt(i) - SizeAt(i)
          /\ \A j \in i + 1 .. Inner : EntryAt(j) + SizeAt(i) <= EntryAt(i)
      BY DEF IInv, Chained
    <3>3. EntryAt(i) \in Int /\ SizeAt(i) \in Nat
      BY <3>1, Typed, Suspended DEF IInv
    <3>4. X + SizeAt(i) <= EntryAt(i)
      BY <1>3, <3>1, <3>2, <3>3
    <3>5. \A j \in i + 1 .. Inner' : EntryAt(j)' + SizeAt(i)' <= EntryAt(i)'
      <4>1. \A j \in i + 1 .. Inner' : j \in i + 1 .. Inner \/ j = Inner + 1
        BY <1>1, <1>3
      <4>2. \A j \in i + 1 .. Inner : EntryAt(j)' + SizeAt(i)' <= EntryAt(i)'
        BY <1>1, <1>4, <3>1, <3>2
      <4>3. EntryAt(n + 1)' + SizeAt(i)' <= EntryAt(i)'
        BY <1>0, <1>1, <1>4, <3>1, <3>4
      <4>4. QED BY <1>0, <4>1, <4>2, <4>3
    <3>6. QED BY <1>1, <1>4, <3>1, <3>2, <3>5
  <2>3. /\ SiteAt(n)' \in DOMAIN Callee[FnAt(n)']
        /\ FnAt(n + 1)' = Callee[FnAt(n)'][SiteAt(n)']
        /\ EntryAt(n + 1)' = EntryAt(n)' - SizeAt(n)'
        /\ \A j \in n + 1 .. Inner' : EntryAt(j)' + SizeAt(n)' <= EntryAt(n)'
    <3>1. SizeAt(n)' = F.size /\ FnAt(n)' = pc.fn /\ EntryAt(n)' = EntryX
      BY <1>0, <1>1, <1>3, <1>4
    <3>2. n \in Nat /\ Inner' = n + 1 /\ EntryX - F.size = X
      BY <1>0, <1>1, <1>3
    <3>3. \A j \in n + 1 .. Inner' : j = n + 1
      BY <3>2
    <3>4. QED BY <1>0, <1>1, <1>3, <3>1, <3>2, <3>3
  <2>4. \A i \in 1 .. Len(callers') : i \in 1 .. Len(callers) \/ i = Inner
    BY <1>1, Sequence DEF IInv, Inner
  <2>5. QED BY <1>0, <2>1, <2>2, <2>3, <2>4 DEF Chained
<1>11. Linked'
  <2>1. ~LinkSpilled' /\ LinkSpilled
    <3>1. Frame[g].savesL => Frame[g].size # 0
      BY <1>1, Frames
    <3>2. QED BY <1>2, <1>3, <1>6, <1>7, <3>1 DEF LinkSpilled
  <2>2. \A i \in 1 .. Inner : mem[SlotAt(i)] = ReturnTo(i)
    <3>1. \A i \in 1 .. Inner : i \in 1 .. Len(callers) \/ i = Inner
      BY Sequence DEF IInv, Inner
    <3>2. QED BY <1>2, <2>1, <3>1 DEF IInv, Linked
  <2>3. \A i \in 1 .. Len(callers') : mem'[SlotAt(i)'] = ReturnTo(i)'
    BY <1>1, <1>2, <1>4, <1>5, <2>2
  <2>4. ReturnTo(n + 1)' = Ret(FnAt(n)', SiteAt(n)')
    BY <1>0, <1>3 DEF ReturnTo
  <2>5. L' = ReturnTo(n + 1)'
    BY <1>0, <1>1, <1>2, <1>3, <2>4
  <2>6. QED BY <1>0, <1>1, <2>1, <2>3, <2>5 DEF Linked
<1>12. QED BY <1>8, <1>9, <1>10, <1>11 DEF IInv

(* A return: main's leaves to the label halt, another one to its caller,   *)
(* which finds X where it was.                                             *)
LEMMA Returning ==
  ASSUME IInv, RSUB
  PROVE  /\ EntryX = X /\ X' = X /\ mem' = mem /\ L' = L /\ S' = S /\ T' = T
         /\ L = ReturnTo(Inner) /\ S = Result(pc.fn, 1)
<1>1. pc.at = "return" /\ ~LinkSpilled
  BY DEF RSUB, LinkSpilled
<1>2. EntryX = X
  BY <1>1 DEF EntryX
<1>3. L = ReturnTo(Inner) /\ S = Result(pc.fn, 1)
  BY <1>1 DEF IInv, Linked, Results
<1>4. QED BY <1>2, <1>3 DEF RSUB

LEMMA Halting ==
  ASSUME IInv, RSUB, Len(callers) = 0
  PROVE  /\ IInv' /\ pc'.at = "halt" /\ X' = StackTop
<1>1. L = Halt
  BY Returning DEF ReturnTo, Inner
<1>2. pc' = [fn |-> Main, at |-> "halt", site |-> 0]
  BY <1>1 DEF RSUB, Target
<1>3. callers' = <<>> /\ Len(callers') = 0 /\ callers' \in Seq([fn : Functions, site : Nat, entry : Addr])
  <2>1. callers = <<>>
    BY DEF IInv, TypeOK
  <2>2. SubSeq(callers, 1, Len(callers) - 1) = <<>>
    BY <2>1
  <2>3. QED BY <2>2 DEF RSUB
<1>4. EntryX' = X /\ X' = X
  BY <1>2, Returning DEF EntryX
<1>5. X = StackTop
  <2>1. EntryAt(1) = EntryX
    BY DEF EntryAt
  <2>2. QED BY <2>1, Returning DEF IInv, Chained
<1>6. TypeOK'
  BY <1>2, <1>3, Returning, CalleeAssumption DEF IInv, TypeOK, Points
<1>7. Placed' /\ Results'
  BY <1>2, <1>3, <1>4, <1>5, Addresses DEF Placed, Results
<1>8. Chained'
  <2>1. EntryAt(1)' = StackTop
    BY <1>3, <1>4, <1>5 DEF EntryAt
  <2>2. QED BY <1>3, <2>1 DEF Chained
<1>9. Linked'
  BY <1>2, <1>3 DEF Linked
<1>10. QED BY <1>2, <1>4, <1>5, <1>6, <1>7, <1>8, <1>9 DEF IInv

LEMMA Resuming ==
  ASSUME IInv, RSUB, Len(callers) # 0
  PROVE  /\ pc'.fn = FnAt(Len(callers)) /\ pc'.site = SiteAt(Len(callers))
         /\ pc' = [fn |-> FnAt(Len(callers)), at |-> "result", site |-> SiteAt(Len(callers))]
         /\ Inner' = Len(callers) /\ Len(callers') = Len(callers) - 1
         /\ callers' \in Seq([fn : Functions, site : Nat, entry : Addr])
         /\ \A i \in 1 .. Len(callers) :
              FnAt(i)' = FnAt(i) /\ SiteAt(i)' = SiteAt(i) /\ EntryAt(i)' = EntryAt(i)
         /\ EntryX' = EntryAt(Len(callers))
         /\ pc.fn = Callee[FnAt(Len(callers))][SiteAt(Len(callers))]
<1>1. PICK n \in Nat \ {0} : n = Len(callers)
  BY Sequence DEF IInv
<1>2. n \in 1 .. Len(callers) /\ n \in 1 .. Inner /\ Inner = n + 1
  BY <1>1 DEF Inner
<1>3. /\ SiteAt(n) \in DOMAIN Callee[FnAt(n)] /\ FnAt(n + 1) = Callee[FnAt(n)][SiteAt(n)]
      /\ EntryAt(n + 1) = EntryAt(n) - SizeAt(n)
  BY <1>2 DEF IInv, Chained
<1>4. FnAt(n) \in Functions /\ EntryAt(n) \in Int /\ SizeAt(n) \in Nat /\ SiteAt(n) \in Nat
  BY <1>2, Typed, Suspended DEF IInv
<1>5. SiteAt(n) # 0
  BY <1>3, <1>4, CalleeAssumption
<1>6. L = Ret(FnAt(n), SiteAt(n))
  BY <1>2, Returning DEF ReturnTo
<1>7. L # Halt /\ L \in ReturnAddresses /\ L[2] = FnAt(n) /\ L[3] = SiteAt(n)
  BY <1>3, <1>4, <1>5, <1>6 DEF Ret, Halt, ReturnAddresses
<1>8. pc' = [fn |-> FnAt(n), at |-> "result", site |-> SiteAt(n)]
  BY <1>7 DEF RSUB, Target
<1> DEFINE R == [fn : Functions, site : Nat, entry : Addr]
<1>9. /\ callers' \in Seq(R) /\ Len(callers') = n - 1
      /\ \A i \in 1 .. n - 1 : callers'[i] = callers[i]
  <2>1. callers \in Seq(R)
    BY DEF IInv, TypeOK
  <2> HIDE DEF R
  <2>2. callers' = SubSeq(callers, 1, n - 1)
    BY <1>1 DEF RSUB
  <2>3. QED BY <1>1, <2>1, <2>2
<1>10. EntryX' = EntryAt(n)
  <2>1. EntryX' = X + SizeAt(n)
    BY <1>8, Returning DEF EntryX, F, SizeAt
  <2>2. EntryAt(n + 1) = X
    BY <1>1, Returning DEF EntryAt
  <2>3. X \in Int
    BY RunningFrame DEF IInv
  <2>4. QED BY <1>3, <1>4, <2>1, <2>2, <2>3
<1>11. \A i \in 1 .. n - 1 :
         FnAt(i)' = FnAt(i) /\ SiteAt(i)' = SiteAt(i) /\ EntryAt(i)' = EntryAt(i)
  BY <1>1, <1>9 DEF FnAt, SiteAt, EntryAt
<1>12. FnAt(n)' = FnAt(n) /\ SiteAt(n)' = SiteAt(n) /\ EntryAt(n)' = EntryAt(n)
  <2>1. ~(n <= Len(callers'))
    BY <1>9
  <2>2. FnAt(n)' = pc'.fn /\ SiteAt(n)' = pc'.site /\ EntryAt(n)' = EntryX'
    BY <2>1 DEF FnAt, SiteAt, EntryAt
  <2>3. QED BY <1>8, <1>10, <2>2
<1>13. \A i \in 1 .. n : i \in 1 .. n - 1 \/ i = n
  BY <1>1
<1>14. pc.fn = Callee[FnAt(n)][SiteAt(n)]
  <2>1. FnAt(n + 1) = pc.fn
    BY <1>1 DEF FnAt
  <2>2. QED BY <1>3, <2>1
<1>15. Inner' = n
  BY <1>9 DEF Inner
<1>16. QED BY <1>1, <1>8, <1>9, <1>10, <1>11, <1>12, <1>13, <1>14, <1>15

LEMMA ReturnToCallerKeeps ==
  ASSUME IInv, RSUB, Len(callers) # 0
  PROVE  IInv'
<1>1. PICK n \in Nat \ {0} : n = Len(callers)
  BY Sequence DEF IInv
<1>2. /\ pc' = [fn |-> FnAt(n), at |-> "result", site |-> SiteAt(n)]
      /\ Inner' = n /\ Len(callers') = n - 1
      /\ callers' \in Seq([fn : Functions, site : Nat, entry : Addr])
      /\ \A i \in 1 .. n :
           FnAt(i)' = FnAt(i) /\ SiteAt(i)' = SiteAt(i) /\ EntryAt(i)' = EntryAt(i)
      /\ EntryX' = EntryAt(n) /\ pc.fn = Callee[FnAt(n)][SiteAt(n)]
  BY <1>1, Resuming
<1>3. /\ n \in 1 .. n /\ \A i \in 1 .. n - 1 : i \in 1 .. n /\ i + 1 \in 1 .. n
      /\ \A i \in 1 .. n - 1 : \A j \in i + 1 .. n : j \in 1 .. n /\ j \in i + 1 .. Inner
      /\ 1 \in 1 .. n /\ n \in 1 .. Inner /\ \A i \in 1 .. n : i # 1 => i - 1 \in 1 .. n
  BY <1>1 DEF Inner
<1>4. \A i \in 1 .. n : /\ SizeAt(i)' = SizeAt(i) /\ SlotAt(i)' = SlotAt(i)
                         /\ ReturnTo(i)' = ReturnTo(i)
  BY <1>2, <1>3 DEF SizeAt, SlotAt, ReturnTo
<1>5. FnAt(n) \in Functions /\ SiteAt(n) \in Nat /\ EntryAt(n) \in Addr
  BY <1>3, Typed DEF IInv
<1>6. SiteAt(n) \in DOMAIN Callee[FnAt(n)] /\ Frame[FnAt(n)].savesL
  BY <1>1, <1>3, Suspended DEF IInv, Chained
<1>7. TypeOK'
  BY <1>2, <1>5, Returning DEF IInv, TypeOK, Points
<1>8. Placed' /\ Results'
  BY <1>2, <1>5, <1>6, Returning DEF Placed, Results
<1>9. Chained'
  <2>1. EntryAt(1)' = StackTop
    BY <1>2, <1>3 DEF IInv, Chained
  <2>2. ASSUME NEW i \in 1 .. n - 1
        PROVE  /\ SiteAt(i)' \in DOMAIN Callee[FnAt(i)']
               /\ FnAt(i + 1)' = Callee[FnAt(i)'][SiteAt(i)']
               /\ EntryAt(i + 1)' = EntryAt(i)' - SizeAt(i)'
               /\ \A j \in i + 1 .. n : EntryAt(j)' + SizeAt(i)' <= EntryAt(i)'
    <3>1. /\ SiteAt(i) \in DOMAIN Callee[FnAt(i)] /\ FnAt(i + 1) = Callee[FnAt(i)][SiteAt(i)]
          /\ EntryAt(i + 1) = EntryAt(i) - SizeAt(i)
          /\ \A j \in i + 1 .. Inner : EntryAt(j) + SizeAt(i) <= EntryAt(i)
      <4>1. i \in 1 .. Len(callers)
        BY <1>1, <1>3
      <4>2. QED BY <4>1 DEF IInv, Chained
    <3>2. QED BY <1>2, <1>3, <1>4, <3>1
  <2>3. QED BY <1>2, <2>1, <2>2 DEF Chained
<1>10. Linked'
  <2>1. LinkSpilled' /\ pc'.at = "result"
    BY <1>2, <1>6 DEF LinkSpilled, F
  <2>2. \A i \in 1 .. n : mem'[SlotAt(i)'] = ReturnTo(i)'
    BY <1>1, <1>4, Returning DEF IInv, Linked
  <2>3. QED BY <1>2, <1>3, <2>1, <2>2 DEF Linked
<1>11. QED BY <1>7, <1>8, <1>9, <1>10 DEF IInv
-----------------------------------------------------------------------------
LEMMA InitIInv == Init => IInv
<1> SUFFICES ASSUME Init PROVE IInv
  OBVIOUS
<1>1. Main \in Functions /\ Frame[Main].size \in Nat
        /\ (Frame[Main].savesL => Frame[Main].size # 0)
  BY CalleeAssumption, Frames
<1>2. /\ pc.fn = Main /\ pc.site = 0 /\ X = StackTop /\ callers = <<>>
      /\ pc.at = IF Frame[Main].size = 0 THEN "body" ELSE "amount-down"
  BY DEF Init, Entry
<1>3. StackTop \in Int /\ StackSpace \in Int /\ Frame[Main].size <= StackSpace
        /\ StackSpace <= StackTop
  BY <1>1, StackAssumption DEF StackTop
<1>4. EntryX = StackTop
  BY <1>1, <1>2, <1>3 DEF EntryX, F
<1>5. X - Frame[Main].size \in Addr
  BY <1>1, <1>2, <1>3, Addresses
<1>6. TypeOK
  <2>1. pc \in [fn : Functions, at : Points, site : Nat]
    BY <1>1 DEF Init, Entry, Points
  <2>2. L \in Words /\ mem \in [Addr -> Words]
    BY DEF Init, Words, ReturnAddresses
  <2>3. QED BY <1>2, <2>1, <2>2, Addresses DEF TypeOK
<1>7. Placed /\ Results
  BY <1>2, <1>4, <1>5, Addresses DEF Placed, Results, F
<1>8. Chained
  BY <1>2, <1>4 DEF Chained, EntryAt
<1>9. Linked
  <2>1. ~LinkSpilled
    BY <1>1, <1>2 DEF LinkSpilled, F
  <2>2. ReturnTo(Inner) = Halt
    BY <1>2 DEF ReturnTo, Inner
  <2>3. QED BY <1>2, <2>1, <2>2 DEF Init, Linked
<1>10. QED BY <1>6, <1>7, <1>8, <1>9 DEF IInv

LEMMA NextIInv == IInv /\ [Next]_vars => IInv'
<1> SUFFICES ASSUME IInv, [Next]_vars PROVE IInv'
  OBVIOUS
<1>1. CASE LoadAmount
  BY <1>1, LoadAmountKeeps
<1>2. CASE emitPrologue
  BY <1>2, PrologueKeeps
<1>3. CASE spillCalleeSavedRegisters
  BY <1>3, SpillKeeps
<1>4. ASSUME NEW d \in Data,
             StoreLocal(Val(d)) \/ StoreParameter(Val(d)) \/ passArgOnStack(Val(d))
      PROVE  IInv'
  BY <1>4, BodyKeeps
<1>5. CASE UseL
  BY <1>5, UseLKeeps
<1>6. ASSUME NEW s \in DOMAIN Callee[pc.fn], JSUB(s) PROVE IInv'
  BY <1>6, CallKeeps
<1>7. CASE LowerCallResult
  BY <1>7, ResultKeeps
<1>8. CASE LowerReturn
  BY <1>8, ReturnKeeps
<1>9. CASE restoreCalleeSavedRegisters
  BY <1>9, ReloadKeeps
<1>10. CASE emitEpilogue
  BY <1>10, EpilogueKeeps
<1>11. CASE RSUB
  BY <1>11, Halting, ReturnToCallerKeeps
<1>12. CASE UNCHANGED vars
  <2>1. pc = [pc EXCEPT !.at = pc.at]
    BY DEF IInv, TypeOK
  <2>2. Stays /\ F' = F
    BY <1>12, <2>1 DEF vars, Stays, EntryX, F
  <2>3. TypeOK' /\ Placed' /\ Results'
    BY <1>12, <2>2 DEF vars, IInv, TypeOK, Stays, Placed, Results
  <2>4. LinkSpilled' <=> LinkSpilled
    BY <1>12, <2>2 DEF vars, LinkSpilled
  <2>5. QED BY <1>12, <2>2, <2>3, <2>4, StayingKeeps DEF StoresBelow, vars, IInv, Linked
<1>13. QED BY <1>1, <1>2, <1>3, <1>4, <1>5, <1>6, <1>7, <1>8, <1>9, <1>10, <1>11, <1>12
           DEF Next

LEMMA Invariance == Spec => []IInv
BY InitIInv, NextIInv, PTL DEF Spec

(* The variables keep their types: the machine stays within its stack and  *)
(* never jumps to a word that is not a return address.                     *)
THEOREM TypeCorrect == Spec => []TypeOK
<1>1. IInv => TypeOK
  BY DEF IInv
<1>2. QED BY <1>1, Invariance, PTL

(* Whatever the program stores and however deep it recurses, when it halts *)
(* every byte of stack has been given back.                                *)
THEOREM StackIsReleased == Spec => []StackReleased
<1>1. IInv => StackReleased
  <2> SUFFICES ASSUME IInv, pc.at = "halt" PROVE X = StackTop
    BY DEF StackReleased
  <2>1. Len(callers) = 0
    BY DEF IInv, Placed
  <2>2. EntryX = X /\ EntryAt(1) = EntryX
    BY <2>1 DEF EntryX, EntryAt
  <2>3. QED BY <2>2 DEF IInv, Chained
<1>2. QED BY <1>1, Invariance, PTL

(* The result a function computes is in S when its caller looks for it,    *)
(* after the reload of L and the epilogue.                                 *)
THEOREM ResultsAreReturned == Spec => []ResultReturned
<1>1. IInv => ResultReturned
  BY DEF IInv, Results, ResultReturned
<1>2. QED BY <1>1, Invariance, PTL

(* A function that returns two values keeps the second in T only if it has *)
(* no frame: then no epilogue comes between the copy to T and the return.  *)
PairKept ==
  /\ pc.at \in {"reload", "amount-up", "up"} => F.size # 0
  /\ pc.at = "return" /\ pc.fn \in Pairs => T = Result(pc.fn, 2)
  /\ PairReturned

LEMMA PairKeptStep ==
  ASSUME \A f \in Pairs : Frame[f].size = 0,
         IInv, PairKept, [Next]_vars
  PROVE  PairKept'
<1>1. /\ pc = [fn |-> pc.fn, at |-> pc.at, site |-> pc.site]
      /\ pc.fn \in Functions /\ F.size \in Nat /\ (F.savesL => F.size # 0)
  BY RunningFrame DEF IInv, TypeOK
<1>2. CASE LowerReturn
  <2>1. /\ pc'.fn = pc.fn /\ F' = F
        /\ pc'.at = IF F.savesL THEN "reload" ELSE IF F.size = 0 THEN "return" ELSE "amount-up"
    BY <1>1, <1>2 DEF LowerReturn, Go, F
  <2>2. pc.fn \in Pairs => T' = Result(pc.fn, 2)
    BY <1>2 DEF LowerReturn
  <2>3. pc'.at # "result" /\ (pc'.at # "return" => F.size # 0)
    BY <1>1, <2>1
  <2>4. QED
    BY <2>1, <2>2, <2>3 DEF PairKept, PairReturned
<1>3. CASE RSUB /\ Len(callers) = 0
  <2>1. pc'.at = "halt"
    BY <1>3, Halting
  <2>2. QED
    BY <2>1 DEF PairKept, PairReturned
<1>4. CASE RSUB /\ Len(callers) # 0
  <2>1. /\ pc'.at = "result" /\ Callee[pc'.fn][pc'.site] = pc.fn
    BY <1>4, Resuming
  <2>2. T' = T /\ pc.at = "return"
    BY <1>4 DEF RSUB
  <2>3. QED
    BY <2>1, <2>2 DEF PairKept, PairReturned
<1>5. CASE emitEpilogue \/ restoreCalleeSavedRegisters \/ LoadAmount
  <2>1. /\ pc'.fn = pc.fn /\ F' = F
        /\ pc'.at \in {"amount-up", "up", "down", "return"}
        /\ pc'.at = "up" => pc.at = "amount-up"
        /\ pc'.at = "amount-up" => pc.at = "reload"
        /\ pc'.at = "return" => pc.at = "up"
    BY <1>1, <1>5 DEF emitEpilogue, restoreCalleeSavedRegisters, LoadAmount, Go, F
  <2>2. pc'.at = "return" => pc.fn \notin Pairs
    BY <2>1 DEF PairKept, F
  <2>3. QED
    BY <2>1, <2>2 DEF PairKept, PairReturned
<1>6. ASSUME NEW d \in Data,
             StoreLocal(Val(d)) \/ StoreParameter(Val(d)) \/ passArgOnStack(Val(d))
      PROVE  PairKept'
  <2>1. pc'.at \in {"body", "call"}
    BY <1>1, <1>6 DEF StoreLocal, StoreParameter, passArgOnStack, Go
  <2>2. QED
    BY <2>1 DEF PairKept, PairReturned
<1>7. ASSUME NEW s \in DOMAIN Callee[pc.fn], JSUB(s)
      PROVE  PairKept'
  <2>1. pc'.at \in {"body", "amount-down"}
    BY <1>7 DEF JSUB, Entry
  <2>2. QED
    BY <2>1 DEF PairKept, PairReturned
<1>8. CASE emitPrologue \/ spillCalleeSavedRegisters \/ UseL \/ LowerCallResult
  <2>1. pc'.at \in {"spill", "body"}
    BY <1>1, <1>8 DEF emitPrologue, spillCalleeSavedRegisters, UseL, LowerCallResult, Go
  <2>2. QED
    BY <2>1 DEF PairKept, PairReturned
<1>9. CASE UNCHANGED vars
  BY <1>9 DEF vars, PairKept, PairReturned, F
<1>10. QED
  BY <1>2, <1>3, <1>4, <1>5, <1>6, <1>7, <1>8, <1>9 DEF Next

(* The second value of a pair reaches the caller in T when no function     *)
(* that returns a pair has a frame: the exact limit of the convention.     *)
THEOREM PairsOfFramelessAreReturned ==
  ASSUME \A f \in Pairs : Frame[f].size = 0
  PROVE  Spec => []PairReturned
<1>1. Init => PairKept
  BY DEF Init, PairKept, PairReturned, Entry
<1>2. IInv /\ PairKept /\ [Next]_vars => PairKept'
  BY PairKeptStep
<1>3. PairKept => PairReturned
  BY DEF PairKept
<1>4. QED BY <1>1, <1>2, <1>3, Invariance, PTL DEF Spec
-----------------------------------------------------------------------------
(* The refinement: what the activations look like from outside.            *)
ActAt(i) == Activation(FnAt(i), SiteAt(i), EntryAt(i))

Variable == Values \cup {Junk}
Act == [fn : Functions, site : Nat, local : Variable, param : Variable]

LEMMA FunctionIsSeq ==
  ASSUME NEW V, NEW n \in Nat, NEW f \in [1 .. n -> V]
  PROVE  f \in Seq(V) /\ Len(f) = n
OBVIOUS

LEMMA Appended ==
  \A n \in Nat : \A f \in [1 .. n -> Act], v \in Act :
         /\ Append(f, v) \in [1 .. n + 1 -> Act]
         /\ \A i \in 1 .. n : Append(f, v)[i] = f[i]
         /\ Append(f, v)[n + 1] = v
<1> SUFFICES ASSUME NEW n \in Nat, NEW f \in [1 .. n -> Act], NEW v \in Act
    PROVE  /\ Append(f, v) \in [1 .. n + 1 -> Act]
           /\ \A i \in 1 .. n : Append(f, v)[i] = f[i]
           /\ Append(f, v)[n + 1] = v
  OBVIOUS
<1>1. f \in Seq(Act) /\ Len(f) = n
  BY FunctionIsSeq
<1>2. /\ Append(f, v) \in Seq(Act) /\ Len(Append(f, v)) = n + 1
      /\ \A i \in 1 .. n : Append(f, v)[i] = f[i]
      /\ Append(f, v)[n + 1] = v
  BY <1>1
<1>3. Append(f, v) \in [1 .. n + 1 -> Act]
  <2>1. Append(f, v) \in [1 .. Len(Append(f, v)) -> Act]
    BY <1>2, LenProperties
  <2>2. QED BY <1>2, <2>1
<1>4. QED BY <1>2, <1>3

LEMMA ActAtTyped ==
  ASSUME TypeOK, Placed, NEW i \in 1 .. Inner
  PROVE  /\ ActAt(i) \in Act
         /\ ActAt(i).fn = FnAt(i) /\ ActAt(i).site = SiteAt(i)
         /\ ActAt(i).local = IF SizeAt(i) = 0 THEN Junk ELSE Read(LocalAt(i))
         /\ ActAt(i).param = Read(EntryAt(i))
<1>1. \A a : Read(a) \in Variable
  BY DEF Read, Variable
<1>2. Junk \in Variable
  BY DEF Variable
<1>3. ActAt(i) = [fn |-> FnAt(i), site |-> SiteAt(i),
                  local |-> IF SizeAt(i) = 0 THEN Junk ELSE Read(LocalAt(i)),
                  param |-> Read(EntryAt(i))]
  BY DEF ActAt, Activation, SizeAt, LocalAt
<1>4. QED BY <1>1, <1>2, <1>3, Typed DEF Act

(* Before the program halts, the stack has one element for each number.    *)
LEMMA Mapped ==
  IInv /\ pc.at # "halt" =>
    /\ Activations \in [1 .. Inner -> Act] /\ Inner \in Nat \ {0}
    /\ Activations \in Seq(Act) /\ Len(Activations) = Inner
    /\ \A i \in 1 .. Inner : Activations[i] = ActAt(i)
<1> SUFFICES ASSUME IInv, pc.at # "halt"
    PROVE  /\ Activations \in [1 .. Inner -> Act] /\ Inner \in Nat \ {0}
           /\ Activations \in Seq(Act) /\ Len(Activations) = Inner
           /\ \A i \in 1 .. Inner : Activations[i] = ActAt(i)
  OBVIOUS
<1> DEFINE n == Len(callers)
           f == [i \in 1 .. n |-> Activation(callers[i].fn, callers[i].site, callers[i].entry)]
           a == Activation(pc.fn, pc.site, EntryX)
<1>1. n \in Nat /\ Inner = n + 1 /\ \A i \in 1 .. n : i \in 1 .. Inner
  BY Sequence DEF IInv, Inner
<1>2. \A i \in 1 .. n : Activation(callers[i].fn, callers[i].site, callers[i].entry) = ActAt(i)
  BY DEF ActAt, FnAt, SiteAt, EntryAt
<1>3. a = ActAt(Inner)
  BY RunningFrame DEF IInv, ActAt
<1>4. a \in Act /\ \A i \in 1 .. n : ActAt(i) \in Act
  BY <1>1, <1>3, ActAtTyped, RunningFrame DEF IInv
<1>5. Activations = Append(f, a)
  BY DEF Activations
<1>6. f \in [1 .. n -> Act] /\ \A i \in 1 .. n : f[i] = ActAt(i)
  BY <1>2, <1>4
<1> HIDE DEF n, f, a
<1>7. /\ Append(f, a) \in [1 .. n + 1 -> Act]
      /\ \A i \in 1 .. n : Append(f, a)[i] = f[i]
      /\ Append(f, a)[n + 1] = a
  BY <1>1, <1>4, <1>6, Appended
<1>8. \A i \in 1 .. Inner : Activations[i] = ActAt(i)
  <2>1. \A i \in 1 .. Inner : i \in 1 .. n \/ i = n + 1
    BY <1>1
  <2>2. QED BY <1>1, <1>3, <1>5, <1>6, <1>7, <2>1
<1>9. Activations \in [1 .. Inner -> Act] /\ Inner \in Nat \ {0}
  BY <1>1, <1>5, <1>7
<1>10. Activations \in Seq(Act) /\ Len(Activations) = Inner
  BY <1>9, FunctionIsSeq
<1>11. QED BY <1>8, <1>9, <1>10

(* Steps inside the running activation leave the suspended ones alone.     *)
LEMMA SuspendedSame ==
  ASSUME IInv, IInv', Stays, StoresBelow, NEW i \in 1 .. Len(callers)
  PROVE  ActAt(i)' = ActAt(i)
<1>1. i \in 1 .. Inner
  BY Sequence DEF IInv, Inner
<1>2. /\ FnAt(i)' = FnAt(i) /\ SiteAt(i)' = SiteAt(i) /\ EntryAt(i)' = EntryAt(i)
      /\ LocalAt(i)' = LocalAt(i)
  BY <1>1, Staying DEF IInv
<1>3. mem'[LocalAt(i)] = mem[LocalAt(i)] /\ mem'[EntryAt(i)] = mem[EntryAt(i)]
  <2>1. CASE \E a \in Int, w \in Words : a <= EntryX /\ mem' = Stored(a, w)
    <3>1. PICK a \in Int, w \in Words : a <= EntryX /\ mem' = Stored(a, w)
      BY <2>1
    <3>2. QED BY <3>1, StoringBelow DEF IInv
  <2>2. QED BY <2>1 DEF StoresBelow
<1>4. Read(LocalAt(i))' = Read(LocalAt(i)) /\ Read(EntryAt(i))' = Read(EntryAt(i))
  BY <1>2, <1>3 DEF Read, Fetched, Values
<1>5. QED BY <1>2, <1>4 DEF ActAt, Activation, LocalAt, SizeAt

(* What the outside sees after a step that stays in the activation.        *)
LEMMA InnerSeen ==
  ASSUME IInv, IInv', Stays, StoresBelow, pc.at # "halt", pc'.at # "halt",
         NEW n, n = Inner
  PROVE  /\ Activations' \in [1 .. n -> Act] /\ Activations \in [1 .. n -> Act]
         /\ n \in Nat \ {0} /\ Len(Activations) = n
         /\ \A i \in 1 .. n : i # n => Activations'[i] = Activations[i]
         /\ Activations[n] = [fn |-> pc.fn, site |-> pc.site,
                              local |-> IF F.size = 0 THEN Junk ELSE Read(LocalAt(n)),
                              param |-> Read(EntryX)]
         /\ Activations'[n] = [fn |-> pc.fn, site |-> pc.site,
                               local |-> IF F.size = 0 THEN Junk ELSE Read(LocalAt(n))',
                               param |-> Read(EntryX)']
         /\ LocalAt(n)' = LocalAt(n) /\ LocalAt(n) = EntryX - F.size + F.local
<1>1. /\ Activations \in [1 .. n -> Act] /\ n \in Nat \ {0} /\ Len(Activations) = n
      /\ \A i \in 1 .. n : Activations[i] = ActAt(i)
  BY Mapped
<1>2. Inner' = n /\ F' = F /\ pc'.fn = pc.fn /\ pc'.site = pc.site
        /\ n \in 1 .. n /\ LocalAt(n)' = LocalAt(n)
  BY <1>1, Staying DEF IInv
<1>3. Activations' \in [1 .. n -> Act] /\ \A i \in 1 .. n : Activations'[i] = ActAt(i)'
  <2>1. (IInv /\ pc.at # "halt" =>
           /\ Activations \in [1 .. Inner -> Act] /\ Inner \in Nat \ {0}
           /\ Activations \in Seq(Act) /\ Len(Activations) = Inner
           /\ \A i \in 1 .. Inner : Activations[i] = ActAt(i))'
    BY Mapped, PTL
  <2>2. QED BY <1>2, <2>1
<1>4. \A i \in 1 .. n : i # n => ActAt(i)' = ActAt(i)
  <2>1. \A i \in 1 .. n : i # n => i \in 1 .. Len(callers)
    BY <1>1 DEF Inner
  <2>2. QED BY <2>1, SuspendedSame
<1>5. FnAt(n) = pc.fn /\ SiteAt(n) = pc.site /\ EntryAt(n) = EntryX
  BY RunningFrame DEF IInv
<1>6. FnAt(n)' = pc.fn /\ SiteAt(n)' = pc.site /\ EntryAt(n)' = EntryX'
  BY <1>2, <1>5, Staying DEF IInv, Stays
<1>7. LocalAt(n) = EntryX - F.size + F.local
  BY <1>5 DEF LocalAt, SizeAt, F
<1>8. ActAt(n) = [fn |-> pc.fn, site |-> pc.site,
                  local |-> IF F.size = 0 THEN Junk ELSE Read(LocalAt(n)),
                  param |-> Read(EntryX)]
  BY <1>5, <1>7 DEF ActAt, Activation, F
<1>9. ActAt(n)' = [fn |-> pc.fn, site |-> pc.site,
                   local |-> IF F.size = 0 THEN Junk ELSE Read(LocalAt(n))',
                   param |-> Read(EntryX)']
  <2>1. ActAt(n)' = [fn |-> FnAt(n)', site |-> SiteAt(n)',
                     local |-> IF SizeAt(n)' = 0 THEN Junk ELSE Read(LocalAt(n))',
                     param |-> Read(EntryAt(n))']
    BY DEF ActAt, Activation, LocalAt, SizeAt
  <2>2. SizeAt(n)' = F.size
    BY <1>2, <1>6 DEF SizeAt, F
  <2>3. Read(EntryAt(n))' = Read(EntryX)'
    BY <1>6 DEF Read
  <2>4. QED BY <1>6, <2>1, <2>2, <2>3
<1>10. QED BY <1>1, <1>2, <1>3, <1>4, <1>7, <1>8, <1>9

LEMMA Silent ==
  ASSUME IInv, IInv', Stays, StoresBelow, pc.at # "halt", pc'.at # "halt",
         F.size # 0 => mem'[LocalAt(Inner)] = mem[LocalAt(Inner)],
         mem'[EntryX] = mem[EntryX]
  PROVE  Activations' = Activations
<1>1. PICK n : n = Inner
  OBVIOUS
<1>2. Read(EntryX)' = Read(EntryX)
  BY DEF Read, Fetched, Values, Stays
<1>3. F.size # 0 => Read(LocalAt(n))' = Read(LocalAt(n))
  <2>1. LocalAt(n)' = LocalAt(n)
    BY <1>1, InnerSeen
  <2>2. QED BY <1>1, <2>1 DEF Read, Fetched, Values
<1>4. /\ Activations' \in [1 .. n -> Act] /\ Activations \in [1 .. n -> Act]
      /\ \A i \in 1 .. n : Activations'[i] = Activations[i]
  BY <1>1, <1>2, <1>3, InnerSeen
<1>5. QED
  <2> DEFINE D == 1 .. n
  <2>1. Activations' \in [D -> Act] /\ Activations \in [D -> Act]
          /\ \A i \in D : Activations'[i] = Activations[i]
    BY <1>4
  <2> HIDE DEF D
  <2>2. Activations' = [i \in D |-> Activations'[i]] /\ Activations = [i \in D |-> Activations[i]]
    BY <2>1
  <2>3. [i \in D |-> Activations'[i]] = [i \in D |-> Activations[i]]
    BY <2>1
  <2>4. QED BY ONLY <2>2, <2>3

LEMMA LocalStored ==
  ASSUME IInv, NEW d \in Data, StoreLocal(Val(d))
  PROVE  Abstract!Assign
<1>1. IInv' /\ Stays
  BY BodyKeeps
<1>2. pc.at = "body" /\ pc'.at = "body" /\ F.size # 0 /\ mem' = Stored(X + F.local, Val(d))
  BY DEF StoreLocal
<1>3. PICK n : n = Inner
  OBVIOUS
<1>4. F.size \in Nat /\ F.local \in Nat /\ F.local + 3 <= F.size /\ X \in Int
  BY <1>2, RunningFrame DEF IInv
<1>5. EntryX = X + F.size /\ LocalAt(n) = X + F.local /\ X + F.local \in Addr
        /\ X + F.local \in Int /\ X + F.local <= EntryX /\ EntryX \in Addr
  BY <1>2, <1>3, <1>4, BodyAddresses DEF IInv, Placed
<1>6. Val(d) \in Words /\ Val(d) \in Values
  BY ValIsWord
<1>7. mem'[LocalAt(n)] = Val(d) /\ mem'[EntryX] = mem[EntryX]
  <2>1. X + F.local + 3 <= EntryX
    BY <1>4, <1>5
  <2>2. QED BY <1>2, <1>5, <1>6, <2>1, Storing DEF IInv
<1>8. StoresBelow
  BY <1>2, <1>5, <1>6 DEF StoresBelow
<1>9. /\ Activations' \in [1 .. n -> Act] /\ Activations \in [1 .. n -> Act]
      /\ n \in Nat \ {0} /\ Len(Activations) = n
      /\ \A i \in 1 .. n : i # n => Activations'[i] = Activations[i]
      /\ Activations[n] = [fn |-> pc.fn, site |-> pc.site,
                           local |-> Read(LocalAt(n)), param |-> Read(EntryX)]
      /\ Activations'[n] = [fn |-> pc.fn, site |-> pc.site,
                            local |-> Read(LocalAt(n))', param |-> Read(EntryX)']
      /\ LocalAt(n)' = LocalAt(n)
  BY <1>1, <1>2, <1>3, <1>8, InnerSeen
<1>10. Read(EntryX)' = Read(EntryX)
  BY <1>1, <1>7 DEF Read, Fetched, Values, Stays
<1>11. Read(LocalAt(n))' = Val(d)
  BY <1>5, <1>6, <1>7, <1>9 DEF Read, Fetched, Values, Addr
<1>12. Activations' = [Activations EXCEPT ![n].local = Val(d)]
  <2> DEFINE e == [Activations EXCEPT ![n].local = Val(d)]  D == 1 .. n
  <2>1. n \in D /\ DOMAIN Activations = D /\ Activations' \in [D -> Act]
    BY <1>9
  <2>2. e = [i \in D |-> IF i = n THEN [Activations[n] EXCEPT !.local = Val(d)]
                                    ELSE Activations[i]]
    BY <2>1
  <2>3. [Activations[n] EXCEPT !.local = Val(d)] = Activations'[n]
    BY <1>9, <1>10, <1>11
  <2>4. Activations' = [i \in D |-> Activations'[i]]
    BY <2>1
  <2>5. [i \in D |-> Activations'[i]]
          = [i \in D |-> IF i = n THEN Activations'[n] ELSE Activations[i]]
    BY <1>9
  <2>6. QED BY <2>2, <2>3, <2>4, <2>5
<1>13. Activations # <<>>
  BY <1>9
<1>14. QED BY <1>6, <1>9, <1>12, <1>13 DEF Abstract!Assign

LEMMA ParameterStored ==
  ASSUME IInv, NEW d \in Data, StoreParameter(Val(d))
  PROVE  Abstract!Assign
<1>1. IInv' /\ Stays
  BY BodyKeeps
<1>2. pc.at = "body" /\ pc'.at = "body" /\ mem' = Stored(X + F.size, Val(d))
  BY DEF StoreParameter
<1>3. PICK n : n = Inner
  OBVIOUS
<1>4. F.size \in Nat /\ F.local \in Nat /\ X \in Int /\ (F.size # 0 => F.local + 3 <= F.size)
  BY <1>2, RunningFrame DEF IInv
<1>5. EntryX = X + F.size /\ LocalAt(n) = X + F.local /\ EntryX \in Addr /\ EntryX \in Int
  BY <1>2, <1>3, RunningFrame, BodyAddresses DEF IInv, Placed
<1>6. Val(d) \in Words /\ Val(d) \in Values
  BY ValIsWord
<1>7. mem'[EntryX] = Val(d) /\ (F.size # 0 => mem'[LocalAt(n)] = mem[LocalAt(n)])
  <2>1. mem'[EntryX] = Val(d)
    BY <1>2, <1>5, <1>6, Storing DEF IInv
  <2>2. ASSUME F.size # 0 PROVE mem'[LocalAt(n)] = mem[LocalAt(n)]
    <3>1. F.local <= F.size /\ LocalAt(n) + 3 <= EntryX
      BY <1>4, <1>5, <2>2
    <3>2. LocalAt(n) \in Addr
      BY <1>2, <1>4, <1>5, <3>1, BodyAddresses DEF IInv
    <3>3. mem' = Stored(EntryX, Val(d)) /\ EntryX \in Int
      BY <1>2, <1>5
    <3>4. QED BY <1>6, <3>1, <3>2, <3>3, Storing DEF IInv
  <2>3. QED BY <2>1, <2>2
<1>8. StoresBelow
  BY <1>2, <1>5, <1>6 DEF StoresBelow
<1>9. /\ Activations' \in [1 .. n -> Act] /\ Activations \in [1 .. n -> Act]
      /\ n \in Nat \ {0} /\ Len(Activations) = n
      /\ \A i \in 1 .. n : i # n => Activations'[i] = Activations[i]
      /\ Activations[n] = [fn |-> pc.fn, site |-> pc.site,
                           local |-> IF F.size = 0 THEN Junk ELSE Read(LocalAt(n)),
                           param |-> Read(EntryX)]
      /\ Activations'[n] = [fn |-> pc.fn, site |-> pc.site,
                            local |-> IF F.size = 0 THEN Junk ELSE Read(LocalAt(n))',
                            param |-> Read(EntryX)']
      /\ LocalAt(n)' = LocalAt(n)
  BY <1>1, <1>2, <1>3, <1>8, InnerSeen
<1>10. Read(EntryX)' = Val(d)
  BY <1>1, <1>5, <1>6, <1>7 DEF Read, Fetched, Values, Addr, Stays
<1>11. F.size # 0 => Read(LocalAt(n))' = Read(LocalAt(n))
  BY <1>7, <1>9 DEF Read, Fetched, Values
<1>12. Activations' = [Activations EXCEPT ![n].param = Val(d)]
  <2> DEFINE e == [Activations EXCEPT ![n].param = Val(d)]  D == 1 .. n
  <2>1. n \in D /\ DOMAIN Activations = D /\ Activations' \in [D -> Act]
    BY <1>9
  <2>2. e = [i \in D |-> IF i = n THEN [Activations[n] EXCEPT !.param = Val(d)]
                                    ELSE Activations[i]]
    BY <2>1
  <2>3. [Activations[n] EXCEPT !.param = Val(d)] = Activations'[n]
    BY <1>9, <1>10, <1>11
  <2>4. Activations' = [i \in D |-> Activations'[i]]
    BY <2>1
  <2>5. [i \in D |-> Activations'[i]]
          = [i \in D |-> IF i = n THEN Activations'[n] ELSE Activations[i]]
    BY <1>9
  <2>6. QED BY <2>2, <2>3, <2>4, <2>5
<1>13. Activations # <<>>
  BY <1>9
<1>14. QED BY <1>6, <1>9, <1>12, <1>13 DEF Abstract!Assign

LEMMA MappedNext ==
  (IInv /\ pc.at # "halt")' =>
    /\ Activations' \in [1 .. Inner' -> Act] /\ Inner' \in Nat \ {0}
    /\ \A i \in 1 .. Inner' : Activations'[i] = ActAt(i)'
<1>1. (IInv /\ pc.at # "halt" =>
         /\ Activations \in [1 .. Inner -> Act] /\ Inner \in Nat \ {0}
         /\ Activations \in Seq(Act) /\ Len(Activations) = Inner
         /\ \A i \in 1 .. Inner : Activations[i] = ActAt(i))'
  BY Mapped, PTL
<1>2. QED BY <1>1

LEMMA Called ==
  ASSUME IInv, NEW s \in DOMAIN Callee[pc.fn], JSUB(s)
  PROVE  Abstract!Call
<1>1. PICK n : n = Inner
  OBVIOUS
<1> DEFINE g == Callee[pc.fn][s]
<1>2. /\ g \in Functions /\ Inner' = n + 1 /\ pc' = Entry(g)
      /\ \A i \in 1 .. n : FnAt(i)' = FnAt(i) /\ EntryAt(i)' = EntryAt(i)
      /\ \A i \in 1 .. Len(callers) : SiteAt(i)' = SiteAt(i)
      /\ SiteAt(n)' = s /\ FnAt(n + 1)' = g /\ SiteAt(n + 1)' = 0
  BY <1>1, Calling
<1>3. pc.at # "halt" /\ pc'.at # "halt" /\ mem' = mem
  BY <1>2 DEF JSUB, Entry
<1>4. /\ Activations \in [1 .. n -> Act] /\ n \in Nat \ {0} /\ Len(Activations) = n
      /\ \A i \in 1 .. n : Activations[i] = ActAt(i)
  BY <1>1, <1>3, Mapped
<1>5. IInv'
  BY CallKeeps
<1>6. /\ Activations' \in [1 .. n + 1 -> Act]
      /\ \A i \in 1 .. n + 1 : Activations'[i] = ActAt(i)'
  BY <1>2, <1>3, <1>5, MappedNext
<1>7. \A i \in 1 .. n : LocalAt(i)' = LocalAt(i) /\ SizeAt(i)' = SizeAt(i)
  BY <1>2 DEF LocalAt, SizeAt
<1>8. \A i \in 1 .. n : ActAt(i) = [fn |-> FnAt(i), site |-> SiteAt(i),
                    local |-> IF SizeAt(i) = 0 THEN Junk ELSE Read(LocalAt(i)),
                    param |-> Read(EntryAt(i))]
  BY DEF ActAt, Activation, SizeAt, LocalAt
<1>9. \A i \in 1 .. n : ActAt(i)' = [fn |-> FnAt(i)', site |-> SiteAt(i)',
                    local |-> IF SizeAt(i)' = 0 THEN Junk ELSE Read(LocalAt(i))',
                    param |-> Read(EntryAt(i))']
  BY DEF ActAt, Activation, SizeAt, LocalAt
<1>10. \A i \in 1 .. n : Read(LocalAt(i))' = Read(LocalAt(i)) /\ Read(EntryAt(i))' = Read(EntryAt(i))
  BY <1>2, <1>3, <1>7 DEF Read, Fetched, Values
<1>11. \A i \in 1 .. n : i # n => Activations'[i] = Activations[i]
  <2>1. \A i \in 1 .. n : i # n => i \in 1 .. Len(callers)
    BY <1>1 DEF Inner
  <2>2. \A i \in 1 .. n : i # n => ActAt(i)' = ActAt(i)
    BY <1>2, <1>7, <1>8, <1>9, <1>10, <2>1
  <2>3. QED BY <1>4, <1>6, <2>2
<1>12. Activations'[n] = [Activations[n] EXCEPT !.site = s]
  <2>1. n \in 1 .. n /\ n \in 1 .. n + 1
    BY <1>4
  <2>2. ActAt(n)' = [ActAt(n) EXCEPT !.site = s]
    BY <1>2, <1>7, <1>8, <1>9, <1>10, <2>1
  <2>3. QED BY <1>4, <1>6, <2>1, <2>2
<1> DEFINE e == [Activations EXCEPT ![n].site = s]  a == Activations'[n + 1]
<1>13. e \in [1 .. n -> Act] /\ a \in Act /\ \A i \in 1 .. n : e[i] = Activations'[i]
  <2>1. n \in 1 .. n /\ n \in 1 .. n + 1 /\ n + 1 \in 1 .. n + 1
    BY <1>4
  <2>2. Activations'[n] \in Act /\ a \in Act
    BY <1>6, <2>1
  <2>3. e = [i \in 1 .. n |-> IF i = n THEN [Activations[n] EXCEPT !.site = s] ELSE Activations[i]]
    BY <1>4, <2>1
  <2>4. \A i \in 1 .. n : e[i] = Activations'[i]
    BY <1>11, <1>12, <2>3
  <2>5. e \in [1 .. n -> Act]
    BY <1>4, <1>12, <2>2, <2>3
  <2>6. QED BY <2>2, <2>4, <2>5
<1>14. Activations' = Append(e, a)
  <2> HIDE DEF e, a
  <2>1. /\ Append(e, a) \in [1 .. n + 1 -> Act]
        /\ \A i \in 1 .. n : Append(e, a)[i] = e[i]
        /\ Append(e, a)[n + 1] = a
    BY <1>4, <1>13, Appended
  <2>2. \A i \in 1 .. n + 1 : i \in 1 .. n \/ i = n + 1
    BY <1>4
  <2>3. \A i \in 1 .. n + 1 : Append(e, a)[i] = Activations'[i]
    BY <1>13, <2>1, <2>2 DEF a
  <2> DEFINE D == 1 .. n + 1
  <2>4. Append(e, a) \in [D -> Act] /\ Activations' \in [D -> Act]
    BY <1>6, <2>1
  <2>5. \A i \in D : Append(e, a)[i] = Activations'[i]
    BY <2>3
  <2> HIDE DEF D
  <2>6. Append(e, a) = [i \in D |-> Append(e, a)[i]] /\ Activations' = [i \in D |-> Activations'[i]]
    BY <2>4
  <2>7. [i \in D |-> Append(e, a)[i]] = [i \in D |-> Activations'[i]]
    BY <2>5
  <2>8. QED BY ONLY <2>6, <2>7
<1>15. a \in Abstract!Activations(g)
  <2>1. n + 1 \in 1 .. n + 1
    BY <1>4
  <2>2. a = ActAt(n + 1)'
    BY <1>6, <2>1
  <2>3. a.fn = g /\ a.site = 0
    BY <1>2, <2>2 DEF ActAt, Activation
  <2>4. a \in Act
    BY <1>13
  <2>5. QED BY <2>3, <2>4 DEF Abstract!Activations, Act, Variable
<1>16. Activations # <<>> /\ Abstract!Top.fn = pc.fn
  <2>1. n \in 1 .. n /\ FnAt(n) = pc.fn
    BY <1>1, <1>4, RunningFrame DEF IInv
  <2>2. Activations[n].fn = pc.fn
    BY <1>4, <1>8, <2>1
  <2>3. QED BY <1>4, <2>2 DEF Abstract!Top
<1> HIDE DEF a
<1>17. QED BY <1>4, <1>14, <1>15, <1>16 DEF Abstract!Call

LEMMA Returned ==
  ASSUME IInv, RSUB
  PROVE  Abstract!Return
<1>1. PICK n : n = Len(callers)
  OBVIOUS
<1>2. n \in Nat /\ Inner = n + 1 /\ pc.at # "halt"
  BY <1>1, Sequence DEF IInv, Inner, RSUB
<1>3. /\ Activations \in Seq(Act) /\ Len(Activations) = n + 1
      /\ \A i \in 1 .. n + 1 : Activations[i] = ActAt(i)
  BY <1>2, Mapped
<1>4. SubSeq(Activations, 1, n) = [i \in 1 .. n |-> Activations[i]]
  BY <1>2, <1>3
<1>5. CASE n = 0
  <2>1. Activations' = <<>>
    BY <1>1, <1>5, Halting DEF Activations
  <2>2. SubSeq(Activations, 1, n) = <<>>
    BY <1>3, <1>5
  <2>3. QED BY <1>2, <1>3, <2>1, <2>2 DEF Abstract!Return
<1>6. CASE n # 0
  <2>1. /\ Inner' = n /\ pc'.at = "result"
        /\ \A i \in 1 .. n :
             FnAt(i)' = FnAt(i) /\ SiteAt(i)' = SiteAt(i) /\ EntryAt(i)' = EntryAt(i)
    BY <1>1, <1>6, Resuming
  <2>2. IInv'
    BY <1>1, <1>6, ReturnToCallerKeeps
  <2>3. Activations' \in [1 .. n -> Act] /\ \A i \in 1 .. n : Activations'[i] = ActAt(i)'
    BY <2>1, <2>2, MappedNext
  <2>4. mem' = mem
    BY Returning
  <2>5. \A i \in 1 .. n : LocalAt(i)' = LocalAt(i) /\ SizeAt(i)' = SizeAt(i)
    BY <2>1 DEF LocalAt, SizeAt
  <2>6. \A i \in 1 .. n : Read(LocalAt(i))' = Read(LocalAt(i)) /\ Read(EntryAt(i))' = Read(EntryAt(i))
    BY <2>1, <2>4, <2>5 DEF Read, Fetched, Values
  <2>7. \A i \in 1 .. n : ActAt(i)' = ActAt(i)
    BY <2>1, <2>5, <2>6 DEF ActAt, Activation, LocalAt, SizeAt
  <2>8. \A i \in 1 .. n : Activations'[i] = Activations[i]
    BY <1>2, <1>3, <2>3, <2>7
  <2>9. Activations' = SubSeq(Activations, 1, n)
    <3>1. Activations' = [i \in 1 .. n |-> Activations'[i]]
      BY <2>3
    <3>2. [i \in 1 .. n |-> Activations'[i]] = [i \in 1 .. n |-> Activations[i]]
      BY <2>8
    <3>3. QED BY <1>4, <3>1, <3>2
  <2>10. QED BY <1>2, <1>3, <2>9 DEF Abstract!Return
<1>7. QED BY <1>5, <1>6

LEMMA QuietSteps ==
  ASSUME IInv, \/ LoadAmount \/ emitPrologue \/ UseL \/ LowerCallResult \/ LowerReturn
               \/ restoreCalleeSavedRegisters \/ emitEpilogue
  PROVE  Activations' = Activations
<1>1. mem' = mem
  BY DEF LoadAmount, emitPrologue, UseL, LowerCallResult, LowerReturn,
         restoreCalleeSavedRegisters, emitEpilogue
<1>2. IInv' /\ Stays
  BY LoadAmountKeeps, PrologueKeeps, UseLKeeps, ResultKeeps, ReturnKeeps, ReloadKeeps,
     EpilogueKeeps
<1>3. pc.at # "halt" /\ pc'.at # "halt"
  BY DEF IInv, TypeOK, LoadAmount, emitPrologue, UseL, LowerCallResult, LowerReturn,
         restoreCalleeSavedRegisters, emitEpilogue, Go
<1>4. QED BY <1>1, <1>2, <1>3, Silent DEF StoresBelow

LEMMA SpillIsSilent ==
  ASSUME IInv, spillCalleeSavedRegisters
  PROVE  Activations' = Activations
<1>1. /\ IInv' /\ Stays /\ mem' = Stored(SlotAt(Inner), L) /\ SlotAt(Inner) \in Int
      /\ SlotAt(Inner) <= EntryX /\ L \in Words
  BY SpillKeeps
<1>2. pc.at = "spill" /\ pc'.at = "body" /\ F.savesL
  BY DEF IInv, TypeOK, Placed, spillCalleeSavedRegisters, Go
<1>3. /\ F.size \in Nat /\ F.local \in Nat /\ F.slotL \in Nat /\ X \in Int
      /\ F.size # 0 => F.local + 3 <= F.size
      /\ F.slotL + 3 <= F.size /\ Apart(F.slotL, F.local)
  BY <1>2, RunningFrame DEF IInv
<1>4. EntryX = X + F.size /\ SlotAt(Inner) = X + F.slotL /\ LocalAt(Inner) = X + F.local
        /\ EntryX \in Addr
  BY <1>2, BodyAddresses DEF IInv, Placed
<1>5. mem'[EntryX] = mem[EntryX]
  BY <1>1, <1>3, <1>4, Storing DEF IInv
<1>6. ASSUME F.size # 0 PROVE mem'[LocalAt(Inner)] = mem[LocalAt(Inner)]
  <2>1. F.local <= F.size
    BY <1>3, <1>6
  <2>2. LocalAt(Inner) \in Addr
    BY <1>2, <1>3, <1>4, <2>1, BodyAddresses DEF IInv
  <2>3. SlotAt(Inner) + 3 <= LocalAt(Inner) \/ LocalAt(Inner) + 3 <= SlotAt(Inner)
    BY <1>3, <1>4 DEF Apart
  <2>4. QED BY <1>1, <2>2, <2>3, Storing DEF IInv
<1>7. StoresBelow
  BY <1>1 DEF StoresBelow
<1>8. QED BY <1>1, <1>2, <1>5, <1>6, <1>7, Silent

LEMMA PassingIsSilent ==
  ASSUME IInv, NEW d \in Data, passArgOnStack(Val(d))
  PROVE  Activations' = Activations
<1>1. IInv' /\ Stays
  BY BodyKeeps
<1>2. pc.at = "body" /\ pc'.at = "call" /\ mem' = Stored(X, Val(d)) /\ Callee[pc.fn] # <<>>
  BY DEF IInv, TypeOK, passArgOnStack, Go
<1>3. /\ F.size \in Nat /\ F.local \in Nat /\ F.slotL \in Nat /\ X \in Int
      /\ F.size # 0 => F.local + 3 <= F.size
      /\ F.slotL + 3 <= F.size /\ F.slotL >= 3 /\ F.local >= 3
  BY <1>2, RunningFrame DEF IInv
<1>4. EntryX = X + F.size /\ LocalAt(Inner) = X + F.local /\ EntryX \in Addr
  BY <1>2, BodyAddresses DEF IInv, Placed
<1>5. Val(d) \in Words
  BY ValIsWord
<1>6. mem'[EntryX] = mem[EntryX]
  <2>1. X + 3 <= EntryX
    BY <1>3, <1>4
  <2>2. mem' = Stored(X, Val(d)) /\ X \in Int /\ EntryX \in Addr
    BY <1>2, <1>3, <1>4
  <2>3. QED BY <1>5, <2>1, <2>2, Storing DEF IInv
<1>7. mem'[LocalAt(Inner)] = mem[LocalAt(Inner)]
  <2>1. F.local <= F.size
    BY <1>3
  <2>2. LocalAt(Inner) \in Addr /\ X + 3 <= LocalAt(Inner)
    BY <1>2, <1>3, <1>4, <2>1, BodyAddresses DEF IInv
  <2>3. QED BY <1>2, <1>3, <1>5, <2>2, Storing DEF IInv
<1>8. StoresBelow
  <2>1. X <= EntryX
    BY <1>3, <1>4
  <2>2. QED BY <1>2, <1>3, <1>5, <2>1 DEF StoresBelow
<1>9. QED BY <1>1, <1>2, <1>6, <1>7, <1>8, Silent

LEMMA StartsAsStack == Init => Abstract!Init
<1> SUFFICES ASSUME Init PROVE Abstract!Init
  OBVIOUS
<1>1. IInv
  BY InitIInv
<1>2. pc.at # "halt" /\ pc.fn = Main /\ pc.site = 0 /\ callers = <<>>
  BY DEF Init, Entry
<1>3. Inner = 1 /\ FnAt(1) = Main /\ SiteAt(1) = 0
  BY <1>2 DEF Inner, FnAt, SiteAt
<1>4. Activations \in [1 .. 1 -> Act] /\ Activations[1] = ActAt(1) /\ Activations \in Seq(Act)
        /\ Len(Activations) = 1
  BY <1>1, <1>2, <1>3, Mapped
<1>5. ActAt(1) \in Act /\ ActAt(1).fn = Main /\ ActAt(1).site = 0
  BY <1>1, <1>3, ActAtTyped DEF IInv
<1>6. ActAt(1) \in Abstract!Activations(Main)
  BY <1>5 DEF Act, Variable, Abstract!Activations
<1>7. Activations = <<ActAt(1)>>
  BY <1>4
<1>8. QED BY <1>6, <1>7 DEF Abstract!Init

(* The compiled program implements the call stack, whatever functions it   *)
(* has, however they call each other and whatever they store: a return     *)
(* resumes the caller at its call site, and only the running activation's  *)
(* variables change.                                                       *)
THEOREM CallsImplementCallStack == Spec => CallsImplementStack
<1>1. IInv /\ [Next]_vars => [Abstract!Next]_Activations
  <2> SUFFICES ASSUME IInv, [Next]_vars PROVE [Abstract!Next]_Activations
    OBVIOUS
  <2>1. CASE \/ LoadAmount \/ emitPrologue \/ UseL \/ LowerCallResult \/ LowerReturn
             \/ restoreCalleeSavedRegisters \/ emitEpilogue
    BY <2>1, QuietSteps
  <2>2. CASE spillCalleeSavedRegisters
    BY <2>2, SpillIsSilent
  <2>3. ASSUME NEW d \in Data,
               StoreLocal(Val(d)) \/ StoreParameter(Val(d)) \/ passArgOnStack(Val(d))
        PROVE  [Abstract!Next]_Activations
    BY <2>3, LocalStored, ParameterStored, PassingIsSilent DEF Abstract!Next
  <2>4. ASSUME NEW s \in DOMAIN Callee[pc.fn], JSUB(s) PROVE [Abstract!Next]_Activations
    BY <2>4, Called DEF Abstract!Next
  <2>5. CASE RSUB
    BY <2>5, Returned DEF Abstract!Next
  <2>6. CASE UNCHANGED vars
    BY <2>6 DEF vars, Activations, Activation, EntryX, F, Read, Fetched, Values
  <2>7. QED BY <2>1, <2>2, <2>3, <2>4, <2>5, <2>6 DEF Next
<1>2. QED BY <1>1, StartsAsStack, Invariance, PTL DEF Spec, CallsImplementStack, Abstract!Spec
=============================================================================
