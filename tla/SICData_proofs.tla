--------------------------- MODULE SICData_proofs ---------------------------
(***************************************************************************)
(* Proofs about SICData, for any constants, objects and stored words.      *)
(*                                                                         *)
(* Emission: between two steps the bytes emitted end where the constant    *)
(* that is emitted next begins, in the layout of every aggregate it is in  *)
(* (Position), because an element and its padding fill the way to the next *)
(* element (PaddingFills); so each field is made by the bytes at its       *)
(* offset, and no other field by those (Placed).                           *)
(*                                                                         *)
(* Memory: the bytes of a field make the value last stored to it (Held); a *)
(* store to another field leaves them alone because the fields are apart,  *)
(* one to the same field makes them anew, and a load only puts them        *)
(* together and extends them.                                              *)
(***************************************************************************)
EXTENDS SICData, TLAPS, SequenceTheorems

Byte == 0 .. 255

(* What the bytes of a field make, in the image b.                         *)
ValueIn(b, f) ==
  IF f.type = "i8" THEN b[f.offset]
  ELSE (b[f.offset] * 65536) + (b[f.offset + 1] * 256) + b[f.offset + 2]

(* Every load has a working pattern but the sign-extending one of an i16   *)
(* through a pointer, which moves one byte.                                *)
LoadsWork == [type |-> "i16", ext |-> "sext", mode |-> "reg"] \notin Loads

WellFormed(o) ==
  /\ o.size \in Nat
  /\ o.fields \subseteq Field
  /\ FieldsApart(o.fields)
  /\ \A f \in o.fields : BytesOf(f) \subseteq 0 .. o.size - 1

Typed ==
  /\ base \in Bases
  /\ WellFormed(object)
  /\ mem \in [0 .. object.size - 1 -> Byte]
  /\ A \in Word
  /\ last \in [object.fields -> Word]
  /\ \A f \in object.fields : last[f] < Values(f.type)

Held == \A f \in object.fields : ValueIn(mem, f) = last[f]
-----------------------------------------------------------------------------
Aggregates == {c \in Constants : c.kind \in {"struct", "array"}}

(* The element a loop is at, and its place in the layout.                  *)
ElementAt(l) == l.c.elements[l.i]
OffsetAt(l)  == l.offset + l.c.offsets[l.i]

(* The bytes emitGlobalConstantImpl emits for a constant.                 *)
EmittedSize(c) == IF c.kind = "int" THEN DirectiveBytes(c.size) ELSE c.size

Padding(c, i) == IF c.kind = "struct" THEN StructPadding(c, i) ELSE ArrayPadding(c, i)

(* Every loop is over the element that the loop around it is at.           *)
Nesting ==
  /\ root \in Constants
  /\ calling \in BOOLEAN
  /\ loops \in Seq([c : Aggregates, offset : Nat, i : Nat])
  /\ \A k \in 1 .. Len(loops) :
       /\ loops[k].i \in 1 .. Len(loops[k].c.elements)
       /\ k = 1 => loops[k].c = root /\ loops[k].offset = 0
       /\ k # 1 => /\ loops[k].c = ElementAt(loops[k - 1])
                   /\ loops[k].offset = OffsetAt(loops[k - 1])

(* What has been emitted ends where the constant to emit begins, or where  *)
(* the one just emitted ends.                                              *)
Position ==
  /\ at \in Nat
  /\ at = Offset + (IF calling THEN 0 ELSE EmittedSize(CV))

(* The bytes of a field make its value, and those of no other do.          *)
Placed ==
  /\ image \in [0 .. at - 1 -> Byte]
  /\ FieldsApart(DOMAIN scalars)
  /\ \A f \in DOMAIN scalars :
       /\ f \in Field /\ BytesOf(f) \subseteq 0 .. at - 1
       /\ scalars[f].value \in Word /\ scalars[f].value < Values(f.type)
       /\ ValueIn(image, f) = scalars[f].value
       /\ scalars[f].at = f.offset
-----------------------------------------------------------------------------
LEMMA WordIs == \A w : w \in Word <=> w \in Nat /\ w < 16777216
<1>1. WordMod = 16777216
  BY SMT DEF WordMod
<1>2. \A n \in Nat : \A w : w \in 0 .. n - 1 <=> w \in Nat /\ w < n
  BY SMT
<1>3. WordMod \in Nat
  BY SMT DEF WordMod
<1>4. \A w : w \in Word <=> w \in Nat /\ w < WordMod
  BY <1>2, <1>3 DEF Word
<1>5. QED BY SMT, <1>1, <1>4

LEMMA ByteIs == \A b : b \in Byte <=> b \in Nat /\ b < 256
BY SMT DEF Byte

LEMMA LowByte ==
  ASSUME NEW a \in Nat
  PROVE  a % 256 \in Byte
<1>1. a % 256 \in Nat /\ a % 256 < 256
  BY SMT
<1>2. QED BY <1>1, ByteIs

(* The three bytes of a word, high to low, and back.                       *)
LEMMA WordBytes ==
  ASSUME NEW a \in Nat, a < 16777216
  PROVE  /\ a \div 65536 \in Byte /\ (a \div 256) % 256 \in Byte /\ a % 256 \in Byte
         /\ ((a \div 65536) * 65536) + (((a \div 256) % 256) * 256) + (a % 256) = a
<1>1. a \div 65536 \in Nat /\ a \div 65536 < 256
  BY SMT
<1>2. a \div 256 \in Nat
  BY SMT
<1>3. ((a \div 65536) * 65536) + (((a \div 256) % 256) * 256) + (a % 256) = a
  BY SMT
<1>4. a \div 65536 \in Byte
  BY <1>1, ByteIs
<1>5. QED BY <1>2, <1>3, <1>4, LowByte

(* Where the bytes of a field lie.                                         *)
LEMMA FieldPlaced ==
  ASSUME Typed, NEW f \in object.fields
  PROVE  /\ f.type \in Types /\ f.offset \in Nat /\ f.offset \in 0 .. object.size - 1
         /\ f.type # "i8" => /\ f.offset + 1 \in 0 .. object.size - 1
                             /\ f.offset + 2 \in 0 .. object.size - 1
<1>1. f \in Field /\ BytesOf(f) \subseteq 0 .. object.size - 1 /\ object.size \in Nat
  BY DEF Typed, WellFormed
<1>2. f.type \in Types /\ f.offset \in Nat
  BY <1>1 DEF Field
<1>3. f.offset \in BytesOf(f)
  BY <1>2 DEF BytesOf
<1>4. f.type # "i8" => f.offset + 1 \in BytesOf(f) /\ f.offset + 2 \in BytesOf(f)
  BY <1>2 DEF BytesOf
<1>5. QED BY <1>1, <1>2, <1>3, <1>4

(* The bytes of two fields are different ones.                             *)
LEMMA FieldsDiffer ==
  ASSUME Typed, NEW f \in object.fields, NEW g \in object.fields, f # g,
         NEW a \in BytesOf(f)
  PROVE  a \notin BytesOf(g)
BY DEF Typed, WellFormed, FieldsApart

LEMMA InitHeld ==
  ASSUME MemoryInit
  PROVE  Typed /\ Held /\ LoadsSeeLastStore
<1>1. object.fields = {} /\ object.size = 0
  BY DEF MemoryInit, NoObject
<1>2. mem = [a \in {} |-> 0] /\ last = [f \in {} |-> 0] /\ 0 .. 0 - 1 = {}
  BY DEF MemoryInit, NoObject
<1>3. mem \in [0 .. object.size - 1 -> Byte] /\ last \in [object.fields -> Word]
  BY <1>1, <1>2
<1>4. A \in Word
  BY SMT, WordIs DEF MemoryInit
<1>5. WellFormed(object)
  BY <1>1 DEF WellFormed, FieldsApart
<1>6. Typed /\ Held
  BY <1>1, <1>3, <1>4, <1>5 DEF MemoryInit, Typed, Held
<1>7. LoadsSeeLastStore
  BY DEF MemoryInit, LoadsSeeLastStore
<1>8. QED BY <1>6, <1>7

(* A well-formed object whose bytes make its values is put in memory.      *)
LEMMA StartHeld ==
  ASSUME NEW o, WellFormed(o),
         o.bytes \in [0 .. o.size - 1 -> Byte],
         o.values \in [o.fields -> Word],
         \A f \in o.fields : o.values[f] < Values(f.type),
         \A f \in o.fields : ValueIn(o.bytes, f) = o.values[f],
         Typed, LoadsSeeLastStore, Start(o)
  PROVE  Typed' /\ Held' /\ LoadsSeeLastStore'
<1>1. object' = o /\ mem' = o.bytes /\ last' = o.values /\ base' = base /\ A' = A /\ got' = got
  BY DEF Start
<1>2. Typed'
  BY <1>1 DEF Typed, WellFormed
<1>3. Held'
  BY <1>1 DEF Held, ValueIn
<1>4. LoadsSeeLastStore'
  BY <1>1 DEF LoadsSeeLastStore
<1>5. QED BY <1>2, <1>3, <1>4
-----------------------------------------------------------------------------
LEMMA StoreHeld ==
  ASSUME Typed, Held, NEW f \in object.fields, NEW w \in Stored, store(f, w)
  PROVE  Typed' /\ Held'
<1>1. w \in Nat /\ w < 16777216
  BY StoredAssumption, WordIs
<1>2. f.type \in Types /\ f.offset \in Nat
  BY SMT, FieldPlaced
<1>3. A' \in Nat /\ A' < 16777216
  BY SMT, <1>1 DEF store
<1> DEFINE written == BytesOf(f)
<1>4. /\ mem' \in [0 .. object.size - 1 -> Byte]
      /\ \A a \in 0 .. object.size - 1 : a \notin written => mem'[a] = mem[a]
      /\ ValueIn(mem', f) = w % Values(f.type)
  <2>1. CASE f.type = "i8"
    <3>1. mem' = [mem EXCEPT ![f.offset] = w % 256]
      BY SMT, <2>1 DEF store, WithByte
    <3>2. w % 256 \in Byte /\ f.offset \in 0 .. object.size - 1 /\ f.offset \in written
      BY <1>1, <1>2, FieldPlaced, LowByte, <2>1 DEF BytesOf
    <3>3. mem' \in [0 .. object.size - 1 -> Byte]
      BY <3>1, <3>2 DEF Typed
    <3>4. ValueIn(mem', f) = w % Values(f.type)
      <4>1. mem'[f.offset] = w % 256
        BY <3>1, <3>2 DEF Typed
      <4>2. QED BY SMT, <2>1, <4>1 DEF ValueIn, Values
    <3>5. QED BY SMT, <3>1, <3>2, <3>3, <3>4 DEF Typed
  <2>2. CASE f.type # "i8"
    <3>1. mem' = [mem EXCEPT ![f.offset] = A' \div 65536, ![f.offset + 1] = (A' \div 256) % 256,
                             ![f.offset + 2] = A' % 256]
      BY SMT, <2>2 DEF store, WithWord
    <3>2. /\ f.offset \in 0 .. object.size - 1 /\ f.offset \in written
          /\ f.offset + 1 \in 0 .. object.size - 1 /\ f.offset + 1 \in written
          /\ f.offset + 2 \in 0 .. object.size - 1 /\ f.offset + 2 \in written
      BY SMT, <1>2, <2>2, FieldPlaced DEF BytesOf
    <3>3. /\ A' \div 65536 \in Byte /\ (A' \div 256) % 256 \in Byte
          /\ A' % 256 \in Byte
          /\ ((A' \div 65536) * 65536) + (((A' \div 256) % 256) * 256) + (A' % 256) = A'
      BY <1>3, WordBytes
    <3>4. /\ mem' \in [0 .. object.size - 1 -> Byte]
          /\ mem'[f.offset] = A' \div 65536
          /\ mem'[f.offset + 1] = (A' \div 256) % 256
          /\ mem'[f.offset + 2] = A' % 256
          /\ \A i \in 0 .. object.size - 1 :
               i # f.offset /\ i # f.offset + 1 /\ i # f.offset + 2 => mem'[i] = mem[i]
      <4> DEFINE S == 0 .. object.size - 1
                 x == A' \div 65536  y == (A' \div 256) % 256  z == A' % 256
      <4>1. f.offset \in Int
        BY <1>2
      <4>2. mem \in [S -> Byte]
        BY DEF Typed
      <4>3. x \in Byte /\ y \in Byte /\ z \in Byte
        BY <3>3
      <4>4. f.offset \in S /\ f.offset + 1 \in S /\ f.offset + 2 \in S
        BY <3>2
      <4>5. mem' = [mem EXCEPT ![f.offset] = x, ![f.offset + 1] = y, ![f.offset + 2] = z]
        BY <3>1
      <4> HIDE DEF S, x, y, z
      <4> DEFINE a == f.offset
      <4>6. a # a + 1 /\ a # a + 2 /\ a + 1 # a + 2
        BY <4>1
      <4> HIDE DEF a
      <4>7. /\ mem' \in [S -> Byte]
            /\ mem'[a] = x /\ mem'[a + 1] = y /\ mem'[a + 2] = z
            /\ \A i \in S : i # a /\ i # a + 1 /\ i # a + 2 => mem'[i] = mem[i]
        BY <4>2, <4>3, <4>4, <4>5, <4>6 DEF a
      <4>8. QED BY <4>7 DEF S, x, y, z, a
    <3>5. ValueIn(mem', f) = A'
      BY SMT, <2>2, <3>3, <3>4 DEF ValueIn
    <3>6. A' = w % Values(f.type)
      BY SMT, <1>1, <1>2, <2>2 DEF store, Values, Types, WordMod
    <3>7. ASSUME NEW a \in 0 .. object.size - 1, a \notin written PROVE mem'[a] = mem[a]
      <4>1. a # f.offset /\ a # f.offset + 1 /\ a # f.offset + 2
        BY <3>2, <3>7
      <4>2. QED BY <3>4, <4>1
    <3>8. mem' \in [0 .. object.size - 1 -> Byte]
      BY SMT, <3>4
    <3>9. ValueIn(mem', f) = w % Values(f.type)
      BY ONLY <3>5, <3>6, SMT
    <3>10. QED BY ONLY <3>7, <3>8, <3>9, SMT
  <2>3. QED BY SMT, <2>1, <2>2
<1>5. w % Values(f.type) \in Word /\ w % Values(f.type) < Values(f.type)
  <2>1. w % Values(f.type) \in Nat /\ w % Values(f.type) < Values(f.type)
          /\ w % Values(f.type) < 16777216
    BY SMT, <1>1, <1>2 DEF Values, Types, WordMod
  <2>2. QED BY <2>1, WordIs
<1>6. Typed'
  <2>1. last' \in [object.fields -> Word]
    BY SMT, <1>5 DEF store, Typed
  <2>2. \A g \in object.fields : last'[g] < Values(g.type)
    BY SMT, <1>5 DEF store, Typed
  <2>3. QED BY <1>3, <1>4, <2>1, <2>2, WordIs DEF store, Typed
<1>7. ASSUME NEW g \in object.fields PROVE ValueIn(mem', g) = last'[g]
  <2>1. CASE g = f
    BY SMT, <1>4, <2>1 DEF store, Typed
  <2>2. CASE g # f
    <3>1. last'[g] = last[g] /\ ValueIn(mem, g) = last[g]
      BY SMT, <2>2 DEF store, Typed, Held
    <3>2. \A a \in BytesOf(g) : a \in 0 .. object.size - 1 => mem'[a] = mem[a]
      BY SMT, <1>4, <2>2, FieldsDiffer
    <3>3. /\ g.offset \in Nat /\ g.offset \in BytesOf(g)
          /\ g.type # "i8" => g.offset + 1 \in BytesOf(g) /\ g.offset + 2 \in BytesOf(g)
      BY SMT, FieldPlaced DEF BytesOf
    <3>4. mem'[g.offset] = mem[g.offset]
      BY SMT, <3>2, <3>3, FieldPlaced
    <3>5. g.type # "i8" => /\ mem'[g.offset + 1] = mem[g.offset + 1]
                           /\ mem'[g.offset + 2] = mem[g.offset + 2]
      BY SMT, <3>2, <3>3, FieldPlaced
    <3>6. QED BY SMT, <3>1, <3>4, <3>5 DEF ValueIn
  <2>3. QED BY SMT, <2>1, <2>2
<1>8. QED BY SMT, <1>6, <1>7 DEF store, Held
-----------------------------------------------------------------------------
(* SHIFTL and SHIFTR extend the sign of the low byte and of the low half.  *)
LEMMA SignExtendedByte ==
  ASSUME NEW w \in Nat, w < 16777216, NEW b \in Nat, b = w % 256
  PROVE  SignExtended(w, 256) = Extended(b, "sext", 256)
<1>1. WordMod \div 256 = 65536 /\ WordMod \div 2 = 8388608 /\ 256 \div 2 = 128
        /\ WordMod = 16777216
  BY SMT DEF WordMod
<1> DEFINE h == w \div 256
           rotated == (b * 65536) + h
           signed  == IF rotated >= 8388608 THEN rotated - 16777216 ELSE rotated
<1>2. SignExtended(w, 256) = (signed \div 65536) % 16777216
  BY <1>1 DEF SignExtended
<1>3. h \in Nat /\ h < 65536 /\ b < 256
  BY SMT
<1> HIDE DEF h
<1>4. signed \div 65536 = IF b >= 128 THEN b - 256 ELSE b
  BY SMT, <1>3
<1>5. (IF b >= 128 THEN b - 256 ELSE b) % 16777216
        = IF b >= 128 THEN b + 16777216 - 256 ELSE b
  BY SMT, <1>3
<1>6. QED BY <1>1, <1>2, <1>4, <1>5 DEF Extended

LEMMA SignExtendedHalf ==
  ASSUME NEW v \in Nat, v < 65536
  PROVE  SignExtended(v, 65536) = Extended(v, "sext", 65536)
<1>1. WordMod \div 65536 = 256 /\ WordMod \div 2 = 8388608 /\ 65536 \div 2 = 32768
        /\ WordMod = 16777216
  BY SMT DEF WordMod
<1>2. v % 65536 = v /\ v \div 65536 = 0
  BY SMT
<1> DEFINE rotated == (v * 256) + 0
           signed  == IF rotated >= 8388608 THEN rotated - 16777216 ELSE rotated
<1>3. SignExtended(v, 65536) = (signed \div 256) % 16777216
  BY <1>1, <1>2 DEF SignExtended
<1>4. signed \div 256 = IF v >= 32768 THEN v - 65536 ELSE v
  BY SMT
<1>5. (IF v >= 32768 THEN v - 65536 ELSE v) % 16777216
        = IF v >= 32768 THEN v + 16777216 - 65536 ELSE v
  BY SMT
<1>6. QED BY <1>1, <1>3, <1>4, <1>5 DEF Extended

LEMMA LoadHeld ==
  ASSUME LoadsWork, Typed, Held, NEW f \in object.fields, NEW l \in Loads, load(f, l)
  PROVE  Typed' /\ Held' /\ LoadsSeeLastStore'
<1>1. f.type \in Types /\ f.offset \in Nat
  BY SMT, FieldPlaced
<1>2. l \in LoadKind /\ l.type = f.type /\ l # [type |-> "i16", ext |-> "sext", mode |-> "reg"]
  BY SMT, LoadsAssumption DEF load, LoadsWork
<1>3. mem[f.offset] \in Nat /\ mem[f.offset] < 256
  BY FieldPlaced, ByteIs DEF Typed
<1>4. ValueIn(mem, f) = last[f] /\ last[f] \in Word /\ last[f] < Values(f.type)
  BY DEF Typed, Held
<1>5. A \in Nat /\ A < 16777216
  BY WordIs DEF Typed
<1> DEFINE value == Loaded(l.type, l.ext, l.mode, f.offset)
<1>6. /\ value \in Word
      /\ IF l.ext = "ext" THEN value % Values(f.type) = last[f]
         ELSE value = Extended(last[f], l.ext, Values(f.type))
  <2>1. CASE f.type = "i24"
    <3>1. value = last[f] /\ l.ext = "none"
      BY SMT, <1>2, <1>4, <2>1 DEF Loaded, LD, ValueIn, LoadKind
    <3>2. QED BY <1>4, <3>1 DEF Extended
  <2>2. CASE f.type = "i8"
    <3>1. last[f] = mem[f.offset] /\ Values(f.type) = 256
      BY SMT, <1>4, <2>2 DEF ValueIn, Values
    <3> DEFINE w == LDCH(f.offset)
    <3>2. w \in Nat /\ w < 16777216 /\ w % 256 = last[f]
      <4>1. w = ((A \div 256) * 256) + mem[f.offset]
        BY DEF LDCH
      <4>2. QED BY ONLY <1>3, <1>5, <3>1, <4>1, SMT
    <3>3. last[f] \in Nat /\ last[f] < 256
      BY <1>3, <3>1
    <3> HIDE DEF w
    <3>4. CASE l.ext = "zext"
      <4>1. value = last[f]
        BY SMT, <1>2, <2>2, <3>2, <3>4 DEF Loaded, w
      <4>2. QED BY SMT, <1>4, <3>4, <4>1 DEF Extended
    <3>5. CASE l.ext = "ext"
      <4>1. value = w
        BY SMT, <1>2, <2>2, <3>5 DEF Loaded, w
      <4>2. QED BY SMT, <3>1, <3>2, <3>5, <4>1, WordIs
    <3>6. CASE l.ext = "sext"
      <4>1. value = SignExtended(w, 256)
        BY SMT, <1>2, <2>2, <3>6 DEF Loaded, w
      <4>2. SignExtended(w, 256) = Extended(last[f], "sext", 256)
        BY SMT, <3>2, <3>3, SignExtendedByte
      <4>3. Extended(last[f], "sext", 256) \in Nat /\ Extended(last[f], "sext", 256) < 16777216
        BY SMT, <3>3 DEF Extended, WordMod
      <4>4. QED BY SMT, <3>1, <3>6, <4>1, <4>2, <4>3, WordIs
    <3>7. QED BY SMT, <1>2, <2>2, <3>4, <3>5, <3>6 DEF LoadKind
  <2>3. CASE f.type = "i16"
    <3>1. LD(f.offset) = last[f] /\ Values(f.type) = 65536
      BY SMT, <1>4, <2>3 DEF LD, ValueIn, Values
    <3>2. last[f] \in Nat /\ last[f] < 65536
      BY SMT, <1>4, <3>1, WordIs
    <3>3. CASE l.ext \in {"zext", "ext"}
      <4>1. value = last[f]
        BY SMT, <1>2, <2>3, <3>1, <3>3 DEF Loaded
      <4>2. value % 65536 = last[f]
        BY SMT, <3>2, <4>1
      <4>3. QED BY SMT, <1>4, <3>1, <3>3, <4>1, <4>2 DEF Extended
    <3>4. CASE l.ext = "sext"
      <4>1. l.mode = "addr"
        BY SMT, <1>2, <2>3, <3>4 DEF LoadKind
      <4>2. value = SignExtended(last[f], 65536)
        BY SMT, <1>2, <2>3, <3>1, <3>4, <4>1 DEF Loaded
      <4>3. SignExtended(last[f], 65536) = Extended(last[f], "sext", 65536)
        BY SMT, <3>2, SignExtendedHalf
      <4>4. Extended(last[f], "sext", 65536) \in Nat /\ Extended(last[f], "sext", 65536) < 16777216
        BY SMT, <3>2 DEF Extended, WordMod
      <4>5. QED BY SMT, <3>1, <3>4, <4>2, <4>3, <4>4, WordIs
    <3>5. QED BY SMT, <1>2, <2>3, <3>3, <3>4 DEF LoadKind
  <2>4. QED BY SMT, <1>1, <2>1, <2>2, <2>3 DEF Types
<1>7. A' = value /\ got'.field = f /\ got'.ext = l.ext /\ got'.value = value
        /\ got'.expected = last[f]
  BY SMT, <1>2 DEF load
<1>8. LoadsSeeLastStore'
  BY SMT, <1>6, <1>7 DEF LoadsSeeLastStore
<1>9. Typed' /\ Held'
  BY SMT, <1>6, <1>7 DEF load, Typed, Held
<1>10. QED BY SMT, <1>8, <1>9
-----------------------------------------------------------------------------
-----------------------------------------------------------------------------
(* Layout.                                                                 *)

LEMMA AlignedUp ==
  ASSUME NEW v \in Nat, NEW a \in {1, 2, 4}
  PROVE  alignTo(v, a) \in Nat /\ alignTo(v, a) >= v
<1>1. CASE a = 1
  BY SMT, <1>1 DEF alignTo
<1>2. CASE a = 2
  BY SMT, <1>2 DEF alignTo
<1>3. CASE a = 4
  BY SMT, <1>3 DEF alignTo
<1>4. QED BY <1>1, <1>2, <1>3

LEMMA SizeIsNat ==
  ASSUME NEW c \in Constants
  PROVE  c.size \in Nat /\ c.align \in {1, 2, 4}
<1>1. CASE IsInt(c)
  BY <1>1 DEF IsInt, IntAlloc
<1>2. CASE ~IsInt(c)
  BY <1>2, ConstantsAssumption DEF IsZero, IsAggregate
<1>3. QED BY <1>1, <1>2

LEMMA AggregateShape ==
  ASSUME NEW c \in Aggregates
  PROVE  /\ c \in Constants /\ c.kind \in {"struct", "array"}
         /\ c.elements \in Seq(Constants) /\ Len(c.elements) \in Nat /\ Len(c.elements) >= 1
         /\ DOMAIN c.elements = 1 .. Len(c.elements)
         /\ \A i \in 1 .. Len(c.elements) : c.elements[i] \in Constants /\ c.offsets[i] \in Nat
         /\ LaidOut(c) /\ c.size \in Nat /\ c.offsets[1] = 0
<1>1. c \in Constants /\ c.kind \in {"struct", "array"}
  BY DEF Aggregates
<1>2. IsAggregate(c) /\ LaidOut(c)
  BY <1>1, ConstantsAssumption DEF IsInt, IsZero
<1>3. c.elements \in Seq(Constants) /\ c.elements # <<>> /\ c.size \in Nat
        /\ c.offsets \in [DOMAIN c.elements -> Nat]
  BY <1>2 DEF IsAggregate
<1>4. Len(c.elements) \in Nat \ {0} /\ DOMAIN c.elements = 1 .. Len(c.elements)
  BY <1>3, EmptySeq, LenProperties
<1>5. \A i \in 1 .. Len(c.elements) : c.elements[i] \in Constants /\ c.offsets[i] \in Nat
  BY <1>3, <1>4, ElementOfSeq
<1>6. c.offsets[1] = 0
  BY <1>2 DEF LaidOut
<1>7. QED BY <1>1, <1>2, <1>3, <1>4, <1>5, <1>6

(* The kinds are told apart by their names.                                *)
LEMMA KindIs ==
  ASSUME NEW c \in Constants
  PROVE  /\ c.kind = "int" => IsInt(c)
         /\ c.kind = "zero" => IsZero(c)
         /\ c.kind \in {"int", "zero", "struct", "array"}
         /\ c.kind \in {"struct", "array"} => c \in Aggregates
BY ConstantsAssumption DEF IsInt, IsZero, IsAggregate, Aggregates

(* The elements for which the adjustment for 24-bit integers is right.     *)
Fits(e) ==
  /\ e.size = 4 => e.kind = "int"
  /\ e.kind = "int" => e.type # "i16"

(* An element and its padding fill the way to the next element, or to the  *)
(* end of the aggregate, exactly when the element fits: a struct, an array *)
(* or an undefined value of four bytes, and an i16 in a WORD, do not.      *)
THEOREM PaddingFillsExactlyWhatFits ==
  ASSUME NEW c \in Aggregates, NEW i \in 1 .. Len(c.elements)
  PROVE  /\ Padding(c, i) \in Nat
         /\ NextOffset(c, i) \in Nat
         /\ c.offsets[i] + EmittedSize(c.elements[i]) + Padding(c, i) = NextOffset(c, i)
              <=> Fits(c.elements[i])
<1> DEFINE e == c.elements[i]
           off == c.offsets[i]
           next == NextOffset(c, i)
           emitted == EmittedSize(e)
           pad == Padding(c, i)
<1>1. e \in Constants /\ off \in Nat /\ e.size \in Nat /\ i \in DOMAIN c.elements
  BY AggregateShape, SizeIsNat
<1>2. NextAlign(c, i) \in {1, 2, 4}
  <2>1. i # Len(c.elements) => i + 1 \in 1 .. Len(c.elements)
    BY AggregateShape
  <2>2. i # Len(c.elements) => c.elements[i + 1].align \in {1, 2, 4}
    BY <2>1, AggregateShape, SizeIsNat
  <2>3. c.align \in {1, 2, 4}
    BY AggregateShape, SizeIsNat
  <2>4. QED BY <2>2, <2>3 DEF NextAlign
<1>3. next = IF c.kind = "struct" THEN alignTo(off + e.size, NextAlign(c, i)) ELSE off + e.size
  BY <1>1, AggregateShape DEF LaidOut
<1>4. next \in Nat /\ next >= off + e.size
  <2>1. off + e.size \in Nat
    BY <1>1
  <2>2. CASE c.kind = "struct"
    BY <1>2, <1>3, <2>1, <2>2, AlignedUp
  <2>3. CASE c.kind # "struct"
    BY <1>3, <2>1, <2>3
  <2>4. QED BY <2>2, <2>3
<1>5. pad \in Nat /\ pad = next - off - (IF e.size = 4 THEN 3 ELSE e.size)
  <2>1. CASE c.kind = "struct"
    <3>1. pad = next - off - (IF e.size = 4 THEN 3 ELSE e.size)
      BY <2>1 DEF Padding, StructPadding
    <3> HIDE DEF e, off, next, pad
    <3>2. QED BY <1>1, <1>4, <3>1
  <2>2. CASE c.kind # "struct"
    <3>1. pad = IF e.size = 4 THEN 1 ELSE 0
      BY <2>2 DEF Padding, ArrayPadding
    <3>2. next = off + e.size
      BY <1>3, <2>2
    <3> HIDE DEF e, off, next, pad
    <3>3. QED BY <1>1, <3>1, <3>2
  <2>3. QED BY <2>1, <2>2
(* What is emitted is what the padding takes for it, when it fits.         *)
<1>6. emitted \in Nat /\ (emitted = (IF e.size = 4 THEN 3 ELSE e.size) <=> Fits(e))
  <2>1. CASE e.kind = "int"
    <3>1. emitted = IF e.size = 1 THEN 1 ELSE 3
      BY <2>1 DEF EmittedSize, DirectiveBytes
    <3>2. /\ e.type \in {"i8", "i16", "i24"}
          /\ e.type = "i8" => e.size = 1
          /\ e.type = "i16" => e.size = 2
          /\ e.type = "i24" => e.size = 4
      BY <1>1, <2>1, KindIs DEF IsInt, IntAlloc
    <3>3. QED BY <2>1, <3>1, <3>2 DEF Fits
  <2>2. CASE e.kind # "int"
    <3>1. emitted = e.size
      BY <2>2 DEF EmittedSize
    <3>2. QED BY <1>1, <2>2, <3>1 DEF Fits
  <2>3. QED BY <2>1, <2>2
<1>7. QED
  <2>1. off + emitted + pad = next <=> emitted = (IF e.size = 4 THEN 3 ELSE e.size)
    <3> DEFINE taken == IF e.size = 4 THEN 3 ELSE e.size
    <3>1. /\ taken \in Nat /\ pad = next - off - taken
          /\ off \in Nat /\ next \in Nat /\ emitted \in Nat
      BY <1>1, <1>4, <1>5, <1>6
    <3> HIDE DEF e, off, next, emitted, pad, taken
    <3>2. off + emitted + pad = next <=> emitted = taken
      BY <3>1
    <3>3. QED BY <3>2 DEF taken
  <2>2. QED BY <1>4, <1>5, <1>6, <2>1

LEMMA PaddingFills ==
  ASSUME AdjustmentFits, NEW c \in Aggregates, NEW i \in 1 .. Len(c.elements)
  PROVE  /\ Padding(c, i) \in Nat
         /\ NextOffset(c, i) \in Nat
         /\ c.offsets[i] + EmittedSize(c.elements[i]) + Padding(c, i) = NextOffset(c, i)
<1>1. c.elements[i] \in Constants /\ c \in Constants /\ i \in DOMAIN c.elements
        /\ c.kind \in {"struct", "array"}
  BY AggregateShape
<1>2. Fits(c.elements[i])
  BY <1>1 DEF AdjustmentFits, Fits
<1>3. QED BY <1>2, PaddingFillsExactlyWhatFits
-----------------------------------------------------------------------------
(* Where the emission is.                                                  *)

LEMMA NestingShape ==
  ASSUME Nesting
  PROVE  /\ Len(loops) \in Nat
         /\ loops = <<>> => Len(loops) = 0
         /\ loops # <<>> => Len(loops) >= 1
         /\ \A k \in 1 .. Len(loops) : /\ loops[k].c \in Aggregates /\ loops[k].offset \in Nat
                                       /\ loops[k].i \in Nat
                                       /\ loops[k].i \in 1 .. Len(loops[k].c.elements)
                                       /\ ElementAt(loops[k]) \in Constants
                                       /\ OffsetAt(loops[k]) \in Nat
                                       /\ loops[k] \in [c : Aggregates, offset : Nat, i : Nat]
<1> DEFINE S == [c : Aggregates, offset : Nat, i : Nat]
<1>1. loops \in Seq(S) /\ Len(loops) \in Nat
  BY LenProperties DEF Nesting
<1>2. (loops = <<>> => Len(loops) = 0) /\ (loops # <<>> => Len(loops) >= 1)
  BY <1>1, EmptySeq
<1>3. ASSUME NEW k \in 1 .. Len(loops)
      PROVE  /\ loops[k].c \in Aggregates /\ loops[k].offset \in Nat
             /\ loops[k].i \in Nat
             /\ loops[k].i \in 1 .. Len(loops[k].c.elements)
             /\ ElementAt(loops[k]) \in Constants
             /\ OffsetAt(loops[k]) \in Nat
             /\ loops[k] \in S
  <2>1. loops[k] \in S
    BY <1>1, ElementOfSeq
  <2>2. loops[k].c \in Aggregates /\ loops[k].offset \in Nat /\ loops[k].i \in Nat
    BY <2>1
  <2>3. loops[k].i \in 1 .. Len(loops[k].c.elements)
    BY DEF Nesting
  <2>4. ElementAt(loops[k]) \in Constants /\ loops[k].c.offsets[loops[k].i] \in Nat
    BY <2>2, <2>3, AggregateShape DEF ElementAt
  <2>5. QED BY <2>1, <2>2, <2>3, <2>4 DEF OffsetAt
<1>4. QED BY <1>1, <1>2, <1>3

LEMMA CallShape ==
  ASSUME Nesting
  PROVE  CV \in Constants /\ Offset \in Nat
<1>1. CASE loops = <<>>
  BY <1>1 DEF Nesting, CV, Offset
<1>2. CASE loops # <<>>
  <2>1. Len(loops) \in 1 .. Len(loops)
    BY <1>2, NestingShape
  <2>2. CV = ElementAt(loops[Len(loops)]) /\ Offset = OffsetAt(loops[Len(loops)])
    BY <1>2 DEF CV, Offset, Top, ElementAt, OffsetAt
  <2>3. QED BY <2>1, <2>2, NestingShape
<1>3. QED BY <1>1, <1>2

(* A loop is entered with its first element.                               *)
LEMMA EnterNested ==
  ASSUME Nesting, Position, EnterAggregate
  PROVE  Nesting' /\ Position'
<1> DEFINE S == [c : Aggregates, offset : Nat, i : Nat]
           n == Len(loops)
           l == [c |-> CV, offset |-> Offset, i |-> 1]
<1>1. CV \in Aggregates /\ Offset \in Nat /\ calling /\ l \in S
  BY CallShape, KindIs DEF EnterAggregate
<1>2. loops' = Append(loops, l) /\ root' = root /\ calling' = calling /\ at' = at
  BY DEF EnterAggregate
<1>3. loops \in Seq(S) /\ n \in Nat
  BY NestingShape DEF Nesting
<1>4. /\ loops' \in Seq(S) /\ loops' # <<>> /\ Len(loops') = n + 1
      /\ \A k \in 1 .. n : loops'[k] = loops[k]
      /\ loops'[n + 1] = l
  BY <1>1, <1>2, <1>3, AppendProperties
<1>5. l.c = CV /\ l.offset = Offset /\ l.i = 1
  OBVIOUS
<1>6. 1 \in 1 .. Len(CV.elements) /\ CV.offsets[1] = 0
  BY <1>1, AggregateShape
<1>7. n = 0 => CV = root /\ Offset = 0
  BY NestingShape DEF CV, Offset
<1>8. n # 0 => CV = ElementAt(loops[n]) /\ Offset = OffsetAt(loops[n])
  BY NestingShape DEF CV, Offset, Top, ElementAt, OffsetAt
<1> HIDE DEF l
<1>9. ASSUME NEW k \in 1 .. Len(loops')
      PROVE  /\ loops'[k].i \in 1 .. Len(loops'[k].c.elements)
             /\ k = 1 => loops'[k].c = root /\ loops'[k].offset = 0
             /\ k # 1 => /\ loops'[k].c = ElementAt(loops'[k - 1])
                         /\ loops'[k].offset = OffsetAt(loops'[k - 1])
  <2>1. CASE k = n + 1
    <3>1. loops'[k] = l /\ (k # 1 => loops'[k - 1] = loops[n] /\ n # 0) /\ (k = 1 => n = 0)
      <4>1. k - 1 = n /\ (k # 1 => n # 0 /\ n \in 1 .. n) /\ (k = 1 => n = 0)
        BY <1>3, <2>1
      <4>2. QED BY <4>1, <1>4, <2>1
    <3>2. QED BY <3>1, <1>5, <1>6, <1>7, <1>8
  <2>2. CASE k # n + 1
    <3>1. k \in 1 .. n /\ (k # 1 => k - 1 \in 1 .. n)
      BY <1>3, <1>4, <2>2
    <3>2. loops'[k] = loops[k] /\ (k # 1 => loops'[k - 1] = loops[k - 1])
      BY <1>4, <3>1
    <3>3. QED BY <3>1, <3>2 DEF Nesting
  <2>3. QED BY <2>1, <2>2
<1>10. Nesting'
  BY <1>2, <1>4, <1>9 DEF Nesting, ElementAt, OffsetAt
<1>11. Position'
  <2>1. Offset' = Offset
    <3>1. Offset' = l.offset + l.c.offsets[l.i]
      BY <1>4 DEF Offset, Top
    <3>2. QED BY <3>1, <1>1, <1>5, <1>6
  <2>2. QED BY <1>1, <1>2, <2>1 DEF Position
<1>12. QED BY <1>10, <1>11

(* The rest of an iteration: on to the next element, or out of the loop.   *)
LEMMA PadNested ==
  ASSUME AdjustmentFits, Nesting, Position, PadElement
  PROVE  /\ Nesting' /\ Position'
         /\ Padding(Top.c, Top.i) \in Nat /\ EmitZeros(Padding(Top.c, Top.i))
<1> DEFINE S == [c : Aggregates, offset : Nat, i : Nat]
           n == Len(loops)
<1>1. loops # <<>> /\ ~calling /\ root' = root /\ EmitZeros(Padding(Top.c, Top.i))
  BY DEF PadElement, Padding
<1>2. /\ loops \in Seq(S) /\ n \in Nat /\ n >= 1 /\ n \in 1 .. n
      /\ Top = loops[n] /\ Top.c \in Aggregates /\ Top.offset \in Nat
      /\ Top.i \in 1 .. Len(Top.c.elements) /\ Top \in S
  BY <1>1, NestingShape DEF Nesting, Top
<1> DEFINE c == Top.c  i == Top.i  len == Len(c.elements)
<1>3. /\ Padding(c, i) \in Nat /\ NextOffset(c, i) \in Nat
      /\ c.offsets[i] + EmittedSize(c.elements[i]) + Padding(c, i) = NextOffset(c, i)
  BY <1>2, PaddingFills
<1>4. c.offsets[i] \in Nat /\ len \in Nat /\ i \in Nat
  BY <1>2, AggregateShape
<1>5. at = Top.offset + c.offsets[i] + EmittedSize(c.elements[i]) /\ at \in Nat
  BY <1>1 DEF Position, Offset, CV
<1>6. at' = at + Padding(c, i)
  BY <1>1 DEF EmitZeros, Emit
<1>7. EmittedSize(c.elements[i]) \in Nat
  <2>1. c.elements[i] \in Constants
    BY <1>2, AggregateShape
  <2>2. QED BY <2>1, SizeIsNat DEF EmittedSize, DirectiveBytes
<1>8. at' = Top.offset + NextOffset(c, i) /\ at' \in Nat
  <2> DEFINE off == c.offsets[i]  size == EmittedSize(c.elements[i])
             pad == Padding(c, i)  next == NextOffset(c, i)
  <2>1. /\ off \in Nat /\ size \in Nat /\ pad \in Nat /\ next \in Nat /\ Top.offset \in Nat
        /\ off + size + pad = next /\ at = Top.offset + off + size /\ at' = at + pad
    BY <1>2, <1>3, <1>4, <1>5, <1>6, <1>7
  <2> HIDE DEF off, size, pad, next
  <2>2. at' = Top.offset + next /\ at' \in Nat
    BY <2>1
  <2>3. QED BY <2>2 DEF next
<1>9. CASE i = len
  <2>1. loops' = SubSeq(loops, 1, n - 1) /\ calling' = FALSE
    BY <1>9 DEF PadElement
  <2>2. \A k \in 1 .. n - 1 : loops[k] \in S
    BY <1>2, NestingShape
  <2>3. /\ loops' \in Seq(S) /\ Len(loops') = n - 1
        /\ \A k \in 1 .. n - 1 : loops'[k] = loops[k]
    <3> DEFINE rest == SubSeq(loops, 1, n - 1)
    <3>1. /\ rest \in Seq(S)
          /\ Len(rest) = IF 1 <= n - 1 THEN (n - 1) - 1 + 1 ELSE 0
          /\ \A k \in 1 .. (n - 1) - 1 + 1 : rest[k] = loops[1 + k - 1]
      <4>1. 1 \in Int /\ n - 1 \in Int
        BY <1>2
      <4>2. QED BY <4>1, <2>2, SubSeqProperties
    <3>2. (n - 1) - 1 + 1 = n - 1 /\ \A k \in 1 .. n - 1 : 1 + k - 1 = k
      BY <1>2
    <3>3. loops' = rest
      BY <2>1
    <3> HIDE DEF rest
    <3>4. Len(rest) = n - 1
      <4>1. n \in Nat /\ n >= 1 /\ Len(rest) = IF 1 <= n - 1 THEN (n - 1) - 1 + 1 ELSE 0
        BY <1>2, <3>1
      <4> HIDE DEF n
      <4>2. QED BY <4>1
    <3>5. \A k \in 1 .. n - 1 : rest[k] = loops[k]
      BY <3>1, <3>2
    <3>6. QED BY <3>1, <3>3, <3>4, <3>5
  <2>4. \A k \in 1 .. n - 1 : k \in 1 .. n /\ (k # 1 => k - 1 \in 1 .. n - 1)
    BY <1>2
  <2>5. Nesting'
    <3>1. ASSUME NEW k \in 1 .. Len(loops')
          PROVE  /\ loops'[k].i \in 1 .. Len(loops'[k].c.elements)
                 /\ k = 1 => loops'[k].c = root /\ loops'[k].offset = 0
                 /\ k # 1 => /\ loops'[k].c = ElementAt(loops'[k - 1])
                             /\ loops'[k].offset = OffsetAt(loops'[k - 1])
      <4>1. k \in 1 .. n /\ loops'[k] = loops[k] /\ (k # 1 => loops'[k - 1] = loops[k - 1])
        BY <2>3, <2>4
      <4>2. QED BY <4>1 DEF Nesting
    <3>2. QED BY <1>1, <2>1, <2>3, <3>1 DEF Nesting, ElementAt, OffsetAt
  <2>6. CV' = c /\ Offset' = Top.offset
    <3>1. CASE n = 1
      <4>1. loops' = <<>>
        BY <2>3, <3>1, EmptySeq
      <4>2. c = root /\ Top.offset = 0
        BY <1>2, <3>1 DEF Nesting
      <4>3. QED BY <1>1, <4>1, <4>2 DEF CV, Offset
    <3>2. CASE n # 1
      <4>1. n - 1 \in 1 .. n - 1 /\ Len(loops') # 0
        <5>1. n \in Nat /\ n >= 1 /\ n # 1 /\ Len(loops') = n - 1
          BY <1>2, <2>3, <3>2
        <5> HIDE DEF n
        <5>2. QED BY <5>1
      <4>2. loops' # <<>>
        BY <4>1, EmptySeq
      <4>3. Top' = loops[n - 1]
        BY <2>3, <4>1 DEF Top
      <4>4. c = ElementAt(loops[n - 1]) /\ Top.offset = OffsetAt(loops[n - 1])
        BY <1>2, <3>2 DEF Nesting
      <4>5. QED BY <4>2, <4>3, <4>4 DEF CV, Offset, ElementAt, OffsetAt
    <3>3. QED BY <3>1, <3>2
  <2>7. NextOffset(c, i) = c.size /\ EmittedSize(c) = c.size
    BY <1>2, <1>9, AggregateShape DEF NextOffset, EmittedSize
  <2>8. Position'
    BY <1>8, <2>1, <2>6, <2>7 DEF Position, EmittedSize, DirectiveBytes
  <2>9. QED BY <1>1, <1>3, <2>5, <2>8
<1>10. CASE i # len
  <2>1. loops' = [loops EXCEPT ![n].i = i + 1] /\ calling' = TRUE
    BY <1>10 DEF PadElement, Top
  <2> DEFINE l == [Top EXCEPT !.i = i + 1]
  <2>2. l \in S /\ l.c = c /\ l.offset = Top.offset /\ l.i = i + 1
    BY <1>2, <1>4
  <2>3. loops' = [loops EXCEPT ![n] = l]
    BY <1>2, <2>1
  <2> HIDE DEF l
  <2>4. /\ loops' \in Seq(S) /\ Len(loops') = n
        /\ \A k \in 1 .. n : loops'[k] = IF k = n THEN l ELSE loops[k]
    <3>1. n \in 1 .. Len(loops) /\ loops \in Seq(S)
      BY <1>2
    <3>2. QED BY <3>1, <2>2, <2>3, ExceptSeq
  <2>5. i + 1 \in 1 .. len
    BY <1>2, <1>4, <1>10
  <2>6. ASSUME NEW k \in 1 .. Len(loops')
        PROVE  /\ loops'[k].i \in 1 .. Len(loops'[k].c.elements)
               /\ k = 1 => loops'[k].c = root /\ loops'[k].offset = 0
               /\ k # 1 => /\ loops'[k].c = ElementAt(loops'[k - 1])
                           /\ loops'[k].offset = OffsetAt(loops'[k - 1])
    <3>1. k \in 1 .. n /\ (k # 1 => k - 1 \in 1 .. n /\ k - 1 # n)
      BY <1>2, <2>4
    <3>2. loops'[k].c = loops[k].c /\ loops'[k].offset = loops[k].offset
      BY <1>2, <2>2, <2>4, <3>1
    <3>3. loops'[k].i \in 1 .. Len(loops'[k].c.elements)
      <4>1. k = n => loops'[k].i = i + 1 /\ loops'[k].c = c
        BY <2>2, <2>4, <3>1
      <4>2. k # n => loops'[k] = loops[k]
        BY <2>4, <3>1
      <4>3. QED BY <4>1, <4>2, <2>5, <3>1 DEF Nesting
    <3>4. k # 1 => loops'[k - 1] = loops[k - 1]
      BY <2>4, <3>1
    <3>5. QED BY <3>1, <3>2, <3>3, <3>4 DEF Nesting
  <2>7. Nesting'
    BY <1>1, <2>1, <2>4, <2>6 DEF Nesting, ElementAt, OffsetAt
  <2>8. Offset' = Top.offset + c.offsets[i + 1]
    <3>1. loops' # <<>>
      BY <1>2, <2>4, EmptySeq
    <3>2. Top' = l
      BY <1>2, <2>4 DEF Top
    <3>3. QED BY <2>2, <3>1, <3>2 DEF Offset
  <2>9. NextOffset(c, i) = c.offsets[i + 1]
    BY <1>10 DEF NextOffset
  <2>10. Position'
    <3>1. Top.offset + c.offsets[i + 1] \in Nat
      BY <1>8, <2>9
    <3>2. QED BY <1>8, <2>1, <2>8, <2>9, <3>1 DEF Position
  <2>11. QED BY <1>1, <1>3, <2>7, <2>10
<1>11. QED BY <1>9, <1>10
-----------------------------------------------------------------------------
(* What has been emitted.                                                  *)

(* Directives go after what is there.                                      *)
LEMMA Emitting ==
  ASSUME at \in Nat, image \in [0 .. at - 1 -> Byte],
         NEW n \in Nat, NEW bytes \in [0 .. n - 1 -> Byte], Emit(n, bytes)
  PROVE  /\ at' = at + n /\ at' \in Nat
         /\ image' \in [0 .. at' - 1 -> Byte]
         /\ \A a \in 0 .. at - 1 : image'[a] = image[a]
         /\ \A b \in 0 .. n - 1 : image'[at + b] = bytes[b]
<1>1. at' = at + n /\ at' \in Nat
  BY DEF Emit
<1>2. image' = [a \in 0 .. at + n - 1 |-> IF a < at THEN image[a] ELSE bytes[a - at]]
  BY DEF Emit
<1>3. ASSUME NEW a \in 0 .. at + n - 1
      PROVE  (IF a < at THEN image[a] ELSE bytes[a - at]) \in Byte
  <2>1. a < at => a \in 0 .. at - 1
    OBVIOUS
  <2>2. ~(a < at) => a - at \in 0 .. n - 1
    OBVIOUS
  <2>3. QED BY <2>1, <2>2
<1>4. image' \in [0 .. at' - 1 -> Byte]
  BY <1>1, <1>2, <1>3
<1>5. ASSUME NEW a \in 0 .. at - 1 PROVE image'[a] = image[a]
  <2>1. a \in 0 .. at + n - 1 /\ a < at
    OBVIOUS
  <2>2. QED BY <1>2, <2>1
<1>6. ASSUME NEW b \in 0 .. n - 1 PROVE image'[at + b] = bytes[b]
  <2>1. at + b \in 0 .. at + n - 1 /\ ~(at + b < at) /\ (at + b) - at = b
    OBVIOUS
  <2>2. QED BY <1>2, <2>1
<1>7. QED BY <1>1, <1>4, <1>5, <1>6

(* The bytes of a field, in numbers.                                       *)
LEMMA FieldBytes ==
  ASSUME NEW f \in Field
  PROVE  /\ f.offset \in Nat /\ f.type \in Types /\ f.offset \in BytesOf(f)
         /\ f.type = "i8" => BytesOf(f) = {f.offset}
         /\ f.type # "i8" => /\ BytesOf(f) = {f.offset, f.offset + 1, f.offset + 2}
                             /\ f.offset + 1 \in BytesOf(f) /\ f.offset + 2 \in BytesOf(f)
<1>1. f.offset \in Nat /\ f.type \in Types
  BY DEF Field
<1>2. f.type = "i8" => BytesOf(f) = {f.offset}
  BY <1>1 DEF BytesOf
<1>3. f.type # "i8" => BytesOf(f) = {f.offset, f.offset + 1, f.offset + 2}
  BY <1>1 DEF BytesOf
<1>4. QED BY <1>1, <1>2, <1>3

(* Bytes that stay make what they made.                                    *)
LEMMA ValueKept ==
  ASSUME NEW f \in Field, NEW b, NEW c, \A a \in BytesOf(f) : b[a] = c[a]
  PROVE  ValueIn(b, f) = ValueIn(c, f)
BY FieldBytes DEF ValueIn

LEMMA LaterBytes ==
  ASSUME NEW m \in Nat, NEW n \in Nat, n >= m
  PROVE  /\ \A a \in 0 .. m - 1 : a \notin m .. n - 1 /\ a \in 0 .. n - 1
         /\ \A a \in m .. n - 1 : a \in 0 .. n - 1
OBVIOUS

(* New fields in new bytes leave the old ones as they are.                 *)
LEMMA PlacedMore ==
  ASSUME at \in Nat, Placed, at' \in Nat, at' >= at,
         image' \in [0 .. at' - 1 -> Byte],
         \A a \in 0 .. at - 1 : image'[a] = image[a],
         NEW new, FieldsApart(new),
         DOMAIN scalars' = DOMAIN scalars \cup new,
         \A f \in DOMAIN scalars : f \notin new => scalars'[f] = scalars[f],
         \A f \in new : /\ f \in Field /\ BytesOf(f) \subseteq at .. at' - 1
                        /\ scalars'[f].value \in Word
                        /\ scalars'[f].value < Values(f.type)
                        /\ ValueIn(image', f) = scalars'[f].value
                        /\ scalars'[f].at = f.offset
  PROVE  Placed'
<1>1. ASSUME NEW f \in DOMAIN scalars, NEW g \in new
      PROVE  BytesOf(f) \cap BytesOf(g) = {} /\ f # g
  <2>1. BytesOf(f) \subseteq 0 .. at - 1 /\ BytesOf(g) \subseteq at .. at' - 1
    BY DEF Placed
  <2>2. \A a \in 0 .. at - 1 : a \notin at .. at' - 1
    BY LaterBytes
  <2>3. BytesOf(f) \cap BytesOf(g) = {}
    BY <2>1, <2>2
  <2>4. f.offset \in BytesOf(f)
    BY FieldBytes DEF Placed
  <2>5. QED BY <2>3, <2>4
<1>2. FieldsApart(DOMAIN scalars')
  <2>1. ASSUME NEW f \in DOMAIN scalars', NEW g \in DOMAIN scalars'
        PROVE  f = g \/ BytesOf(f) \cap BytesOf(g) = {}
    <3>1. CASE f \in new /\ g \in new
      BY <3>1 DEF FieldsApart
    <3>2. CASE f \in DOMAIN scalars /\ g \in DOMAIN scalars
      BY <3>2 DEF Placed, FieldsApart
    <3>3. CASE f \in DOMAIN scalars /\ g \in new
      BY <3>3, <1>1
    <3>4. CASE f \in new /\ g \in DOMAIN scalars
      BY <3>4, <1>1
    <3>5. QED BY <3>1, <3>2, <3>3, <3>4
  <2>2. QED BY <2>1 DEF FieldsApart
<1>3. ASSUME NEW f \in DOMAIN scalars'
      PROVE  /\ f \in Field /\ BytesOf(f) \subseteq 0 .. at' - 1
             /\ scalars'[f].value \in Word /\ scalars'[f].value < Values(f.type)
             /\ ValueIn(image', f) = scalars'[f].value
             /\ scalars'[f].at = f.offset
  <2>1. CASE f \in new
    <3>1. \A a \in at .. at' - 1 : a \in 0 .. at' - 1
      BY LaterBytes
    <3>2. QED BY <2>1, <3>1
  <2>2. CASE f \notin new
    <3>1. f \in DOMAIN scalars /\ scalars'[f] = scalars[f]
      BY <2>2
    <3>2. f \in Field /\ BytesOf(f) \subseteq 0 .. at - 1
      BY <3>1 DEF Placed
    <3>3. ValueIn(image', f) = ValueIn(image, f)
      <4>1. \A a \in BytesOf(f) : image'[a] = image[a]
        BY <3>2
      <4>2. QED BY <3>2, <4>1, ValueKept
    <3>4. \A a \in 0 .. at - 1 : a \in 0 .. at' - 1
      BY LaterBytes
    <3>5. BytesOf(f) \subseteq 0 .. at' - 1
      BY <3>2, <3>4
    <3>6. QED BY <3>1, <3>2, <3>3, <3>5 DEF Placed
  <2>3. QED BY <2>1, <2>2
<1>4. QED BY <1>2, <1>3 DEF Placed

(* Zeros are bytes.                                                        *)
LEMMA ZeroBytes ==
  ASSUME NEW n \in Nat
  PROVE  /\ [b \in 0 .. n - 1 |-> 0] \in [0 .. n - 1 -> Byte]
         /\ \A b \in 0 .. n - 1 : [c \in 0 .. n - 1 |-> 0][b] = 0
<1>1. 0 \in Byte
  BY ByteIs
<1>2. QED BY <1>1

(* Padding places no field.                                                *)
LEMMA PadPlaced ==
  ASSUME at \in Nat, Placed, NEW n \in Nat, EmitZeros(n), scalars' = scalars
  PROVE  Placed'
<1>1. image \in [0 .. at - 1 -> Byte]
  BY DEF Placed
<1>2. /\ at' = at + n /\ at' \in Nat /\ image' \in [0 .. at' - 1 -> Byte]
      /\ \A a \in 0 .. at - 1 : image'[a] = image[a]
  BY <1>1, Emitting, ZeroBytes DEF EmitZeros
<1>3. at' >= at /\ DOMAIN scalars' = DOMAIN scalars \cup {} /\ FieldsApart({})
  BY <1>2 DEF FieldsApart
<1>4. QED BY <1>2, <1>3, PlacedMore

LEMMA IntPlaced ==
  ASSUME AdjustmentFits, Nesting, Position, Placed, EmitInt
  PROVE  /\ Nesting' /\ Position' /\ Placed'
<1> DEFINE c == CV
           f == [type |-> c.type, offset |-> Offset]
           n == DirectiveBytes(c.size)
<1>1. c \in Constants /\ Offset \in Nat /\ c.kind = "int" /\ calling
  BY CallShape DEF EmitInt
<1>2. /\ IsInt(c) /\ c.type \in {"i8", "i24"}
      /\ c.value \in Nat /\ c.value < 16777216 /\ (c.type = "i8" => c.value < 256)
  BY <1>1, KindIs DEF AdjustmentFits, IsInt
<1>3. /\ c.type = "i8" => c.size = 1 /\ n = 1
      /\ c.type = "i24" => c.size = 4 /\ n = 3
      /\ n \in Nat
  BY <1>2 DEF IsInt, IntAlloc, DirectiveBytes
<1>4. at = Offset /\ at \in Nat
  BY <1>1 DEF Position
<1>5. f \in Field /\ f.type = c.type /\ f.offset = at
  BY <1>1, <1>2, <1>4 DEF Field, Types
<1>6. calling' = FALSE /\ loops' = loops /\ root' = root
  BY DEF EmitInt
<1>7. CV' = CV /\ Offset' = Offset
  BY <1>6 DEF CV, Offset, Top
<1>8. Nesting'
  BY <1>6 DEF Nesting
<1>9. /\ at' = at + n /\ at' \in Nat /\ image' \in [0 .. at' - 1 -> Byte]
      /\ \A a \in 0 .. at - 1 : image'[a] = image[a]
      /\ ValueIn(image', f) = c.value
  <2>1. CASE c.type = "i8"
    <3> DEFINE bytes == [b \in {0} |-> c.value]
    <3>1. bytes \in [0 .. n - 1 -> Byte] /\ bytes[0] = c.value
      <4>1. 0 .. n - 1 = {0}
        BY <1>3, <2>1
      <4>2. c.value \in Byte
        BY <1>2, <2>1, ByteIs
      <4>3. QED BY <4>1, <4>2
    <3>2. Emit(n, bytes)
      BY <1>3, <2>1 DEF EmitInt, EmitIntValue
    <3> HIDE DEF bytes
    <3>3. /\ at' = at + n /\ at' \in Nat /\ image' \in [0 .. at' - 1 -> Byte]
          /\ \A a \in 0 .. at - 1 : image'[a] = image[a]
          /\ \A b \in 0 .. n - 1 : image'[at + b] = bytes[b]
      BY <1>3, <1>4, <3>1, <3>2, Emitting DEF Placed
    <3>4. 0 \in 0 .. n - 1 /\ at + 0 = at
      BY <1>3, <1>4, <2>1
    <3>5. image'[at] = c.value
      BY <3>1, <3>3, <3>4
    <3>6. ValueIn(image', f) = c.value
      BY <1>5, <2>1, <3>5 DEF ValueIn
    <3>7. QED BY <3>3, <3>6
  <2>2. CASE c.type = "i24"
    <3> DEFINE bytes == [b \in 0 .. 2 |-> CASE b = 0 -> c.value \div 65536
                                          [] b = 1 -> (c.value \div 256) % 256
                                          [] b = 2 -> c.value % 256]
               high == c.value \div 65536
               mid  == (c.value \div 256) % 256
               low  == c.value % 256
    <3>1. /\ high \in Byte /\ mid \in Byte /\ low \in Byte
          /\ (high * 65536) + (mid * 256) + low = c.value
      BY <1>2, WordBytes
    <3>2. Emit(n, bytes)
      BY <1>3, <2>2 DEF EmitInt, EmitIntValue
    <3>3. bytes = [b \in 0 .. 2 |-> CASE b = 0 -> high [] b = 1 -> mid [] b = 2 -> low]
      OBVIOUS
    <3> HIDE DEF bytes, high, mid, low
    <3>4. bytes \in [0 .. n - 1 -> Byte] /\ bytes[0] = high /\ bytes[1] = mid /\ bytes[2] = low
      <4>1. n - 1 = 2
        BY <1>3, <2>2
      <4>2. \A b \in 0 .. 2 : b = 0 \/ b = 1 \/ b = 2
        OBVIOUS
      <4>3. QED BY <3>1, <3>3, <4>1, <4>2
    <3>5. /\ at' = at + n /\ at' \in Nat /\ image' \in [0 .. at' - 1 -> Byte]
          /\ \A a \in 0 .. at - 1 : image'[a] = image[a]
          /\ \A b \in 0 .. n - 1 : image'[at + b] = bytes[b]
      BY <1>3, <1>4, <3>2, <3>4, Emitting DEF Placed
    <3>6. 0 \in 0 .. n - 1 /\ 1 \in 0 .. n - 1 /\ 2 \in 0 .. n - 1 /\ at + 0 = at
      BY <1>3, <1>4, <2>2
    <3>7. image'[at] = high /\ image'[at + 1] = mid /\ image'[at + 2] = low
      BY <3>4, <3>5, <3>6
    <3>8. ValueIn(image', f) = c.value
      BY <1>5, <2>2, <3>1, <3>7 DEF ValueIn
    <3>9. QED BY <3>5, <3>8
  <2>3. QED BY <1>2, <2>1, <2>2
<1>10. Position'
  <2>1. EmittedSize(c) = n
    BY <1>1 DEF EmittedSize
  <2>2. QED BY <1>4, <1>6, <1>7, <1>9, <2>1 DEF Position
<1>11. Placed'
  <2>1. scalars' = [g \in DOMAIN scalars \cup {f} |->
                      IF g = f THEN [value |-> c.value, at |-> at] ELSE scalars[g]]
    BY DEF EmitInt
  <2> DEFINE new == {f}
  <2>2. /\ DOMAIN scalars' = DOMAIN scalars \cup new
        /\ \A g \in DOMAIN scalars : g \notin new => scalars'[g] = scalars[g]
        /\ scalars'[f].value = c.value /\ scalars'[f].at = at
    BY <2>1
  <2>3. c.value \in Word
    BY SMT, <1>2, WordIs
  <2>4. c.value < Values(f.type)
    BY SMT, <1>2, <1>5 DEF Values, WordMod
  <2>5. BytesOf(f) \subseteq at .. at' - 1
    <3>1. CASE c.type = "i8"
      <4>1. BytesOf(f) = {at} /\ at \in at .. at' - 1
        BY <1>3, <1>4, <1>5, <1>9, <3>1, FieldBytes
      <4>2. QED BY <4>1
    <3>2. CASE c.type = "i24"
      <4>1. BytesOf(f) = {at, at + 1, at + 2} /\ at' = at + 3
        BY <1>3, <1>5, <1>9, <3>2, FieldBytes
      <4>2. at \in at .. at' - 1 /\ at + 1 \in at .. at' - 1 /\ at + 2 \in at .. at' - 1
        BY <1>4, <4>1
      <4>3. QED BY <4>1, <4>2
    <3>3. QED BY <1>2, <3>1, <3>2
  <2>6. FieldsApart(new) /\ at' >= at
    BY <1>3, <1>4, <1>9 DEF FieldsApart
  <2> HIDE DEF f, c, n
  <2>7. \A g \in new : /\ g \in Field /\ BytesOf(g) \subseteq at .. at' - 1
                       /\ scalars'[g].value \in Word
                       /\ scalars'[g].value < Values(g.type)
                       /\ ValueIn(image', g) = scalars'[g].value
                       /\ scalars'[g].at = g.offset
    BY <1>5, <1>9, <2>2, <2>3, <2>4, <2>5
  <2> HIDE DEF new
  <2>8. QED BY <1>4, <1>9, <2>2, <2>6, <2>7, PlacedMore
<1>12. QED BY <1>8, <1>10, <1>11

(* The fields of zeros make 0, wherever they are.                          *)
LEMMA ZeroPlaced ==
  ASSUME Nesting, Position, Placed, EmitZero
  PROVE  /\ Nesting' /\ Position' /\ Placed'
<1> DEFINE c == CV
           n == c.size
           Moved(f) == [type |-> f.type, offset |-> Offset + f.offset]
           new == {Moved(f) : f \in c.fields}
<1>1. c \in Constants /\ Offset \in Nat /\ c.kind = "zero" /\ calling /\ n \in Nat
  BY CallShape, SizeIsNat DEF EmitZero
<1>2. /\ c.fields \subseteq Field /\ FieldsApart(c.fields)
      /\ \A f \in c.fields : BytesOf(f) \subseteq 0 .. n - 1
  BY <1>1, ZeroFieldsAssumption
<1>3. at = Offset /\ at \in Nat
  BY <1>1 DEF Position
<1>4. calling' = FALSE /\ loops' = loops /\ root' = root
  BY DEF EmitZero
<1>5. CV' = CV /\ Offset' = Offset
  BY <1>4 DEF CV, Offset, Top
<1>6. Nesting'
  BY <1>4 DEF Nesting
<1>7. /\ at' = at + n /\ at' \in Nat /\ image' \in [0 .. at' - 1 -> Byte]
      /\ \A a \in 0 .. at - 1 : image'[a] = image[a]
      /\ \A b \in 0 .. n - 1 : image'[at + b] = 0
  <2> DEFINE zeros == [b \in 0 .. n - 1 |-> 0]
  <2>1. zeros \in [0 .. n - 1 -> Byte] /\ \A b \in 0 .. n - 1 : zeros[b] = 0
    BY <1>1, ZeroBytes
  <2>2. Emit(n, zeros)
    BY DEF EmitZero, EmitZeros
  <2> HIDE DEF zeros
  <2>3. /\ at' = at + n /\ at' \in Nat /\ image' \in [0 .. at' - 1 -> Byte]
        /\ \A a \in 0 .. at - 1 : image'[a] = image[a]
        /\ \A b \in 0 .. n - 1 : image'[at + b] = zeros[b]
    BY <1>1, <1>3, <2>1, <2>2, Emitting DEF Placed
  <2>4. QED BY <2>1, <2>3
<1>8. Position'
  <2>1. EmittedSize(c) = n
    BY <1>1 DEF EmittedSize
  <2>2. QED BY <1>3, <1>4, <1>5, <1>7, <2>1 DEF Position
(* A field moves with its bytes.                                           *)
<1>9. ASSUME NEW f \in c.fields
      PROVE  /\ Moved(f) \in Field /\ Moved(f).type = f.type
             /\ Moved(f).offset = at + f.offset /\ f.offset \in Nat
             /\ \A a \in BytesOf(Moved(f)) : a - at \in BytesOf(f) /\ a \in Nat
             /\ BytesOf(Moved(f)) \subseteq at .. at' - 1
             /\ ValueIn(image', Moved(f)) = 0
  <2>1. f \in Field /\ f.offset \in Nat /\ f.type \in Types
    BY <1>2 DEF Field
  <2>2. Moved(f) \in Field /\ Moved(f).type = f.type /\ Moved(f).offset = at + f.offset
    BY <1>3, <2>1 DEF Field
  <2> DEFINE g == Moved(f)
  <2> HIDE DEF Moved
  <2>3. \A a \in BytesOf(g) : a - at \in BytesOf(f) /\ a \in Nat /\ at + (a - at) = a
    <3>1. CASE f.type = "i8"
      <4>1. BytesOf(g) = {at + f.offset} /\ BytesOf(f) = {f.offset}
        BY <2>1, <2>2, <3>1, FieldBytes
      <4>2. QED BY <1>3, <2>1, <4>1
    <3>2. CASE f.type # "i8"
      <4>1. /\ BytesOf(g) = {at + f.offset, at + f.offset + 1, at + f.offset + 2}
            /\ BytesOf(f) = {f.offset, f.offset + 1, f.offset + 2}
        BY <2>1, <2>2, <3>2, FieldBytes
      <4>2. QED BY <1>3, <2>1, <4>1
    <3>3. QED BY <3>1, <3>2
  <2>4. ASSUME NEW a \in BytesOf(g) PROVE a \in at .. at' - 1 /\ image'[a] = 0
    <3>1. a - at \in 0 .. n - 1 /\ at + (a - at) = a /\ a \in Nat
      BY <1>2, <2>3
    <3>2. image'[a] = 0
      BY <1>7, <3>1
    <3>3. a \in at .. at' - 1
      BY <1>1, <1>3, <1>7, <3>1
    <3>4. QED BY <3>2, <3>3
  <2>5. ValueIn(image', g) = 0
    <3>1. image'[g.offset] = 0
      BY <2>2, <2>4, FieldBytes
    <3>2. g.type # "i8" => image'[g.offset + 1] = 0 /\ image'[g.offset + 2] = 0
      BY <2>2, <2>4, FieldBytes
    <3>3. QED BY <3>1, <3>2 DEF ValueIn
  <2>6. QED BY <2>1, <2>2, <2>3, <2>4, <2>5
<1>10. Placed'
  <2>1. scalars' = [g \in DOMAIN scalars \cup new |->
                      IF g \in new THEN [value |-> 0, at |-> at + (g.offset - Offset)]
                      ELSE scalars[g]]
    BY DEF EmitZero
  <2> HIDE DEF new
  <2>2. /\ DOMAIN scalars' = DOMAIN scalars \cup new
        /\ \A g \in DOMAIN scalars : g \notin new => scalars'[g] = scalars[g]
        /\ \A g \in new : scalars'[g].value = 0 /\ scalars'[g].at = at + (g.offset - Offset)
    BY <2>1
  <2>3. \A g \in new : \E f \in c.fields : g = Moved(f)
    BY DEF new
  <2>4. FieldsApart(new)
    <3>1. ASSUME NEW g \in new, NEW h \in new, g # h
          PROVE  BytesOf(g) \cap BytesOf(h) = {}
      <4>1. PICK f \in c.fields : g = Moved(f)
        BY <2>3
      <4>2. PICK e \in c.fields : h = Moved(e)
        BY <2>3
      <4>3. BytesOf(f) \cap BytesOf(e) = {}
        BY <1>2, <3>1, <4>1, <4>2 DEF FieldsApart
      <4> HIDE DEF Moved
      <4>4. \A a \in BytesOf(g) : a - at \in BytesOf(f)
        BY <1>9, <4>1
      <4>5. \A a \in BytesOf(h) : a - at \in BytesOf(e)
        BY <1>9, <4>2
      <4>6. QED BY <4>3, <4>4, <4>5
    <3>2. QED BY <3>1 DEF FieldsApart
  <2>5. 0 \in Word /\ \A type \in Types : 0 < Values(type)
    BY SMT, WordIs DEF Values, Types, WordMod
  <2>6. ASSUME NEW g \in new
        PROVE  /\ g \in Field /\ BytesOf(g) \subseteq at .. at' - 1
               /\ scalars'[g].value \in Word
               /\ scalars'[g].value < Values(g.type)
               /\ ValueIn(image', g) = scalars'[g].value
               /\ scalars'[g].at = g.offset
    <3>1. PICK f \in c.fields : g = Moved(f)
      BY <2>3
    <3> HIDE DEF Moved
    <3>2. /\ g \in Field /\ BytesOf(g) \subseteq at .. at' - 1 /\ ValueIn(image', g) = 0
          /\ g.offset = at + f.offset /\ f.offset \in Nat /\ g.type \in Types
      BY <1>9, <3>1, FieldBytes
    <3>3. scalars'[g].value = 0 /\ scalars'[g].at = at + (g.offset - Offset)
      BY <2>2
    <3>4. at + (g.offset - Offset) = g.offset
      BY <1>3, <3>2
    <3>5. QED BY <2>5, <3>2, <3>3, <3>4
  <2>7. at' >= at
    BY <1>1, <1>3, <1>7
  <2>8. QED BY <1>3, <1>7, <2>2, <2>4, <2>6, <2>7, PlacedMore
<1>11. QED BY <1>6, <1>8, <1>10

LEMMA EmissionStep ==
  ASSUME AdjustmentFits, Nesting, Position, Placed, Emission
  PROVE  Nesting' /\ Position' /\ Placed'
<1>1. CASE EmitInt
  BY <1>1, IntPlaced
<1>2. CASE EmitZero
  BY <1>2, ZeroPlaced
<1>3. CASE EnterAggregate
  <2>1. Nesting' /\ Position'
    BY <1>3, EnterNested
  <2>2. Placed'
    BY <1>3 DEF EnterAggregate, Placed, ValueIn
  <2>3. QED BY <2>1, <2>2
<1>4. CASE PadElement
  <2>1. /\ Nesting' /\ Position' /\ Padding(Top.c, Top.i) \in Nat
        /\ EmitZeros(Padding(Top.c, Top.i)) /\ scalars' = scalars
    BY <1>4, PadNested DEF PadElement
  <2>2. Placed'
    BY <2>1, PadPlaced DEF Position
  <2>3. QED BY <2>1, <2>2
<1>5. QED BY <1>1, <1>2, <1>3, <1>4 DEF Emission

LEMMA EmissionStarts ==
  ASSUME EmissionInit
  PROVE  Nesting /\ Position /\ Placed
<1>1. root \in Constants /\ calling \in BOOLEAN
  BY InitializersAssumption DEF EmissionInit
<1>2. loops = <<>> /\ Len(loops) = 0 /\ loops \in Seq([c : Aggregates, offset : Nat, i : Nat])
  BY EmptySeq DEF EmissionInit
<1>3. Nesting
  BY <1>1, <1>2 DEF Nesting
<1>4. Position
  BY DEF EmissionInit, Position, Offset
<1>5. at = 0 /\ image = [a \in {} |-> 0] /\ 0 .. 0 - 1 = {} /\ DOMAIN scalars = {}
  BY DEF EmissionInit
<1>6. Placed
  BY <1>5 DEF Placed, FieldsApart
<1>7. QED BY <1>3, <1>4, <1>6
-----------------------------------------------------------------------------
(* The object that code sees starts with the values given for it.          *)
LEMMA EmittedHeld ==
  ASSUME AdjustmentFits, Nesting, Position, Placed, Typed, LoadsSeeLastStore, Load
  PROVE  Typed' /\ Held' /\ LoadsSeeLastStore'
<1> DEFINE o == EmittedObject
<1>1. loops = <<>> /\ ~calling /\ Start(o)
  BY DEF Load, Emitted
<1>2. root \in Constants /\ root.size \in Nat /\ at = EmittedSize(root) /\ at \in Nat
  BY <1>1, SizeIsNat DEF Nesting, Position, CV, Offset, EmittedSize, DirectiveBytes
<1>3. at <= root.size
  <2>1. CASE root.kind = "int"
    <3>1. root.size \in {1, 4}
      BY <1>2, <2>1, KindIs DEF AdjustmentFits, IsInt, IntAlloc
    <3>2. QED BY <1>2, <2>1, <3>1 DEF EmittedSize, DirectiveBytes
  <2>2. CASE root.kind # "int"
    BY <1>2, <2>2 DEF EmittedSize
  <2>3. QED BY <2>1, <2>2
<1>4. /\ o.size = root.size /\ o.fields = DOMAIN scalars
      /\ o.bytes = [a \in 0 .. root.size - 1 |-> IF a < at THEN image[a] ELSE 0]
      /\ o.values = [f \in DOMAIN scalars |-> scalars[f].value]
  BY DEF EmittedObject
<1> HIDE DEF o
<1>5. o.bytes \in [0 .. o.size - 1 -> Byte]
  <2>1. 0 \in Byte
    BY ByteIs
  <2>2. \A a \in 0 .. root.size - 1 : a < at => a \in 0 .. at - 1
    BY <1>2
  <2>3. \A a \in 0 .. root.size - 1 : (IF a < at THEN image[a] ELSE 0) \in Byte
    BY <2>1, <2>2 DEF Placed
  <2>4. QED BY <1>4, <2>3
<1>6. ASSUME NEW f \in o.fields
      PROVE  /\ f \in Field /\ BytesOf(f) \subseteq 0 .. o.size - 1
             /\ o.values[f] \in Word /\ o.values[f] < Values(f.type)
             /\ ValueIn(o.bytes, f) = o.values[f]
  <2>1. /\ f \in Field /\ BytesOf(f) \subseteq 0 .. at - 1
        /\ scalars[f].value \in Word /\ scalars[f].value < Values(f.type)
        /\ ValueIn(image, f) = scalars[f].value /\ o.values[f] = scalars[f].value
    BY <1>4 DEF Placed
  <2>2. \A a \in 0 .. at - 1 : a \in 0 .. root.size - 1 /\ a < at
    BY <1>2, <1>3
  <2>3. \A a \in BytesOf(f) : o.bytes[a] = image[a]
    BY <1>4, <2>1, <2>2
  <2>4. ValueIn(o.bytes, f) = ValueIn(image, f)
    BY <2>1, <2>3, ValueKept
  <2>5. QED BY <1>4, <2>1, <2>2, <2>4
<1>7. WellFormed(o)
  BY <1>2, <1>4, <1>6 DEF WellFormed, Placed
<1>8. o.values \in [o.fields -> Word]
  BY <1>4, <1>6
<1>9. QED BY <1>1, <1>5, <1>6, <1>7, <1>8, StartHeld
-----------------------------------------------------------------------------
EmissionIInv == Nesting /\ Position /\ Placed

LEMMA EmissionInductive ==
  ASSUME AdjustmentFits
  PROVE  Spec => []EmissionIInv
<1>1. Init => EmissionIInv
  BY EmissionStarts DEF Init, EmissionIInv
<1>2. EmissionIInv /\ [Next]_vars => EmissionIInv'
  <2> SUFFICES ASSUME EmissionIInv, [Next]_vars PROVE EmissionIInv'
    OBVIOUS
  <2>1. CASE EmitGlobalConstant
    BY <2>1, EmissionStep DEF EmissionIInv, EmitGlobalConstant
  <2>2. CASE UNCHANGED emissionVars
    BY <2>2 DEF emissionVars, EmissionIInv, Nesting, Position, Placed, CV, Offset, Top,
                ElementAt, OffsetAt
  <2>3. QED BY <2>1, <2>2 DEF Next, Load, Run, vars, emissionVars
<1>3. QED BY <1>1, <1>2, PTL DEF Spec

MemoryIInv == Typed /\ Held /\ LoadsSeeLastStore

LEMMA MemoryInductive ==
  ASSUME AdjustmentFits, LoadsWork
  PROVE  Spec => []MemoryIInv
<1>1. Init => MemoryIInv
  BY InitHeld DEF Init, MemoryIInv
<1>2. EmissionIInv /\ MemoryIInv /\ [Next]_vars => MemoryIInv'
  <2> SUFFICES ASSUME EmissionIInv, MemoryIInv, [Next]_vars PROVE MemoryIInv'
    OBVIOUS
  <2>1. Nesting /\ Position /\ Placed /\ Typed /\ Held /\ LoadsSeeLastStore
    BY DEF EmissionIInv, MemoryIInv
  <2>2. CASE Load
    BY <2>1, <2>2, EmittedHeld DEF MemoryIInv
  <2>3. CASE Run
    <3>1. ASSUME NEW f \in object.fields, NEW w \in Stored, store(f, w) PROVE MemoryIInv'
      <4>1. LoadsSeeLastStore'
        BY <2>1, <3>1 DEF store, LoadsSeeLastStore
      <4>2. QED BY <2>1, <3>1, <4>1, StoreHeld DEF MemoryIInv
    <3>2. ASSUME NEW f \in object.fields, NEW l \in Loads, load(f, l) PROVE MemoryIInv'
      BY <2>1, <3>2, LoadHeld DEF MemoryIInv
    <3>3. QED BY <2>3, <3>1, <3>2 DEF Run, Access
  <2>4. CASE UNCHANGED memoryVars
    BY <2>1, <2>4 DEF memoryVars, MemoryIInv, Typed, Held, LoadsSeeLastStore
  <2>5. QED BY <2>2, <2>3, <2>4 DEF Next, EmitGlobalConstant, vars, memoryVars
<1>3. QED BY <1>1, <1>2, EmissionInductive, PTL DEF Spec
-----------------------------------------------------------------------------
(* The variables keep their types, in the emission and at run time.        *)
THEOREM TypeCorrect ==
  ASSUME AdjustmentFits, LoadsWork
  PROVE  Spec => []TypeOK
<1>1. EmissionIInv /\ MemoryIInv => TypeOK
  <2> SUFFICES ASSUME EmissionIInv, MemoryIInv PROVE TypeOK
    OBVIOUS
  <2>1. Nesting /\ Position /\ Placed /\ Typed
    BY DEF EmissionIInv, MemoryIInv
  <2>2. \A f \in object.fields : Values(f.type) \in Nat
    BY <2>1, FieldPlaced DEF Values, Types, WordMod
  <2>3. \A f \in object.fields : last[f] \in 0 .. Values(f.type) - 1
    BY <2>1, <2>2 DEF Typed, Word
  <2>4. MemoryTypeOK
    BY <2>1, <2>3 DEF Typed, MemoryTypeOK, Byte
  <2>5. DOMAIN loops = 1 .. Len(loops)
    BY <2>1, LenProperties DEF Nesting
  <2>6. \A k \in DOMAIN loops : loops[k].offset \in Nat /\ loops[k].i \in DOMAIN loops[k].c.elements
    BY <2>1, <2>5, NestingShape, AggregateShape
  <2>7. EmissionTypeOK
    BY <2>1, <2>6 DEF Nesting, Position, Placed, EmissionTypeOK, Byte
  <2>8. QED BY <2>4, <2>7 DEF TypeOK
<1>2. QED BY EmissionInductive, MemoryInductive, <1>1, PTL

(* The assembler places every scalar at the offset from which compiled     *)
(* code loads it, through any nesting of structs and arrays whose elements *)
(* the adjustment for 24-bit integers fits.                                *)
THEOREM ScalarsAreAtTheirOffsets ==
  ASSUME AdjustmentFits
  PROVE  Spec => []ScalarsAtTheirOffsets
<1>1. EmissionIInv => ScalarsAtTheirOffsets
  BY DEF EmissionIInv, Placed, ScalarsAtTheirOffsets
<1>2. QED BY EmissionInductive, <1>1, PTL

(* Every aggregate that initialises a global takes the bytes that          *)
(* DataLayout gives it.                                                    *)
THEOREM AggregatesFillTheirSize ==
  ASSUME AdjustmentFits
  PROVE  Spec => []AggregateFillsItsSize
<1>1. EmissionIInv => AggregateFillsItsSize
  <2> SUFFICES ASSUME EmissionIInv, Emitted, root.kind # "int" PROVE at = root.size
    BY DEF AggregateFillsItsSize
  <2>1. CV = root /\ Offset = 0 /\ ~calling /\ EmittedSize(root) = root.size
    BY DEF Emitted, CV, Offset, EmittedSize
  <2>2. root.size \in Nat
    BY SizeIsNat DEF EmissionIInv, Nesting
  <2>3. QED BY <2>1, <2>2 DEF EmissionIInv, Position
<1>2. QED BY EmissionInductive, <1>1, PTL

(* From the directives to the loads: every load that has a working pattern *)
(* yields the value last stored to its field or the one the initialiser    *)
(* gives it, for any constants that the adjustment fits, any stored words  *)
(* and any contents of A.                                                  *)
THEOREM LoadsAlwaysSeeLastStore ==
  ASSUME AdjustmentFits, LoadsWork
  PROVE  Spec => []LoadsSeeLastStore
<1>1. MemoryIInv => LoadsSeeLastStore
  BY DEF MemoryIInv
<1>2. QED BY MemoryInductive, <1>1, PTL
=============================================================================
