----------------------------- MODULE SICMemory -----------------------------
(***************************************************************************)
(* Loads and stores of the fields of one object in byte memory: SelectAddr *)
(* and the patterns of SICInstrInfo.td choose between an address that the  *)
(* instruction holds ("addr": an offset from X, or the symbol of a global) *)
(* and a pointer in a register, which goes by way of MEMREG and indirect   *)
(* addressing ("reg").  The object lies in the frame, is a global, or is   *)
(* known by a pointer only; a field is a constant offset away.             *)
(* The machine is big-endian; LDCH and STCH move one byte, LD and ST three. *)
(***************************************************************************)
EXTENDS Integers, FiniteSets

CONSTANTS
  Bases,      (* where the object may lie                                   *)
  Stored,     (* the 24-bit words whose low bits are stored                 *)
  Loads,      (* the loads to look at: [type, ext, mode]                    *)
  MaxFields   (* bound: an object of more fields is only laid out           *)

WordMod == 16777216     \* 2^24
Word == 0 .. WordMod - 1

Types == {"i8", "i16", "i24"}
Values(type) ==     \* 2^8, 2^16, 2^24
  CASE type = "i8" -> 256 [] type = "i16" -> 65536 [] type = "i24" -> WordMod

LoadKind == [type : {"i8", "i16"}, ext : {"zext", "sext", "ext"}, mode : {"addr", "reg"}]
        \cup [type : {"i24"}, ext : {"none"}, mode : {"addr", "reg"}]

Field == [type : Types, offset : Nat]

ASSUME BasesAssumption  == Bases \subseteq {"frame", "global", "pointer"}
ASSUME StoredAssumption == Stored \subseteq Word
ASSUME LoadsAssumption  == Loads \subseteq LoadKind

(* The bytes a store to a field writes: a store of an i16 writes three.    *)
BytesOf(f) == f.offset .. f.offset + (IF f.type = "i8" THEN 0 ELSE 2)

(* No field is written by a store to another, which an array of i16 would  *)
(* not meet.                                                               *)
FieldsApart(fields) == \A f, g \in fields : f = g \/ BytesOf(f) \cap BytesOf(g) = {}

VARIABLES
  base,   (* where the object lies                                          *)
  object, (* the object: size, fields, initial bytes and values             *)
  mem,    (* its bytes                                                      *)
  A,      (* the accumulator                                                *)
  last,   (* the value last stored to each field                            *)
  got     (* the last load: [field, ext, value, expected]                   *)

memoryVars == <<base, object, mem, A, last, got>>

NoLoad == [field |-> "none"]
NoObject == [size |-> 0, fields |-> {}, bytes |-> [a \in {} |-> 0], values |-> [f \in {} |-> 0]]
-----------------------------------------------------------------------------
(* The operand of an access at a constant offset.                          *)

(* A frame index, alone or with an offset that fits 12 bits.               *)
SelectAddr(offset) == base = "frame" /\ offset \in 0 .. 4095

(* A bare symbol: an offset is not folded into the address of a global.    *)
IsGlob(offset) == base = "global" /\ offset = 0

(* Only the plain and the any-extending accesses have a form that holds a  *)
(* symbol (LDG, LDCHG, STG, STCHG); an i16 has none.                       *)
Mode(type, ext, offset) ==
  IF \/ SelectAddr(offset)
     \/ IsGlob(offset) /\ type # "i16" /\ ext \in {"none", "ext"}
    THEN "addr" ELSE "reg"
-----------------------------------------------------------------------------
(* LD and LDCH, ST and STCH.  LDCH leaves the upper bytes of A.            *)

LD(a) == (mem[a] * 65536) + (mem[a + 1] * 256) + mem[a + 2]
LDCH(a) == ((A \div 256) * 256) + mem[a]

WithWord_noMask(a, w) == [mem EXCEPT ![a] = w \div 65536, ![a + 1] = w \div 256,
                                     ![a + 2] = w % 256]

WithWord(a, w) == [mem EXCEPT ![a] = w \div 65536, ![a + 1] = (w \div 256) % 256,
                              ![a + 2] = w % 256]
WithByte(a, w) == [mem EXCEPT ![a] = w % 256]

(* SHIFTL rotates by as many bits as there are above the low ones, and     *)
(* SHIFTR brings them back with the sign: m values are the low bits.       *)
SignExtended(w, m) ==
  LET high    == WordMod \div m
      rotated == ((w % m) * high) + (w \div m)
      signed  == IF rotated >= WordMod \div 2 THEN rotated - WordMod ELSE rotated
  IN (signed \div high) % WordMod
-----------------------------------------------------------------------------
(* Stores: STCH for i8, ST for i24, and ST of the masked word for i16,     *)
(* which has a pattern for the operands of SelectAddr only.                *)

store(f, w) ==
  /\ f.type = "i16" => SelectAddr(f.offset)
  /\ A' = IF f.type = "i16" THEN w % 65536 ELSE w
  /\ mem' = IF f.type = "i8" THEN WithByte(f.offset, w) ELSE WithWord(f.offset, A')
  /\ last' = [last EXCEPT ![f] = w % Values(f.type)]
  /\ UNCHANGED <<base, object, got>>

(* What a load leaves in A.                                                *)
Loaded_sext16(type, ext, mode, a) ==
  CASE type = "i24" -> LD(a)
    [] type = "i8" /\ ext = "zext" -> LDCH(a) % 256
    [] type = "i8" /\ ext = "sext" -> SignExtended(LDCH(a), 65536)
    [] type = "i8" /\ ext = "ext"  -> LDCH(a)
    [] type = "i16" /\ ext \in {"zext", "ext"} -> LD(a)
    [] type = "i16" /\ ext = "sext" ->
         SignExtended(IF mode = "addr" THEN LD(a) ELSE LDCH(a), 65536)

(* AND with 255 keeps a byte.  The sign-extending load of an i16 through a *)
(* pointer uses LDCHIN.                                                    *)
Loaded(type, ext, mode, a) ==
  CASE type = "i24" -> LD(a)
    [] type = "i8" /\ ext = "zext" -> LDCH(a) % 256
    [] type = "i8" /\ ext = "sext" -> SignExtended(LDCH(a), 256)
    [] type = "i8" /\ ext = "ext"  -> LDCH(a)
    [] type = "i16" /\ ext \in {"zext", "ext"} -> LD(a)
    [] type = "i16" /\ ext = "sext" ->
         SignExtended(IF mode = "addr" THEN LD(a) ELSE LDCH(a), 65536)

load(f, l) ==
  /\ l.type = f.type
  /\ l.mode = Mode(l.type, l.ext, f.offset)
  /\ A' = Loaded(l.type, l.ext, l.mode, f.offset)
  /\ got' = [field |-> f, ext |-> l.ext, value |-> A', expected |-> last[f]]
  /\ UNCHANGED <<base, object, mem, last>>
-----------------------------------------------------------------------------
MemoryInit ==
  /\ base \in Bases
  /\ object = NoObject
  /\ mem = object.bytes
  /\ A = 0
  /\ last = object.values
  /\ got = NoLoad

(* The program is loaded.  A global starts with its initializer, and so    *)
(* does an object in the frame, to which it is copied.                     *)
Start(o) ==
  /\ object = NoObject
  /\ object' = o
  /\ mem' = o.bytes
  /\ last' = o.values
  /\ UNCHANGED <<base, A, got>>

Access ==
  /\ Cardinality(object.fields) <= MaxFields
  /\ \E f \in object.fields : \/ \E w \in Stored : store(f, w)
                              \/ \E l \in Loads : load(f, l)
-----------------------------------------------------------------------------
MemoryTypeOK ==
  /\ base \in Bases
  /\ mem \in [0 .. object.size - 1 -> 0 .. 255]
  /\ A \in Word
  /\ DOMAIN last = object.fields
  /\ \A f \in object.fields : last[f] \in 0 .. Values(f.type) - 1

(* The 24-bit value of v, one of m values, after the extension; an "ext"   *)
(* load leaves the upper bits unspecified.                                 *)
Extended(v, ext, m) ==
  IF ext = "sext" /\ v >= m \div 2 THEN v + WordMod - m ELSE v

(* A load yields the value last stored to its field, or the one the global *)
(* was emitted with, extended as it says, whatever was stored to the other *)
(* fields in between and whatever A held.                                  *)
LoadsSeeLastStore ==
  got # NoLoad =>
    LET m == Values(got.field.type)
    IN IF got.ext = "ext" THEN got.value % m = got.expected
       ELSE got.value = Extended(got.expected, got.ext, m)
=============================================================================
