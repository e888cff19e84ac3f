-------------------------- MODULE SICSelect_proofs --------------------------
(***************************************************************************)
(* Proofs about SICSelect, for every node, all 24-bit operands and all     *)
(* constants.  The argument has three parts.  The operations of the        *)
(* machine are related to arithmetic and to bits: what AND with a mask     *)
(* leaves, that or minus and is exclusive or, that a remainder survives a  *)
(* product that wraps.  Each pattern is then a straight sequence whose run *)
(* computes its node.  The inductive invariant says that the registers are *)
(* those that the executed part of the sequence makes.                     *)
(***************************************************************************)
EXTENDS SICSelect, SequenceTheorems, WellFoundedInduction, TLAPS
-----------------------------------------------------------------------------

(* A word is a number below 2^24, and half of the modulus is 2^23.         *)
LEMMA WordIs ==
  /\ WordMod = 2^24 /\ WordMod \in Nat /\ WordMod \div 2 = 2^23
  /\ \A w : w \in Word <=> w \in Nat /\ w < 2^24
<1>1. WordMod = 2^24 /\ WordMod \in Nat /\ WordMod \div 2 = 2^23
  BY SMT DEF WordMod
<1>2. \A n \in Nat : \A w : w \in 0 .. n - 1 <=> w \in Nat /\ w < n
  BY SMT
<1>3. \A w : w \in Word <=> w \in Nat /\ w < WordMod
  BY <1>1, <1>2 DEF Word
<1>4. QED BY <1>1, <1>3

(* The powers of two up to the width of a word are positive numbers, each  *)
(* twice the one before.                                                   *)
LEMMA PowNext ==
  ASSUME NEW i \in 0 .. 24
  PROVE  2^i \in Nat /\ 2^i >= 1 /\ 2^(i + 1) = 2 * 2^i
<1>0. CASE i = 0
  BY SMT, <1>0
<1>1. CASE i = 1
  BY SMT, <1>1
<1>2. CASE i = 2
  BY SMT, <1>2
<1>3. CASE i = 3
  BY SMT, <1>3
<1>4. CASE i = 4
  BY SMT, <1>4
<1>5. CASE i = 5
  BY SMT, <1>5
<1>6. CASE i = 6
  BY SMT, <1>6
<1>7. CASE i = 7
  BY SMT, <1>7
<1>8. CASE i = 8
  BY SMT, <1>8
<1>9. CASE i = 9
  BY SMT, <1>9
<1>10. CASE i = 10
  BY SMT, <1>10
<1>11. CASE i = 11
  BY SMT, <1>11
<1>12. CASE i = 12
  BY SMT, <1>12
<1>13. CASE i = 13
  BY SMT, <1>13
<1>14. CASE i = 14
  BY SMT, <1>14
<1>15. CASE i = 15
  BY SMT, <1>15
<1>16. CASE i = 16
  BY SMT, <1>16
<1>17. CASE i = 17
  BY SMT, <1>17
<1>18. CASE i = 18
  BY SMT, <1>18
<1>19. CASE i = 19
  BY SMT, <1>19
<1>20. CASE i = 20
  BY SMT, <1>20
<1>21. CASE i = 21
  BY SMT, <1>21
<1>22. CASE i = 22
  BY SMT, <1>22
<1>23. CASE i = 23
  BY SMT, <1>23
<1>24. CASE i = 24
  BY SMT, <1>24
<1> QED BY SMT, <1>0, <1>1, <1>2, <1>3, <1>4, <1>5, <1>6, <1>7, <1>8, <1>9,
           <1>10, <1>11, <1>12, <1>13, <1>14, <1>15, <1>16, <1>17, <1>18, <1>19, <1>20,
           <1>21, <1>22, <1>23, <1>24

(* The quotient and the remainder of a division by a positive number.      *)
LEMMA DivIs ==
  ASSUME NEW m \in Nat, m >= 1, NEW x \in Int
  PROVE  x = (m * (x \div m)) + (x % m) /\ x % m \in Nat /\ x % m < m /\ x \div m \in Int
BY SMT

(* They are the only ones with that equation.                              *)
LEMMA DivUnique ==
  ASSUME NEW m \in Nat, m >= 1, NEW q \in Int, NEW r \in Nat, r < m,
         NEW x \in Int, x = (m * q) + r
  PROVE  x \div m = q /\ x % m = r
<1>1. x = (m * (x \div m)) + (x % m) /\ x % m \in Nat /\ x % m < m /\ x \div m \in Int
  BY DivIs
<1>2. PICK d \in Int : d = x \div m
  BY <1>1
<1>3. PICK e \in Nat : e = x % m
  BY <1>1
<1>4. m * (q - d) = e - r
  BY SMT, <1>1, <1>2, <1>3
<1>5. ASSUME q - d >= 1 PROVE FALSE
  BY SMT, <1>1, <1>3, <1>4, <1>5
<1>6. ASSUME q - d <= -1 PROVE FALSE
  BY SMT, <1>1, <1>3, <1>4, <1>6
<1>7. QED BY SMT, <1>1, <1>2, <1>3, <1>4, <1>5, <1>6

(* A set of numbers that is not empty has a least one.                     *)
LEMMA NatMin ==
  ASSUME NEW S \in SUBSET Nat, S # {}
  PROVE  \E m \in S : \A i \in S : i >= m
<1>1. PICK m \in S : \A i \in S : <<i, m>> \notin OpToRel(<, Nat)
  BY WFMin, NatLessThanWellFounded, Zenon
<1>2. \A i \in S : i \in Nat /\ m \in Nat /\ ~ (i < m)
  BY <1>1 DEF OpToRel
<1>3. QED BY SMT, <1>2

(* A power of two is the product of two powers whose exponents add up to   *)
(* its own.                                                                *)
LEMMA PowSplit ==
  ASSUME NEW j \in 0 .. 24, NEW i \in 0 .. j
  PROVE  2^j = 2^i * 2^(j - i)
<1> DEFINE S == {n \in 0 .. j : 2^j # 2^n * 2^(j - n)}
<1>1. SUFFICES ASSUME S # {} PROVE FALSE
  OBVIOUS
<1>2. PICK m \in S : \A n \in S : n >= m
  <2>1. S \in SUBSET Nat
    BY SMT
  <2> HIDE DEF S
  <2>2. QED BY <1>1, <2>1, NatMin
<1>3. m \in 0 .. j /\ 2^j # 2^m * 2^(j - m)
  BY <1>2
<1>4. PICK w \in Nat : w = 2^j
  BY PowNext
<1>5. ASSUME m = 0 PROVE FALSE
  <2>1. 2^0 = 1 /\ j - 0 = j
    BY SMT
  <2>2. 1 * w = w
    BY SMT
  <2>3. QED BY <1>3, <1>4, <1>5, <2>1, <2>2
<1>6. m - 1 \in 0 .. j /\ ~ (m - 1 >= m)
  BY SMT, <1>3, <1>5
<1>7. 2^j = 2^(m - 1) * 2^(j - (m - 1))
  BY <1>2, <1>6
<1>8. /\ 2^(m - 1) \in Nat /\ 2^m = 2 * 2^(m - 1)
      /\ 2^(j - m) \in Nat /\ 2^(j - (m - 1)) = 2 * 2^(j - m)
  <2>1. m - 1 \in 0 .. 24 /\ (m - 1) + 1 = m /\ j - m \in 0 .. 24 /\ (j - m) + 1 = j - (m - 1)
    BY SMT, <1>3, <1>5
  <2>2. QED BY <2>1, PowNext
<1>9. PICK p \in Nat, q \in Nat : p = 2^(m - 1) /\ q = 2^(j - m)
  BY <1>8
<1>10. 2^j = p * (2 * q) /\ 2^j # (2 * p) * q
  BY <1>3, <1>7, <1>8, <1>9
<1>11. p * (2 * q) = (2 * p) * q
  BY SMT
<1>12. QED BY <1>10, <1>11

(* A number is cut at bit k into the part above, the bit and the part below. *)
Cut(x, k, t, b, r) ==
  /\ k \in 0 .. 23 /\ t \in Int /\ b \in {0, 1} /\ r \in Nat /\ r < 2^k
  /\ x = (2^k * ((2 * t) + b)) + r

(* The bit a number is cut at is the one Bit computes.                     *)
LEMMA BitFrom ==
  ASSUME NEW x, NEW k, NEW t, NEW b, NEW r, Cut(x, k, t, b, r)
  PROVE  Bit(x, k) = b
<1>0. k \in 0 .. 23 /\ k \in 0 .. 24 /\ t \in Int /\ b \in {0, 1} /\ r \in Nat
  BY SMT DEF Cut
<1>1. PICK p \in Nat : p = 2^k /\ p >= 1
  BY <1>0, PowNext
<1>2. PICK q \in Int : q = (2 * t) + b
  BY SMT, <1>0
<1>3. PICK y \in Int : y = (p * q) + r
  BY SMT, <1>0
<1>4. x = y /\ r < p
  BY <1>1, <1>2, <1>3 DEF Cut
<1>5. y \div p = q
  BY <1>0, <1>1, <1>3, <1>4, DivUnique
<1>6. q % 2 = b
  BY SMT, <1>0, <1>2
<1>7. QED BY <1>1, <1>4, <1>5, <1>6 DEF Bit

(* Every number can be cut at every bit.                                   *)
LEMMA BitParts ==
  ASSUME NEW k \in 0 .. 23, NEW x \in Nat
  PROVE  \E t \in Nat : /\ x = (2^k * ((2 * t) + Bit(x, k))) + (x % 2^k)
                        /\ Bit(x, k) \in {0, 1}
                        /\ x % 2^k \in Nat /\ x % 2^k < 2^k
<1>0. k \in 0 .. 24
  BY SMT
<1>1. PICK p \in Nat : p = 2^k /\ p >= 1
  BY <1>0, PowNext
<1>2. x = (p * (x \div p)) + (x % p) /\ x % p \in Nat /\ x % p < p /\ x \div p \in Int
  <2>1. x \in Int
    BY SMT
  <2>2. QED BY <1>1, <2>1, DivIs
<1>3. x \div p \in Nat
  BY SMT, <1>1
<1>4. PICK d \in Nat : d = x \div p
  BY <1>3
<1>5. d = (2 * (d \div 2)) + (d % 2) /\ d \div 2 \in Nat /\ d % 2 \in {0, 1}
  BY SMT
<1>6. Bit(x, k) = d % 2
  BY <1>1, <1>4 DEF Bit
<1>7. x = (2^k * ((2 * (d \div 2)) + Bit(x, k))) + (x % 2^k)
  BY <1>1, <1>2, <1>4, <1>5, <1>6
<1>8. QED BY <1>1, <1>2, <1>5, <1>6, <1>7

(* A bit is 0 or 1.                                                        *)
LEMMA BitIs ==
  ASSUME NEW k \in 0 .. 23, NEW x \in Nat
  PROVE  Bit(x, k) \in {0, 1}
BY BitParts

(* A number below 2^k has no bit k.                                        *)
LEMMA BitSmall ==
  ASSUME NEW k \in 0 .. 23, NEW x \in Nat, x < 2^k
  PROVE  Bit(x, k) = 0
<1>0. k \in 0 .. 24
  BY SMT
<1>1. PICK p \in Nat : p = 2^k /\ p >= 1
  BY <1>0, PowNext
<1>2. x = (p * ((2 * 0) + 0)) + x /\ x \in Int
  BY SMT
<1>3. Cut(x, k, 0, 0, x)
  BY SMT, <1>1, <1>2 DEF Cut
<1>4. QED BY <1>3, BitFrom, Zenon

(* A number is split in the w bits l and what is above them, h.            *)
Split(x, w, h, l) == /\ w \in 0 .. 24 /\ h \in Nat /\ l \in Nat /\ l < 2^w
                     /\ x = (2^w * h) + l

(* The bits below the split are those of the low part.                     *)
LEMMA BitBelow ==
  ASSUME NEW x, NEW w, NEW h, NEW l, Split(x, w, h, l), NEW k \in 0 .. w - 1
  PROVE  Bit(x, k) = Bit(l, k)
<1>0. w \in 0 .. 24 /\ h \in Nat /\ l \in Nat /\ x = (2^w * h) + l
  BY DEF Split
<1>1. k \in 0 .. 23 /\ k \in 0 .. 24 /\ w - (k + 1) \in 0 .. 24 /\ k + 1 \in 0 .. w /\ w \in 0 .. 24
  BY SMT, <1>0
<1>2. PICK t \in Nat : /\ l = (2^k * ((2 * t) + Bit(l, k))) + (l % 2^k)
                       /\ Bit(l, k) \in {0, 1}
                       /\ l % 2^k \in Nat /\ l % 2^k < 2^k
  BY <1>0, <1>1, BitParts
<1>3. PICK p \in Nat : p = 2^k /\ 2^(k + 1) = 2 * p
  BY <1>1, PowNext
<1>4. PICK s \in Nat : s = 2^(w - (k + 1))
  BY <1>1, PowNext
<1>5. 2^w = (2 * p) * s
  BY <1>1, <1>3, <1>4, PowSplit
<1>6. PICK b \in {0, 1}, r \in Nat : b = Bit(l, k) /\ r = l % 2^k
  BY <1>2
<1>7. x = (((2 * p) * s) * h) + ((p * ((2 * t) + b)) + r)
  BY <1>0, <1>2, <1>3, <1>5, <1>6
<1>8. (((2 * p) * s) * h) + ((p * ((2 * t) + b)) + r) = (p * ((2 * (t + (s * h))) + b)) + r
  BY SMT, <1>0
<1>9. PICK u \in Int : u = t + (s * h)
  BY SMT, <1>0
<1>10. Cut(x, k, u, b, r)
  BY <1>1, <1>2, <1>3, <1>6, <1>7, <1>8, <1>9 DEF Cut
<1>11. QED BY <1>6, <1>10, BitFrom, Zenon

(* The bits from the split on are those of the high part.                  *)
LEMMA BitAbove ==
  ASSUME NEW x, NEW w, NEW h, NEW l, Split(x, w, h, l), NEW k \in w .. 23
  PROVE  Bit(x, k) = Bit(h, k - w)
<1>0. w \in 0 .. 24 /\ h \in Nat /\ l \in Nat /\ l < 2^w /\ x = (2^w * h) + l
  BY DEF Split
<1>1. k - w \in 0 .. 23 /\ k - w \in 0 .. 24 /\ w \in 0 .. 24 /\ k \in 0 .. 24 /\ w \in 0 .. k /\ k \in 0 .. 23
  BY SMT, <1>0
<1>2. PICK t \in Nat : /\ h = (2^(k - w) * ((2 * t) + Bit(h, k - w))) + (h % 2^(k - w))
                       /\ Bit(h, k - w) \in {0, 1}
                       /\ h % 2^(k - w) \in Nat /\ h % 2^(k - w) < 2^(k - w)
  BY <1>0, <1>1, BitParts
<1>3. PICK p \in Nat : p = 2^w
  BY <1>1, PowNext
<1>4. PICK s \in Nat : s = 2^(k - w)
  BY <1>1, PowNext
<1>5. 2^k = p * s
  BY <1>1, <1>3, <1>4, PowSplit
<1>6. PICK b \in {0, 1}, r \in Nat : b = Bit(h, k - w) /\ r = h % 2^(k - w)
  BY <1>2
<1>7. x = (p * ((s * ((2 * t) + b)) + r)) + l
  BY <1>0, <1>2, <1>3, <1>4, <1>6
<1>8. (p * ((s * ((2 * t) + b)) + r)) + l = ((p * s) * ((2 * t) + b)) + ((p * r) + l)
  BY SMT, <1>0
<1>9. (p * r) + l \in Nat /\ (p * r) + l < p * s
  <2>1. r <= s - 1 /\ l < p /\ s - 1 \in Int
    BY SMT, <1>0, <1>2, <1>3, <1>4, <1>6
  <2>2. p * r <= p * (s - 1)
    BY SMT, <2>1
  <2>3. p * (s - 1) = (p * s) - p
    BY SMT
  <2>4. QED BY SMT, <1>0, <2>1, <2>2, <2>3
<1>10. PICK v \in Nat : v = (p * r) + l /\ v < p * s
  BY <1>9
<1>11. Cut(x, k, t, b, v)
  <2>1. x = (2^k * ((2 * t) + b)) + v /\ v < 2^k
    BY <1>5, <1>7, <1>8, <1>10
  <2>2. QED BY <1>1, <2>1 DEF Cut
<1>12. QED BY <1>6, <1>11, BitFrom, Zenon

(* The low k + 1 bits of a number are its bit k and its low k bits.        *)
LEMMA RemNext ==
  ASSUME NEW k \in 0 .. 23, NEW x \in Nat
  PROVE  x % 2^(k + 1) = (2^k * Bit(x, k)) + (x % 2^k)
<1>0. k \in 0 .. 24 /\ k + 1 \in 0 .. 24
  BY SMT
<1>1. PICK p \in Nat : p = 2^k /\ p >= 1 /\ 2^(k + 1) = 2 * p
  BY <1>0, PowNext
<1>2. PICK t \in Nat : /\ x = (2^k * ((2 * t) + Bit(x, k))) + (x % 2^k)
                       /\ Bit(x, k) \in {0, 1}
                       /\ x % 2^k \in Nat /\ x % 2^k < 2^k
  BY BitParts
<1>3. PICK b \in {0, 1}, r \in Nat : b = Bit(x, k) /\ r = x % 2^k
  BY <1>2
<1>4. (p * ((2 * t) + b)) + r = ((2 * p) * t) + ((p * b) + r)
  BY SMT
<1>5. p * b \in Nat /\ p * b <= p
  BY SMT
<1>6. r < p
  BY <1>1, <1>2, <1>3
<1>7. PICK v \in Nat : v = (p * b) + r /\ v < 2 * p
  BY SMT, <1>5, <1>6
<1>8. PICK q \in Nat : q = 2 * p /\ q >= 1
  BY SMT, <1>1
<1>9. x = (q * t) + v /\ x \in Int /\ t \in Int /\ v < q
  BY <1>1, <1>2, <1>3, <1>4, <1>7, <1>8
<1>10. x % q = v
  BY <1>8, <1>9, DivUnique
<1>11. QED BY <1>1, <1>3, <1>7, <1>8, <1>10

(* Words with the same bits are the same word.                             *)
LEMMA SameBits ==
  ASSUME NEW x \in Nat, NEW y \in Nat, x < 2^24, y < 2^24,
         \A k \in 0 .. 23 : Bit(x, k) = Bit(y, k)
  PROVE  x = y
<1> DEFINE S == {n \in 0 .. 24 : x % 2^n # y % 2^n}
<1>1. SUFFICES ASSUME S # {} PROVE FALSE
  <2>1. 24 \notin S
    BY <1>1
  <2>2. 24 \in 0 .. 24
    BY SMT
  <2>3. x % 2^24 = y % 2^24
    BY <2>1, <2>2
  <2>4. QED BY SMT, <2>3
<1>2. PICK m \in S : \A n \in S : n >= m
  <2>1. S \in SUBSET Nat
    BY SMT
  <2> HIDE DEF S
  <2>2. QED BY <1>1, <2>1, NatMin
<1>3. m \in 0 .. 24 /\ x % 2^m # y % 2^m
  BY <1>2
<1>4. ASSUME m = 0 PROVE FALSE
  <2>1. 2^0 = 1 /\ x % 1 = y % 1
    BY SMT
  <2>2. QED BY <1>3, <1>4, <2>1
<1>5. m - 1 \in 0 .. 23 /\ m - 1 \in 0 .. 24 /\ ~ (m - 1 >= m) /\ (m - 1) + 1 = m
  BY SMT, <1>3, <1>4
<1>6. x % 2^(m - 1) = y % 2^(m - 1) /\ Bit(x, m - 1) = Bit(y, m - 1)
  BY <1>2, <1>5
<1>7. /\ x % 2^m = (2^(m - 1) * Bit(x, m - 1)) + (x % 2^(m - 1))
      /\ y % 2^m = (2^(m - 1) * Bit(y, m - 1)) + (y % 2^(m - 1))
  BY <1>5, RemNext
<1>8. QED BY <1>3, <1>6, <1>7

(* A number of w bits.                                                     *)
Below(v, w) == v \in Nat /\ v < 2^w

(* c, o and x are the and, the or and the exclusive or of w bits of a and b. *)
Bitwise(w, a, b, c, o, x) ==
  /\ Below(a, w) /\ Below(b, w) /\ Below(c, w) /\ Below(o, w) /\ Below(x, w)
  /\ o = a + b - c /\ x = o - c
  /\ \A k \in 0 .. w - 1 :
       /\ Bit(c, k) = 1 <=> Bit(a, k) = 1 /\ Bit(b, k) = 1
       /\ Bit(o, k) = 1 <=> Bit(a, k) = 1 \/ Bit(b, k) = 1
       /\ Bit(x, k) = 1 <=> Bit(a, k) # Bit(b, k)

(* Two halves of w bits make 2w bits, whose and, or and exclusive or are   *)
(* made from those of the halves.                                          *)
LEMMA BitwiseJoin ==
  ASSUME NEW w \in 1 .. 12, NEW W \in Nat, W = 2^w,
         NEW a, NEW b, NEW c, NEW o, NEW x, Bitwise(w, a, b, c, o, x),
         NEW A, NEW B, NEW C, NEW O, NEW X, Bitwise(w, A, B, C, O, X)
  PROVE  Bitwise(2 * w, (W * A) + a, (W * B) + b, (W * C) + c, (W * O) + o, (W * X) + x)
<1>1. /\ a \in Nat /\ b \in Nat /\ c \in Nat /\ o \in Nat /\ x \in Nat
      /\ a < W /\ b < W /\ c < W /\ o < W /\ x < W
      /\ A \in Nat /\ B \in Nat /\ C \in Nat /\ O \in Nat /\ X \in Nat
      /\ A < W /\ B < W /\ C < W /\ O < W /\ X < W
  BY DEF Bitwise, Below
<1>2. \A v, V \in Nat : v < W /\ V < W => Below((W * V) + v, 2 * w)
  <2>1. 2^(2 * w) = W * W
    <3>1. 2 * w \in 0 .. 24 /\ w \in 0 .. 2 * w /\ (2 * w) - w = w
      BY SMT
    <3>2. QED BY <3>1, PowSplit
  <2>2. TAKE v \in Nat, V \in Nat
  <2>3. HAVE v < W /\ V < W
  <2>4. V <= W - 1 /\ W - 1 \in Int
    BY SMT, <2>3
  <2>5. W * V <= W * (W - 1)
    BY SMT, <2>4
  <2>6. W * (W - 1) = (W * W) - W
    BY SMT
  <2>7. QED BY SMT, <2>1, <2>3, <2>5, <2>6 DEF Below
<1>3. \A v, V \in Nat : v < W =>
        \A k \in 0 .. (2 * w) - 1 :
          Bit((W * V) + v, k) = IF k < w THEN Bit(v, k) ELSE Bit(V, k - w)
  <2>1. TAKE v \in Nat, V \in Nat
  <2>2. HAVE v < W
  <2>3. TAKE k \in 0 .. (2 * w) - 1
  <2>4. Split((W * V) + v, w, V, v)
    BY SMT, <2>2 DEF Split
  <2>5. CASE k < w
    <3>1. k \in 0 .. w - 1
      BY SMT, <2>5
    <3>2. QED BY <3>1, <2>4, <2>5, BitBelow
  <2>6. CASE ~ (k < w)
    <3>1. k \in w .. 23
      BY SMT, <2>6
    <3>2. QED BY <3>1, <2>4, <2>6, BitAbove
  <2>7. QED BY <2>5, <2>6
<1>4. \A k \in 0 .. (2 * w) - 1 : (k < w /\ k \in 0 .. w - 1) \/ (~ (k < w) /\ k - w \in 0 .. w - 1)
  BY SMT
<1>5. /\ (W * O) + o = ((W * A) + a) + ((W * B) + b) - ((W * C) + c)
      /\ (W * X) + x = ((W * O) + o) - ((W * C) + c)
  <2>1. o = a + b - c /\ x = o - c /\ O = A + B - C /\ X = O - C
    BY DEF Bitwise
  <2>2. /\ W * (A + B - C) = (W * A) + (W * B) - (W * C)
        /\ W * (O - C) = (W * O) - (W * C)
    BY SMT, <1>1
  <2>3. W * O = (W * A) + (W * B) - (W * C) /\ W * X = (W * O) - (W * C)
    BY <2>1, <2>2
  <2>4. /\ W * A \in Int /\ W * B \in Int /\ W * C \in Int
    BY SMT, <1>1
  <2>5. PICK p \in Int, q \in Int, r \in Int : p = W * A /\ q = W * B /\ r = W * C
    BY <2>4
  <2>6. /\ W * O = p + q - r /\ W * X = (p + q - r) - r
    BY <2>3, <2>5
  <2>7. /\ (p + q - r) + (a + b - c) = (p + a) + (q + b) - (r + c)
        /\ ((p + q - r) - r) + ((a + b - c) - c) = ((p + q - r) + (a + b - c)) - (r + c)
    BY SMT, <1>1
  <2>8. QED BY <2>1, <2>5, <2>6, <2>7
<1>6. QED
  <2>1. /\ Below((W * A) + a, 2 * w) /\ Below((W * B) + b, 2 * w)
        /\ Below((W * C) + c, 2 * w) /\ Below((W * O) + o, 2 * w)
        /\ Below((W * X) + x, 2 * w)
    BY <1>1, <1>2
  <2>2. ASSUME NEW k \in 0 .. (2 * w) - 1
        PROVE  /\ Bit((W * C) + c, k) = 1 <=> Bit((W * A) + a, k) = 1 /\ Bit((W * B) + b, k) = 1
               /\ Bit((W * O) + o, k) = 1 <=> Bit((W * A) + a, k) = 1 \/ Bit((W * B) + b, k) = 1
               /\ Bit((W * X) + x, k) = 1 <=> Bit((W * A) + a, k) # Bit((W * B) + b, k)
    <3>1. CASE k < w /\ k \in 0 .. w - 1
      <4>1. /\ Bit((W * A) + a, k) = Bit(a, k) /\ Bit((W * B) + b, k) = Bit(b, k)
            /\ Bit((W * C) + c, k) = Bit(c, k) /\ Bit((W * O) + o, k) = Bit(o, k)
            /\ Bit((W * X) + x, k) = Bit(x, k)
        BY <3>1, <1>1, <1>3
      <4>2. QED BY <3>1, <4>1 DEF Bitwise
    <3>2. CASE ~ (k < w) /\ k - w \in 0 .. w - 1
      <4>1. /\ Bit((W * A) + a, k) = Bit(A, k - w) /\ Bit((W * B) + b, k) = Bit(B, k - w)
            /\ Bit((W * C) + c, k) = Bit(C, k - w) /\ Bit((W * O) + o, k) = Bit(O, k - w)
            /\ Bit((W * X) + x, k) = Bit(X, k - w)
        BY <3>2, <1>1, <1>3
      <4>2. QED BY <3>2, <4>1 DEF Bitwise
    <3>3. QED BY <1>4, <3>1, <3>2
  <2>3. QED BY <1>5, <2>1, <2>2 DEF Bitwise

(* And3 is the and of three bits.                                          *)
LEMMA And3Bitwise ==
  ASSUME NEW a \in Nat, NEW b \in Nat, a < 8, b < 8
  PROVE  Bitwise(3, a, b, And3(a, b), a + b - And3(a, b), (a + b - And3(a, b)) - And3(a, b))
BY SMTT(60) DEF Bitwise, Below, And3, Bit

(* And6 is the and of six bits.                                            *)
LEMMA And6Bitwise ==
  ASSUME NEW a \in Nat, NEW b \in Nat, a < 64, b < 64
  PROVE  Bitwise(6, a, b, And6(a, b), a + b - And6(a, b), (a + b - And6(a, b)) - And6(a, b))
<1> DEFINE al == a % 8  ah == a \div 8  bl == b % 8  bh == b \div 8
           l == And3(al, bl)  h == And3(ah, bh)
<1>1. /\ al \in Nat /\ al < 8 /\ ah \in Nat /\ ah < 8 /\ a = (8 * ah) + al
      /\ bl \in Nat /\ bl < 8 /\ bh \in Nat /\ bh < 8 /\ b = (8 * bh) + bl
  BY SMT
<1>2. And6(a, b) = (8 * h) + l
  BY DEF And6
<1> HIDE DEF al, ah, bl, bh, l, h
<1>3. /\ Bitwise(3, al, bl, l, al + bl - l, (al + bl - l) - l)
      /\ Bitwise(3, ah, bh, h, ah + bh - h, (ah + bh - h) - h)
  BY <1>1, And3Bitwise DEF l, h
<1>4. 8 \in Nat /\ 8 = 2^3 /\ 3 \in 1 .. 12 /\ 2 * 3 = 6
  BY SMT
<1>5. Bitwise(6, (8 * ah) + al, (8 * bh) + bl, (8 * h) + l,
              (8 * (ah + bh - h)) + (al + bl - l),
              (8 * ((ah + bh - h) - h)) + ((al + bl - l) - l))
  BY <1>3, <1>4, BitwiseJoin
<1>6. l \in Nat /\ h \in Nat
  BY <1>3 DEF Bitwise, Below
<1>7. /\ (8 * (ah + bh - h)) + (al + bl - l) = a + b - And6(a, b)
      /\ (8 * ((ah + bh - h) - h)) + ((al + bl - l) - l) = (a + b - And6(a, b)) - And6(a, b)
  BY SMT, <1>1, <1>2, <1>6
<1>8. QED BY <1>1, <1>2, <1>5, <1>7

(* And12 is the and of twelve bits.                                        *)
LEMMA And12Bitwise ==
  ASSUME NEW a \in Nat, NEW b \in Nat, a < 2^12, b < 2^12
  PROVE  Bitwise(12, a, b, And12(a, b), a + b - And12(a, b), (a + b - And12(a, b)) - And12(a, b))
<1> DEFINE al == a % 64  ah == a \div 64  bl == b % 64  bh == b \div 64
           l == And6(al, bl)  h == And6(ah, bh)
<1>1. /\ al \in Nat /\ al < 64 /\ ah \in Nat /\ ah < 64 /\ a = (64 * ah) + al
      /\ bl \in Nat /\ bl < 64 /\ bh \in Nat /\ bh < 64 /\ b = (64 * bh) + bl
  BY SMT
<1>2. And12(a, b) = (64 * h) + l
  BY DEF And12
<1> HIDE DEF al, ah, bl, bh, l, h
<1>3. /\ Bitwise(6, al, bl, l, al + bl - l, (al + bl - l) - l)
      /\ Bitwise(6, ah, bh, h, ah + bh - h, (ah + bh - h) - h)
  BY <1>1, And6Bitwise DEF l, h
<1>4. 64 \in Nat /\ 64 = 2^6 /\ 6 \in 1 .. 12 /\ 2 * 6 = 12
  BY SMT
<1>5. Bitwise(12, (64 * ah) + al, (64 * bh) + bl, (64 * h) + l,
              (64 * (ah + bh - h)) + (al + bl - l),
              (64 * ((ah + bh - h) - h)) + ((al + bl - l) - l))
  BY <1>3, <1>4, BitwiseJoin
<1>6. l \in Nat /\ h \in Nat
  BY <1>3 DEF Bitwise, Below
<1>7. /\ (64 * (ah + bh - h)) + (al + bl - l) = a + b - And12(a, b)
      /\ (64 * ((ah + bh - h) - h)) + ((al + bl - l) - l) = (a + b - And12(a, b)) - And12(a, b)
  BY SMT, <1>1, <1>2, <1>6
<1>8. QED BY <1>1, <1>2, <1>5, <1>7

(* And is the and of words, bit by bit; a + b - And(a, b) is their or, and *)
(* what is left of it without the and their exclusive or. The pattern of   *)
(* xor rests on this.                                                      *)
LEMMA AndBitwise ==
  ASSUME NEW a \in Nat, NEW b \in Nat, a < 2^24, b < 2^24
  PROVE  Bitwise(24, a, b, And(a, b), a + b - And(a, b), (a + b - And(a, b)) - And(a, b))
<1> DEFINE al == a % 4096  ah == a \div 4096  bl == b % 4096  bh == b \div 4096
           l == And12(al, bl)  h == And12(ah, bh)
<1>1. /\ al \in Nat /\ al < 4096 /\ ah \in Nat /\ ah < 4096 /\ a = (4096 * ah) + al
      /\ bl \in Nat /\ bl < 4096 /\ bh \in Nat /\ bh < 4096 /\ b = (4096 * bh) + bl
  BY SMT
<1>2. And(a, b) = (4096 * h) + l
  BY DEF And
<1> HIDE DEF al, ah, bl, bh, l, h
<1>3. /\ Bitwise(12, al, bl, l, al + bl - l, (al + bl - l) - l)
      /\ Bitwise(12, ah, bh, h, ah + bh - h, (ah + bh - h) - h)
  BY <1>1, And12Bitwise DEF l, h
<1>4. 4096 \in Nat /\ 4096 = 2^12 /\ 12 \in 1 .. 12 /\ 2 * 12 = 24
  BY SMT
<1>5. Bitwise(24, (4096 * ah) + al, (4096 * bh) + bl, (4096 * h) + l,
              (4096 * (ah + bh - h)) + (al + bl - l),
              (4096 * ((ah + bh - h) - h)) + ((al + bl - l) - l))
  BY <1>3, <1>4, BitwiseJoin
<1>6. l \in Nat /\ h \in Nat
  BY <1>3 DEF Bitwise, Below
<1>7. /\ (4096 * (ah + bh - h)) + (al + bl - l) = a + b - And(a, b)
      /\ (4096 * ((ah + bh - h) - h)) + ((al + bl - l) - l) = (a + b - And(a, b)) - And(a, b)
  BY SMT, <1>1, <1>2, <1>6
<1>8. QED BY <1>1, <1>2, <1>5, <1>7

(* The mask 2^j - 1 has the bits below j.                                  *)
LEMMA LowMaskBit ==
  ASSUME NEW j \in 0 .. 24, NEW k \in 0 .. 23, NEW m \in Nat, m = 2^j - 1
  PROVE  Bit(m, k) = IF k < j THEN 1 ELSE 0
<1>1. CASE k < j
  <2>1. k \in 0 .. 24 /\ j - (k + 1) \in 0 .. 24 /\ k + 1 \in 0 .. j
    BY SMT, <1>1
  <2>2. PICK p \in Nat : p = 2^k /\ p >= 1 /\ 2^(k + 1) = 2 * p
    BY <2>1, PowNext
  <2>3. PICK s \in Nat : s = 2^(j - (k + 1)) /\ s >= 1
    BY <2>1, PowNext
  <2>4. 2^j = (2 * p) * s
    BY <2>1, <2>2, <2>3, PowSplit
  <2>5. PICK t \in Int, r \in Nat : t = s - 1 /\ r = p - 1 /\ r < p
    BY SMT, <2>2, <2>3
  <2>6. ((2 * p) * s) - 1 = (p * ((2 * (s - 1)) + 1)) + (p - 1)
    BY SMT
  <2>7. Cut(m, k, t, 1, r)
    <3>1. m = (2^k * ((2 * t) + 1)) + r /\ r < 2^k
      BY <2>2, <2>4, <2>5, <2>6
    <3>2. 1 \in {0, 1}
      OBVIOUS
    <3>3. QED BY <3>1, <3>2 DEF Cut
  <2>8. QED BY <1>1, <2>7, BitFrom, Zenon
<1>2. CASE ~ (k < j)
  <2>1. j \in 0 .. k /\ j \in 0 .. 24 /\ k \in 0 .. 24 /\ k - j \in 0 .. 24
    BY SMT, <1>2
  <2>2. PICK p \in Nat : p = 2^j /\ p >= 1
    BY <2>1, PowNext
  <2>3. PICK s \in Nat : s = 2^(k - j) /\ s >= 1
    BY <2>1, PowNext
  <2>4. 2^k = p * s
    BY <2>1, <2>2, <2>3, PowSplit
  <2>5. p <= p * s
    BY SMT, <2>3
  <2>6. m < 2^k
    BY SMT, <2>2, <2>4, <2>5
  <2>7. QED BY <1>2, <2>6, BitSmall
<1>3. QED BY <1>1, <1>2

(* The remainder modulo 2^j has the bits below j.                          *)
LEMMA RemBit ==
  ASSUME NEW x \in Nat, NEW j \in 0 .. 24, NEW k \in 0 .. 23
  PROVE  Bit(x % 2^j, k) = IF k < j THEN Bit(x, k) ELSE 0
<1>1. PICK p \in Nat : p = 2^j /\ p >= 1
  BY PowNext
<1>2. x \in Int
  BY SMT
<1>3. x = (p * (x \div p)) + (x % p) /\ x % p \in Nat /\ x % p < p
  BY <1>1, <1>2, DivIs
<1>4. x \div p \in Nat
  BY SMT, <1>1
<1>5. Split(x, j, x \div p, x % p)
  BY <1>1, <1>3, <1>4 DEF Split
<1>6. CASE k < j
  <2>1. k \in 0 .. j - 1
    BY SMT, <1>6
  <2>2. QED BY <1>1, <1>5, <1>6, <2>1, BitBelow
<1>7. CASE ~ (k < j)
  <2>1. j \in 0 .. k /\ j \in 0 .. 24 /\ k \in 0 .. 24 /\ k - j \in 0 .. 24
    BY SMT, <1>7
  <2>3. PICK s \in Nat : s = 2^(k - j) /\ s >= 1
    BY <2>1, PowNext
  <2>4. 2^k = p * s
    BY <2>1, <1>1, <2>3, PowSplit
  <2>5. p <= p * s
    BY SMT, <2>3
  <2>6. x % p < 2^k
    BY SMT, <1>3, <2>4, <2>5
  <2>7. QED BY <1>1, <1>3, <1>7, <2>6, BitSmall
<1>8. QED BY <1>6, <1>7

(* The and with the mask of the low j bits is the remainder modulo 2^j:    *)
(* the AND of srl and of setcc.                                            *)
LEMMA AndLow ==
  ASSUME NEW x \in Nat, x < 2^24, NEW j \in 0 .. 24, NEW m \in Nat, m = 2^j - 1
  PROVE  And(x, m) = x % 2^j
<1>1. PICK p \in Nat : p = 2^j /\ p >= 1
  BY PowNext
<1>2. m < 2^24
  <2>1. 24 - j \in 0 .. 24
    BY SMT
  <2>2. PICK s \in Nat : s = 2^(24 - j) /\ s >= 1
    BY <2>1, PowNext
  <2>3. 24 \in 0 .. 24 /\ j \in 0 .. 24
    BY SMT
  <2>4. 2^24 = p * s
    BY <1>1, <2>2, <2>3, PowSplit
  <2>5. p <= p * s
    BY SMT, <2>2
  <2>6. QED BY SMT, <1>1, <2>4, <2>5
<1>3. Bitwise(24, x, m, And(x, m), x + m - And(x, m), (x + m - And(x, m)) - And(x, m))
  BY <1>2, AndBitwise
<1>4. PICK c \in Nat : c = And(x, m) /\ c < 2^24
  BY <1>3 DEF Bitwise, Below
<1>5. PICK r \in Nat : r = x % 2^j /\ r <= x
  <2>1. x % p \in Nat /\ x % p <= x
    BY SMT, <1>1
  <2>2. QED BY <1>1, <2>1
<1>6. r < 2^24
  BY SMT, <1>5
<1>7. ASSUME NEW k \in 0 .. 23
      PROVE  Bit(c, k) = Bit(r, k)
  <2>1. Bit(c, k) = 1 <=> Bit(x, k) = 1 /\ Bit(m, k) = 1
    <3>1. k \in 0 .. 24 - 1
      BY SMT
    <3>2. QED BY <1>3, <1>4, <3>1 DEF Bitwise
  <2>2. Bit(m, k) = (IF k < j THEN 1 ELSE 0) /\ Bit(r, k) = (IF k < j THEN Bit(x, k) ELSE 0)
    BY <1>5, LowMaskBit, RemBit
  <2>3. Bit(c, k) \in {0, 1} /\ Bit(x, k) \in {0, 1}
    BY BitIs
  <2>4. QED BY <2>1, <2>2, <2>3
<1>8. c = r
  BY <1>4, <1>6, <1>7, SameBits
<1>9. QED BY <1>4, <1>5, <1>8

(* The mask 2^24 - 2^j has the bits from j on.                             *)
LEMMA HighMaskBit ==
  ASSUME NEW j \in 0 .. 23, NEW k \in 0 .. 23, NEW m \in Nat, m = 2^24 - 2^j
  PROVE  Bit(m, k) = IF k < j THEN 0 ELSE 1
<1>1. 24 - j \in 0 .. 24 /\ 24 \in 0 .. 24 /\ j \in 0 .. 24
  BY SMT
<1>2. PICK p \in Nat : p = 2^j /\ p >= 1
  BY <1>1, PowNext
<1>3. PICK q \in Nat : q = 2^(24 - j) /\ q >= 1
  BY <1>1, PowNext
<1>4. 2^24 = p * q
  BY <1>1, <1>2, <1>3, PowSplit
<1>5. PICK u \in Nat : u = q - 1
  BY SMT, <1>3
<1>6. m = (p * u) + 0
  <2>1. (p * q) - p = (p * (q - 1)) + 0
    BY SMT
  <2>2. QED BY <1>2, <1>4, <1>5, <2>1
<1>7. Split(m, j, u, 0)
  BY SMT, <1>1, <1>2, <1>6 DEF Split
<1>8. CASE k < j
  <2>1. k \in 0 .. j - 1 /\ k \in 0 .. 24 /\ 0 \in Nat
    BY SMT, <1>8
  <2>2. Bit(0, k) = 0
    <3>1. PICK r \in Nat : r = 2^k /\ r >= 1
      BY <2>1, PowNext
    <3>2. 0 < 2^k
      BY SMT, <3>1
    <3>3. QED BY <2>1, <3>2, BitSmall
  <2>3. QED BY <1>7, <1>8, <2>1, <2>2, BitBelow
<1>9. CASE ~ (k < j)
  <2>1. k \in j .. 23 /\ k - j \in 0 .. 23 /\ k - j < 24 - j
    BY SMT, <1>9
  <2>2. Bit(u, k - j) = 1
    BY <1>1, <1>3, <1>5, <2>1, LowMaskBit
  <2>3. QED BY <1>7, <1>9, <2>1, <2>2, BitAbove
<1>10. QED BY <1>8, <1>9

(* The and with that mask clears the low j bits: the AND of shl.           *)
LEMMA AndHigh ==
  ASSUME NEW x \in Nat, x < 2^24, NEW j \in 0 .. 23, NEW h, NEW l, Split(x, j, h, l)
  PROVE  And(x, 2^24 - 2^j) = 2^j * h
<1>0. h \in Nat /\ l \in Nat
  BY DEF Split
<1>1. j \in 0 .. 24 /\ 24 - j \in 0 .. 24 /\ 24 \in 0 .. 24
  BY SMT
<1>2. PICK p \in Nat : p = 2^j /\ p >= 1
  BY <1>1, PowNext
<1>a. PICK m \in Nat : m = 2^24 - 2^j
  <2>1. PICK q \in Nat : q = 2^(24 - j) /\ q >= 1
    BY <1>1, PowNext
  <2>2. 2^24 = p * q
    BY <1>1, <1>2, <2>1, PowSplit
  <2>3. p <= p * q
    BY SMT, <2>1
  <2>4. 2^24 - p \in Nat
    BY SMT, <2>2, <2>3
  <2>5. QED BY <1>2, <2>4
<1>3. m < 2^24
  <2>1. 2^24 - p < 2^24
    BY SMT, <1>2
  <2>2. QED BY <1>2, <1>a, <2>1
<1>4. Bitwise(24, x, m, And(x, m), x + m - And(x, m), (x + m - And(x, m)) - And(x, m))
  BY <1>3, AndBitwise
<1>5. PICK c \in Nat : c = And(x, m) /\ c < 2^24
  BY <1>4 DEF Bitwise, Below
<1>6. PICK e \in Nat : e = p * h
  BY SMT, <1>0
<1>7. e < 2^24
  <2>1. x = e + l
    BY <1>2, <1>6 DEF Split
  <2>2. QED BY SMT, <1>0, <2>1
<1>8. Split(e, j, h, 0)
  <2>1. e = e + 0 /\ 0 < p /\ 0 \in Nat
    BY SMT, <1>2
  <2>2. QED BY <1>0, <1>1, <1>2, <1>6, <2>1 DEF Split
<1>9. ASSUME NEW k \in 0 .. 23
      PROVE  Bit(c, k) = Bit(e, k)
  <2>1. Bit(c, k) = 1 <=> Bit(x, k) = 1 /\ Bit(m, k) = 1
    <3>1. k \in 0 .. 24 - 1
      BY SMT
    <3>2. QED BY <1>4, <1>5, <3>1 DEF Bitwise
  <2>2. Bit(m, k) = (IF k < j THEN 0 ELSE 1)
    BY <1>a, HighMaskBit
  <2>3. Bit(c, k) \in {0, 1} /\ Bit(x, k) \in {0, 1}
    BY BitIs
  <2>4. CASE k < j
    <3>1. k \in 0 .. j - 1 /\ k \in 0 .. 24 /\ 0 \in Nat
      BY SMT, <2>4
    <3>2. Bit(0, k) = 0
      <4>1. PICK r \in Nat : r = 2^k /\ r >= 1
        BY <3>1, PowNext
      <4>2. 0 < 2^k
        BY SMT, <4>1
      <4>3. QED BY <3>1, <4>2, BitSmall
    <3>3. Bit(e, k) = 0
      BY <1>8, <3>1, <3>2, BitBelow
    <3>4. QED BY <2>1, <2>2, <2>3, <2>4, <3>3
  <2>5. CASE ~ (k < j)
    <3>1. k \in j .. 23
      BY SMT, <2>5
    <3>2. Bit(e, k) = Bit(x, k)
      BY <1>8, <3>1, BitAbove
    <3>3. QED BY <2>1, <2>2, <2>3, <2>5, <3>2
  <2>6. QED BY <2>4, <2>5
<1>10. c = e
  BY <1>5, <1>7, <1>9, SameBits
<1>11. QED BY <1>2, <1>5, <1>6, <1>10, <1>a

-----------------------------------------------------------------------------

(* A shift by 1 to 16, the amounts the four bits of format 2 hold, splits  *)
(* the word in two parts.                                                  *)
LEMMA Halves ==
  ASSUME NEW a \in Nat, a < 2^24, NEW n \in 1 .. 16
  PROVE  \E p \in Nat, q \in Nat :
           /\ p = 2^n /\ q = 2^(24 - n) /\ p >= 1 /\ q >= 1 /\ 2^24 = p * q
           /\ ShiftAmount(n) = n /\ n \in 0 .. 23 /\ 24 - n \in 0 .. 24
<1>1. n \in 0 .. 24 /\ 24 - n \in 0 .. 24 /\ 24 \in 0 .. 24 /\ n \in 0 .. 23
  BY SMT
<1>2. PICK p \in Nat : p = 2^n /\ p >= 1
  BY <1>1, PowNext
<1>3. PICK q \in Nat : q = 2^(24 - n) /\ q >= 1
  BY <1>1, PowNext
<1>4. 2^24 = p * q
  BY <1>1, <1>2, <1>3, PowSplit
<1>5. ShiftAmount(n) = n
  BY SMT DEF ShiftAmount
<1>6. QED BY <1>1, <1>2, <1>3, <1>4, <1>5

(* SHIFTL rotates, and the AND of the pattern clears what came round:      *)
(* together a shift left.                                                  *)
LEMMA ShlValue ==
  ASSUME NEW a \in Nat, a < 2^24, NEW n \in 1 .. 16
  PROVE  /\ RotatedLeft(a, ShiftAmount(n)) \in Word
         /\ And(RotatedLeft(a, ShiftAmount(n)), SHLMask(n)) = (a % (2^(24 - n))) * (2^n)
<1>1. PICK p \in Nat, q \in Nat :
           /\ p = 2^n /\ q = 2^(24 - n) /\ p >= 1 /\ q >= 1 /\ 2^24 = p * q
           /\ ShiftAmount(n) = n /\ n \in 0 .. 23 /\ 24 - n \in 0 .. 24
  BY Halves
<1>2. a = (q * (a \div q)) + (a % q) /\ a % q \in Nat /\ a % q < q /\ a \div q \in Nat
  BY SMT, <1>1
<1>3. PICK h \in Nat, l \in Nat : h = a % q /\ l = a \div q
  BY <1>2
<1>4. l < p
  <2>1. ASSUME l >= p PROVE FALSE
    <3>1. q * l >= q * p
      BY SMT, <2>1
    <3>2. a = (q * l) + h
      BY <1>2, <1>3
    <3>3. q * p = p * q
      BY SMT
    <3>4. QED BY SMT, <1>1, <3>1, <3>2, <3>3
  <2>2. QED BY SMT, <2>1
<1>5. PICK x \in Nat : x = (p * h) + l
  BY SMT
<1>6. RotatedLeft(a, ShiftAmount(n)) = x
  <2>1. (h * p) + l = (p * h) + l
    BY SMT
  <2>2. QED BY <1>1, <1>3, <1>5, <2>1 DEF RotatedLeft
<1>7. x < 2^24
  <2>1. h <= q - 1 /\ q - 1 \in Nat
    BY SMT, <1>1, <1>2, <1>3
  <2>2. p * h <= p * (q - 1)
    BY SMT, <2>1
  <2>3. p * (q - 1) = (p * q) - p
    BY SMT
  <2>4. QED BY SMT, <1>1, <1>4, <1>5, <2>2, <2>3
<1>8. PICK m \in Nat : m = 2^24 - 2^n /\ m = SHLMask(n)
  <2>1. p <= p * q
    BY SMT, <1>1
  <2>2. SHLMask(n) = 2^24 - p
    BY SMT, <1>1 DEF SHLMask
  <2>3. 2^24 - p \in Nat
    BY SMT, <1>1, <2>1
  <2>4. QED BY <1>1, <2>2, <2>3
<1>9. Split(x, n, h, l)
  <2>1. n \in 0 .. 24
    BY SMT
  <2>2. QED BY <1>1, <1>4, <1>5, <2>1 DEF Split
<1>10. And(x, m) = p * h
  <2>1. n \in 0 .. 23 /\ m = 2^24 - 2^n
    BY <1>1, <1>8
  <2>2. And(x, 2^24 - 2^n) = 2^n * h
    BY <1>7, <1>9, <2>1, AndHigh
  <2>3. QED BY <1>1, <2>1, <2>2
<1>11. p * h = h * p
  BY SMT
<1>12. x \in Word
  BY <1>7, WordIs
<1>13. QED BY <1>1, <1>3, <1>6, <1>8, <1>10, <1>11, <1>12

(* SHIFTR repeats the sign, and the AND of the pattern clears what it      *)
(* repeated: together a logical shift right.                               *)
LEMMA SrlValue ==
  ASSUME NEW a \in Nat, a < 2^24, NEW n \in 1 .. 16
  PROVE  /\ ShiftedRight(a, ShiftAmount(n)) \in Word
         /\ And(ShiftedRight(a, ShiftAmount(n)), SRLMask(n)) = a \div (2^n)
<1>1. PICK p \in Nat, q \in Nat :
           /\ p = 2^n /\ q = 2^(24 - n) /\ p >= 1 /\ q >= 1 /\ 2^24 = p * q
           /\ ShiftAmount(n) = n /\ n \in 0 .. 23 /\ 24 - n \in 0 .. 24
  BY Halves
<1>2. a = (p * (a \div p)) + (a % p) /\ a % p \in Nat /\ a % p < p /\ a \div p \in Nat
  BY SMT, <1>1
<1>3. PICK d \in Nat, r \in Nat : d = a \div p /\ r = a % p
  BY <1>2
<1>4. d < q /\ d < 2^24
  <2>1. ASSUME d >= q PROVE FALSE
    <3>1. p * d >= p * q
      BY SMT, <2>1
    <3>2. QED BY SMT, <1>1, <1>2, <1>3, <3>1
  <2>2. q <= p * q
    BY SMT, <1>1
  <2>3. QED BY SMT, <1>1, <2>1, <2>2
<1>5. PICK y \in Nat : /\ y = ShiftedRight(a, ShiftAmount(n)) /\ y < 2^24
                       /\ \E i \in Nat : y = (q * i) + d
  <2>1. CASE a < 2^23
    <3>1. Signed(a) = a
      BY SMT, <2>1, WordIs DEF Signed
    <3>2. d % 2^24 = d
      BY SMT, <1>4
    <3>3. ShiftedRight(a, ShiftAmount(n)) = d
      BY <1>1, <1>3, <3>1, <3>2, WordIs DEF ShiftedRight, Wrap
    <3>4. d = (q * 0) + d /\ 0 \in Nat
      BY SMT
    <3>5. QED BY <1>4, <3>3, <3>4
  <2>2. CASE ~ (a < 2^23)
    <3>1. PICK z \in Int : z = a - 2^24
      BY SMT
    <3>2. Signed(a) = z
      BY SMT, <2>2, <3>1, WordIs DEF Signed
    <3>3. z = (p * (d - q)) + r /\ d - q \in Int /\ r < p
      <4>1. ((p * d) + r) - (p * q) = (p * (d - q)) + r
        BY SMT
      <4>2. QED BY <1>1, <1>2, <1>3, <3>1, <4>1
    <3>4. z \div p = d - q
      <4>1. PICK e \in Int : e = d - q
        BY <3>3
      <4>2. z = (p * e) + r
        BY <3>3, <4>1
      <4>3. z \div p = e
        BY <1>1, <3>3, <4>2, DivUnique
      <4>4. QED BY <4>1, <4>3
    <3>5. PICK y \in Nat : y = (d - q) + 2^24 /\ y < 2^24 /\ y = (d - q) % 2^24
      <4>1. q <= p * q
        BY SMT, <1>1
      <4>2. QED BY SMT, <1>1, <1>4, <4>1
    <3>6. y = ShiftedRight(a, ShiftAmount(n))
      BY <1>1, <3>2, <3>4, <3>5, WordIs DEF ShiftedRight, Wrap
    <3>7. y = (q * (p - 1)) + d /\ p - 1 \in Nat
      <4>1. (d - q) + (p * q) = (q * (p - 1)) + d /\ p - 1 \in Nat
        BY SMT, <1>1
      <4>2. QED BY <1>1, <3>5, <4>1
    <3>8. QED BY <3>5, <3>6, <3>7
  <2>3. QED BY <2>1, <2>2
<1>6. y % q = d
  <2>1. PICK i \in Nat : y = (q * i) + d
    BY <1>5
  <2>2. i \in Int /\ y \in Int
    BY SMT
  <2>3. QED BY <1>1, <1>4, <2>1, <2>2, DivUnique
<1>7. PICK m \in Nat : m = 2^(24 - n) - 1 /\ m = SRLMask(n)
  <2>1. q - 1 \in Nat
    BY SMT, <1>1
  <2>2. QED BY <1>1, <2>1 DEF SRLMask
<1>8. And(y, m) = y % 2^(24 - n)
  BY <1>1, <1>5, <1>7, AndLow
<1>9. y \in Word
  BY <1>5, WordIs
<1>10. QED BY <1>1, <1>3, <1>5, <1>6, <1>7, <1>8, <1>9

-----------------------------------------------------------------------------

(* Wrap takes an integer to the word it is congruent to.                   *)
LEMMA WrapIs ==
  ASSUME NEW i \in Int
  PROVE  Wrap(i) \in Word /\ Wrap(i) \in Nat /\ Wrap(i) < 2^24 /\ \E k \in Int : i = Wrap(i) + (2^24 * k)
<1>1. i % 2^24 \in Nat /\ i % 2^24 < 2^24 /\ i = (i % 2^24) + (2^24 * (i \div 2^24)) /\ i \div 2^24 \in Int
  BY SMT
<1>2. Wrap(i) = i % 2^24
  BY WordIs DEF Wrap
<1>3. QED BY <1>1, <1>2, WordIs

(* Integers that differ by a multiple of 2^24.                             *)
Congruent(i, j) == \E k \in Int : i = j + (2^24 * k)

(* Congruent integers wrap to the same word.                               *)
LEMMA WrapSame ==
  ASSUME NEW i \in Int, NEW j \in Int, Congruent(i, j)
  PROVE  Wrap(i) = Wrap(j)
<1>0. PICK k \in Int : i = j + (2^24 * k)
  BY DEF Congruent
<1>1. i % 2^24 = j % 2^24
  BY SMT, <1>0
<1>2. QED BY <1>1, WordIs DEF Wrap

(* A word wraps to itself.                                                 *)
LEMMA WrapWord ==
  ASSUME NEW i \in Nat, i < 2^24
  PROVE  Wrap(i) = i
<1>1. i % 2^24 = i
  BY SMT
<1>2. QED BY <1>1, WordIs DEF Wrap

(* The signed value of a word is congruent to the word, and lies between   *)
(* -2^23 and 2^23 - 1.                                                     *)
LEMMA SignedIs ==
  ASSUME NEW a \in Word
  PROVE  /\ Signed(a) \in Int /\ -(2^23) <= Signed(a) /\ Signed(a) < 2^23
         /\ a < 2^23 => Signed(a) = a
         /\ a >= 2^23 => Signed(a) = a - 2^24
         /\ \E k \in {0, 1} : a = Signed(a) + (2^24 * k)
<1>1. a \in Nat /\ a < 2^24
  BY WordIs
<1>2. Signed(a) = IF a >= 2^23 THEN a - 2^24 ELSE a
  BY WordIs DEF Signed
<1>3. QED BY SMT, <1>1, <1>2

(* The product made from 12-bit halves is the product modulo 2^24.         *)
LEMMA TimesIs ==
  ASSUME NEW a \in Nat, NEW b \in Nat
  PROVE  Times(a, b) = Wrap(a * b) /\ Times(a, b) \in Word
<1> DEFINE ah == a \div 4096  al == a % 4096  bh == b \div 4096  bl == b % 4096
           mid == (ah * bl) + (al * bh)
<1>1. /\ ah \in Nat /\ al \in Nat /\ a = (4096 * ah) + al
      /\ bh \in Nat /\ bl \in Nat /\ b = (4096 * bh) + bl
  BY SMT
<1>2. Times(a, b) = Wrap((al * bl) + ((mid % 4096) * 4096))
  BY DEF Times
<1> HIDE DEF ah, al, bh, bl
<1>3. PICK p \in Nat, q \in Nat, r \in Nat, s \in Nat :
        p = ah * bh /\ q = ah * bl /\ r = al * bh /\ s = al * bl
  <2>1. ah * bh \in Nat /\ ah * bl \in Nat /\ al * bh \in Nat /\ al * bl \in Nat
    BY SMT, <1>1
  <2>2. QED BY <2>1
<1>4. a * b = (16777216 * p) + (4096 * (q + r)) + s
  <2>1. ((4096 * ah) + al) * ((4096 * bh) + bl)
          = (16777216 * (ah * bh)) + (4096 * ((ah * bl) + (al * bh))) + (al * bl)
    BY SMT, <1>1
  <2>2. QED BY SMT, <1>1, <1>3, <2>1
<1>5. PICK t \in Nat, u \in Nat : t = (q + r) \div 4096 /\ u = (q + r) % 4096
  BY SMT
<1>6. PICK i \in Int, j \in Int, k \in Int :
        i = a * b /\ j = s + (u * 4096) /\ k = p + t /\ i = j + (2^24 * k)
  <2>1. q + r = (4096 * t) + u
    BY SMT, <1>5
  <2>2. a * b \in Int /\ s + (u * 4096) \in Int /\ p + t \in Int
    BY SMT
  <2>3. a * b = (s + (u * 4096)) + (2^24 * (p + t))
    BY SMT, <1>4, <2>1
  <2>4. QED BY <2>2, <2>3
<1>7. Wrap(i) = Wrap(j) /\ Wrap(j) \in Word
  <2>1. Congruent(i, j)
    BY <1>6 DEF Congruent
  <2>2. QED BY <2>1, WrapSame, WrapIs
<1>8. j = (al * bl) + ((mid % 4096) * 4096)
  BY <1>3, <1>5, <1>6
<1>9. QED BY <1>2, <1>6, <1>7, <1>8

(* The quotient that truncates is an integer, and for positive operands    *)
(* the usual one.                                                          *)
LEMMA QuotientIs ==
  ASSUME NEW m \in Int, NEW n \in Int, n # 0
  PROVE  Quotient(m, n) \in Int /\ (m >= 0 /\ n > 0 => Quotient(m, n) = m \div n)
<1> DEFINE Abs(x) == IF x < 0 THEN -x ELSE x
<1>1. PICK i \in Nat, j \in Nat : i = Abs(m) /\ j = Abs(n) /\ j >= 1
  BY SMT
<1>2. PICK q \in Int : q = i \div j
  BY SMT, <1>1
<1>3. Quotient(m, n) = IF (m < 0) = (n < 0) THEN q ELSE -q
  BY <1>1, <1>2 DEF Quotient
<1>4. -q \in Int
  BY SMT
<1>5. ASSUME m >= 0, n > 0
      PROVE  Quotient(m, n) = m \div n
  <2>1. ~ (m < 0) /\ ~ (n < 0)
    BY SMT, <1>5
  <2>2. i = m /\ j = n
    BY <1>1, <2>1
  <2>3. QED BY <1>2, <1>3, <2>1, <2>2
<1>6. QED BY <1>3, <1>4, <1>5

(* DIV computes a word from words, and for operands without the sign bit   *)
(* the unsigned quotient.                                                  *)
LEMMA DividedIs ==
  ASSUME NEW a \in Word, NEW b \in Word, b # 0
  PROVE  /\ Quotient(Signed(a), Signed(b)) \in Int
         /\ Divided(a, b) \in Word
         /\ a < 2^23 /\ b < 2^23 => Divided(a, b) = a \div b /\ a \div b \in Nat
<1>1. Signed(a) \in Int /\ Signed(b) \in Int /\ Signed(b) # 0
  <2>1. b \in Nat /\ b < 2^24
    BY WordIs
  <2>2. QED BY SMT, <2>1, SignedIs
<1>2. Quotient(Signed(a), Signed(b)) \in Int
  BY <1>1, QuotientIs
<1>3. Divided(a, b) \in Word
  BY <1>2, WrapIs DEF Divided
<1>4. ASSUME a < 2^23, b < 2^23
      PROVE  Divided(a, b) = a \div b /\ a \div b \in Nat
  <2>1. Signed(a) = a /\ Signed(b) = b /\ a \in Nat /\ b \in Nat /\ a >= 0 /\ b > 0 /\ a < 2^24
    <3>1. a \in Nat /\ b \in Nat /\ a < 2^24
      BY WordIs
    <3>2. QED BY SMT, <3>1, <1>4, SignedIs
  <2>2. Quotient(a, b) = a \div b
    <3>1. a \in Int /\ b \in Int
      BY SMT, <2>1
    <3>2. QED BY <2>1, <3>1, QuotientIs
  <2>3. a \div b \in Nat /\ a \div b <= a
    BY SMT, <2>1
  <2>4. PICK d \in Nat : d = a \div b /\ d < 2^24
    BY SMT, <2>1, <2>3
  <2>5. Wrap(d) = d
    BY <2>4, WrapWord
  <2>6. QED BY <2>1, <2>2, <2>4, <2>5 DEF Divided
<1>5. QED BY <1>2, <1>3, <1>4

(* The expansion of SREM is the remainder of the division that truncates,  *)
(* though the product and the difference wrap; for operands without the    *)
(* sign bit it is the unsigned remainder.                                  *)
LEMMA RemainderIs ==
  ASSUME NEW a \in Word, NEW b \in Word, b # 0
  PROVE  /\ Wrap(a - Times(Divided(a, b), b))
              = Wrap(Signed(a) - Quotient(Signed(a), Signed(b)) * Signed(b))
         /\ a < 2^23 /\ b < 2^23 => Wrap(a - Times(Divided(a, b), b)) = a % b
<1>1. PICK x \in Nat, y \in Nat : x = a /\ y = b /\ x < 2^24 /\ y < 2^24
  BY WordIs
<1>2. PICK q \in Int : q = Quotient(Signed(a), Signed(b))
  BY DividedIs
<1>3. PICK d \in Nat : d = Divided(a, b)
  BY DividedIs, WordIs
<1>4. PICK kd \in Int : q = d + (2^24 * kd)
  BY <1>2, <1>3, WrapIs DEF Divided
<1>5. PICK sa \in Int, ka \in Int : sa = Signed(a) /\ x = sa + (2^24 * ka)
  BY <1>1, SignedIs
<1>6. PICK sb \in Int, kb \in Int : sb = Signed(b) /\ y = sb + (2^24 * kb)
  BY <1>1, SignedIs
<1>7. PICK t \in Nat : t = Times(d, y) /\ \E k \in Int : d * y = t + (2^24 * k)
  <2>1. d * y \in Int
    BY SMT
  <2>2. Times(d, y) = Wrap(d * y)
    BY TimesIs
  <2>3. QED BY <2>1, <2>2, WrapIs
<1>8. PICK kt \in Int : d * y = t + (2^24 * kt)
  BY <1>7
<1>9. PICK k \in Int : x - t = (sa - (q * sb)) + (2^24 * k)
  <2> DEFINE M == 2^24
  <2>1. M \in Int
    BY SMT
  <2> HIDE DEF M
  <2>2. d * y = (q - (M * kd)) * (sb + (M * kb))
    <3>1. d = q - (M * kd)
      BY SMT, <2>1, <1>4 DEF M
    <3>2. y = sb + (M * kb)
      BY <1>6 DEF M
    <3>3. QED BY <3>1, <3>2
  <2>3. (q - (M * kd)) * (sb + (M * kb)) = (q * sb) + (M * (((q * kb) - (kd * sb)) - (M * (kd * kb))))
    BY SMT, <2>1
  <2>4. PICK c \in Int : c = ((q * kb) - (kd * sb)) - (M * (kd * kb))
    BY SMT, <2>1
  <2>5. PICK g \in Int : g = q * sb
    BY SMT
  <2>6. t = (g + (M * c)) - (M * kt)
    <3>1. d * y = g + (M * c)
      BY <2>2, <2>3, <2>4, <2>5
    <3>2. d * y = t + (M * kt)
      BY <1>8 DEF M
    <3>3. M * c \in Int /\ M * kt \in Int
      BY SMT, <2>1
    <3>4. QED BY SMT, <3>1, <3>2, <3>3
  <2>7. x = sa + (M * ka)
    BY <1>5 DEF M
  <2>8. (sa + (M * ka)) - ((g + (M * c)) - (M * kt)) = (sa - g) + (M * ((ka - c) + kt)) /\ (ka - c) + kt \in Int
    BY SMT, <2>1
  <2>9. QED BY <2>5, <2>6, <2>7, <2>8 DEF M
<1>10. Wrap(x - t) = Wrap(sa - (q * sb))
  <2>1. PICK i \in Int, j \in Int : i = x - t /\ j = sa - (q * sb)
    BY SMT
  <2>2. Congruent(i, j)
    BY <1>9, <2>1 DEF Congruent
  <2>3. QED BY <2>1, <2>2, WrapSame
<1>11. ASSUME a < 2^23, b < 2^23
       PROVE  Wrap(a - Times(Divided(a, b), b)) = a % b
  <2>1. d = x \div y /\ y >= 1
    BY SMT, <1>1, <1>3, <1>11, DividedIs
  <2>2. x = (y * d) + (x % y) /\ x % y \in Nat
    BY SMT, <2>1
  <2>3. PICK r \in Nat, g \in Nat : r = x % y /\ g = d * y /\ x = g + r
    <3>1. y * d = d * y /\ d * y \in Nat
      BY SMT
    <3>2. QED BY <2>2, <3>1
  <2>4. g < 2^24 /\ r < 2^24
    BY SMT, <1>1, <2>3
  <2>5. t = g
    BY <1>7, <2>3, <2>4, TimesIs, WrapWord
  <2>6. x - t = r
    BY SMT, <2>3, <2>5
  <2>7. Wrap(x - t) = r
    BY <2>4, <2>6, WrapWord
  <2>8. QED BY <1>1, <1>3, <1>7, <2>3, <2>7
<1>12. QED BY <1>1, <1>2, <1>3, <1>5, <1>6, <1>7, <1>10, <1>11

-----------------------------------------------------------------------------

(* An instruction, as TypeOK describes it, and a register file.            *)
Instruction == [name : Names, r1 : Regs, r2 : Regs, imm : Word,
                form : {"", "#", "+#", "=", "shift"}]
RegFile == [Regs -> Word]

(* What the instructions on two registers do.                              *)
LEMMA ExecutedRR ==
  ASSUME NEW r1, NEW r2, NEW g
  PROVE  /\ Executed(RR("RMO", r1, r2), g) = [g EXCEPT ![r2] = g[r1]]
         /\ Executed(RR("ADDR", r1, r2), g) = [g EXCEPT ![r2] = Wrap(g[r2] + g[r1])]
         /\ Executed(RR("SUBR", r1, r2), g) = [g EXCEPT ![r2] = Wrap(g[r2] - g[r1])]
         /\ Executed(RR("MULR", r1, r2), g) = [g EXCEPT ![r2] = Times(g[r2], g[r1])]
         /\ Executed(RR("DIVR", r1, r2), g) = [g EXCEPT ![r2] = Divided(g[r2], g[r1])]
         /\ Executed(RR("COMPR", r1, r2), g) = [g EXCEPT !["SW"] = Compared(g[r1], g[r2])]
         /\ Executed(RR("ANDMEM", r1, r2), g) = [g EXCEPT !["MEMREG"] = g[r1], !["A"] = And(g["A"], g[r1])]
         /\ Executed(RR("ORMEM", r1, r2), g) = [g EXCEPT !["MEMREG"] = g[r1], !["A"] = Or(g["A"], g[r1])]
         /\ Executed(RR("MVSW", r1, r2), g) = [g EXCEPT !["MEMREG"] = g["SW"], ![r1] = g["SW"]]
BY DEF Executed, RR, Instr

(* What the instructions with an immediate operand do.                     *)
LEMMA ExecutedImm ==
  ASSUME NEW c, NEW f, NEW g
  PROVE  /\ Executed(Imm("ADD", c, f), g) = [g EXCEPT !["A"] = Wrap(g["A"] + c)]
         /\ Executed(Imm("SUB", c, f), g) = [g EXCEPT !["A"] = Wrap(g["A"] - c)]
         /\ Executed(Imm("MUL", c, f), g) = [g EXCEPT !["A"] = Times(g["A"], c)]
         /\ Executed(Imm("DIV", c, f), g) = [g EXCEPT !["A"] = Divided(g["A"], c)]
         /\ Executed(Imm("AND", c, f), g) = [g EXCEPT !["A"] = And(g["A"], c)]
         /\ Executed(Imm("OR", c, f), g) = [g EXCEPT !["A"] = Or(g["A"], c)]
         /\ Executed(Imm("COMP", c, f), g) = [g EXCEPT !["SW"] = Compared(g["A"], c)]
BY DEF Executed, Imm, Instr

(* What a load does.                                                       *)
LEMMA ExecutedLoad ==
  ASSUME NEW c, NEW f, NEW g, NEW r
  PROVE  Executed(Load(r, c, f), g) = [g EXCEPT ![r] = c]
BY DEF Executed, Load, Instr

(* What the shifts do.                                                     *)
LEMMA ExecutedShift ==
  ASSUME NEW c, NEW g, NEW r
  PROVE  /\ Executed(RI("SHIFTL", r, c), g) = [g EXCEPT ![r] = RotatedLeft(g[r], ShiftAmount(c))]
         /\ Executed(RI("SHIFTR", r, c), g) = [g EXCEPT ![r] = ShiftedRight(g[r], ShiftAmount(c))]
BY DEF Executed, RI, Instr

(* The and and the or of words are words.                                  *)
LEMMA OrWord ==
  ASSUME NEW a \in Word, NEW b \in Word
  PROVE  And(a, b) \in Word /\ Or(a, b) \in Word
<1>1. a \in Nat /\ b \in Nat /\ a < 2^24 /\ b < 2^24
  BY WordIs
<1>2. Bitwise(24, a, b, And(a, b), a + b - And(a, b), (a + b - And(a, b)) - And(a, b))
  BY <1>1, AndBitwise
<1>3. QED BY <1>2, WordIs DEF Bitwise, Below, Or

(* A shifted word is a word, whatever amount the four bits hold.           *)
LEMMA ShiftWord ==
  ASSUME NEW a \in Word, NEW n \in Word
  PROVE  /\ RotatedLeft(a, ShiftAmount(n)) \in Word
         /\ ShiftedRight(a, ShiftAmount(n)) \in Word
<1>1. n \in Nat /\ a \in Nat /\ a < 2^24
  BY WordIs
<1>2. PICK s \in 1 .. 16 : s = ShiftAmount(n)
  BY SMT, <1>1 DEF ShiftAmount
<1>3. ShiftAmount(s) = s
  BY SMT DEF ShiftAmount
<1>4. QED BY <1>1, <1>2, <1>3, ShlValue, SrlValue

(* The condition code is one of three words.                               *)
LEMMA ComparedWord ==
  ASSUME NEW a, NEW b
  PROVE  Compared(a, b) \in {LT, EQ, GT} /\ Compared(a, b) \in Word
<1>1. Compared(a, b) \in {LT, EQ, GT}
  BY DEF Compared
<1>2. \A v \in {LT, EQ, GT} : v \in Nat /\ v < 2^24
  BY SMT DEF LT, EQ, GT
<1>3. QED BY <1>1, <1>2, WordIs

(* The register an instruction writes, MEMREG aside.                       *)
Target(i) == CASE i.name \in {"LD", "MVSW", "SHIFTL", "SHIFTR"} -> i.r1
               [] i.name \in {"RMO", "ADDR", "SUBR", "MULR", "DIVR"} -> i.r2
               [] i.name \in {"COMPR", "COMP"} -> "SW"
               [] OTHER -> "A"

(* An instruction a sequence for n may hold: it does not jump, does not    *)
(* divide by 0, leaves the right operand in T alone, and its operand fits  *)
(* its field if the shift amount does.                                     *)
Safe(n, i) ==
  /\ i \in Instruction
  /\ ~ IsJump(i)
  /\ i.name = "DIV" => i.imm # 0
  /\ i.name = "DIVR" => ~ n.const /\ i.r1 = "T" /\ n.rhs # 0
  /\ ~ n.const => Target(i) # "T"
  /\ (n.op \in ShiftOps => n.rhs <= 16) => OperandFits(i)

(* A safe instruction takes a register file to a register file and keeps   *)
(* the right operand in T.                                                 *)
LEMMA ExecutedSafe ==
  ASSUME NEW n, NEW i, Safe(n, i), NEW g \in RegFile,
         ~ n.const => g["T"] = n.rhs
  PROVE  /\ Executed(i, g) \in RegFile
         /\ ~ n.const => Executed(i, g)["T"] = n.rhs
<1>1. /\ i.name \in Names /\ i.r1 \in Regs /\ i.r2 \in Regs /\ i.imm \in Word
      /\ g[i.r1] \in Word /\ g[i.r2] \in Word /\ g["A"] \in Word /\ g["SW"] \in Word
      /\ "A" \in Regs /\ "SW" \in Regs /\ "MEMREG" \in Regs /\ "T" \in Regs
  BY DEF Safe, Instruction, RegFile, Regs, GPR
<1>2. ~ IsJump(i) /\ (i.name = "DIV" => i.imm # 0) /\ (~ n.const => Target(i) # "T")
      /\ (i.name = "DIVR" => g[i.r1] # 0)
  BY DEF Safe
<1>3. \A a, b \in Word : /\ Wrap(a + b) \in Word /\ Wrap(a - b) \in Word /\ Times(a, b) \in Word
                         /\ And(a, b) \in Word /\ Or(a, b) \in Word
                         /\ (b # 0 => Divided(a, b) \in Word)
                         /\ Compared(a, b) \in Word
                         /\ RotatedLeft(a, ShiftAmount(b)) \in Word
                         /\ ShiftedRight(a, ShiftAmount(b)) \in Word
  <2>1. TAKE a \in Word, b \in Word
  <2>2. a \in Nat /\ b \in Nat
    BY WordIs
  <2>3. a + b \in Int /\ a - b \in Int
    BY SMT, <2>2
  <2>4. QED BY <2>2, <2>3, WrapIs, TimesIs, OrWord, DividedIs, ComparedWord, ShiftWord
<1>4. \E v \in Word, u \in Word : \/ Executed(i, g) = [g EXCEPT ![Target(i)] = v]
                                  \/ Executed(i, g) = [g EXCEPT !["MEMREG"] = u, ![Target(i)] = v]
  <2>1. CASE i.name = "LD"
    BY <2>1, <1>1 DEF Executed, Target
  <2>2. CASE i.name = "RMO"
    BY <2>2, <1>1 DEF Executed, Target
  <2>3. CASE i.name = "ADDR"
    BY <2>3, <1>1, <1>3 DEF Executed, Target
  <2>4. CASE i.name = "SUBR"
    BY <2>4, <1>1, <1>3 DEF Executed, Target
  <2>5. CASE i.name = "MULR"
    BY <2>5, <1>1, <1>3 DEF Executed, Target
  <2>6. CASE i.name = "DIVR"
    BY <2>6, <1>1, <1>2, <1>3 DEF Executed, Target
  <2>7. CASE i.name = "ADD"
    <3>1. Executed(i, g) = [g EXCEPT ![Target(i)] = Wrap(g[i.r1] + i.imm)]
      BY <2>7 DEF Executed, Target
    <3>2. QED BY <3>1, <1>1, <1>3
  <2>8. CASE i.name = "SUB"
    <3>1. Executed(i, g) = [g EXCEPT ![Target(i)] = Wrap(g[i.r1] - i.imm)]
      BY <2>8 DEF Executed, Target
    <3>2. QED BY <3>1, <1>1, <1>3
  <2>9. CASE i.name = "MUL"
    BY <2>9, <1>1, <1>3 DEF Executed, Target
  <2>10. CASE i.name = "DIV"
    BY <2>10, <1>1, <1>2, <1>3 DEF Executed, Target
  <2>11. CASE i.name = "AND"
    BY <2>11, <1>1, <1>3 DEF Executed, Target
  <2>12. CASE i.name = "OR"
    BY <2>12, <1>1, <1>3 DEF Executed, Target
  <2>13. CASE i.name = "ANDMEM"
    BY <2>13, <1>1, <1>3 DEF Executed, Target
  <2>14. CASE i.name = "ORMEM"
    BY <2>14, <1>1, <1>3 DEF Executed, Target
  <2>15. CASE i.name = "MVSW"
    BY <2>15, <1>1 DEF Executed, Target
  <2>16. CASE i.name = "COMPR"
    BY <2>16, <1>1, <1>3 DEF Executed, Target
  <2>17. CASE i.name = "COMP"
    BY <2>17, <1>1, <1>3 DEF Executed, Target
  <2>18. CASE i.name = "SHIFTL"
    BY <2>18, <1>1, <1>3 DEF Executed, Target
  <2>19. CASE i.name = "SHIFTR"
    BY <2>19, <1>1, <1>3 DEF Executed, Target
  <2>20. QED BY <1>1, <1>2, <2>1, <2>2, <2>3, <2>4, <2>5, <2>6, <2>7, <2>8, <2>9, <2>10, <2>11,
                <2>12, <2>13, <2>14, <2>15, <2>16, <2>17, <2>18, <2>19 DEF Names, IsJump
<1>5. QED
  BY <1>1, <1>2, <1>4 DEF RegFile, Regs, GPR

(* A sequence of safe instructions.                                        *)
Straight(n, s) == s \in Seq(Instruction) /\ \A k \in 1 .. Len(s) : Safe(n, s[k])

(* A safe instruction is a straight sequence.                              *)
LEMMA Straight1 ==
  ASSUME NEW n, NEW i, Safe(n, i)
  PROVE  Straight(n, <<i>>) /\ Len(<<i>>) = 1
BY DEF Straight, Safe

(* Straight sequences join to a straight sequence.                         *)
LEMMA StraightJoin ==
  ASSUME NEW n, NEW s, NEW t, Straight(n, s), Straight(n, t)
  PROVE  Straight(n, s \o t) /\ Len(s \o t) = Len(s) + Len(t)
<1>1. s \in Seq(Instruction) /\ t \in Seq(Instruction)
  BY DEF Straight
<1>2. /\ s \o t \in Seq(Instruction) /\ Len(s \o t) = Len(s) + Len(t)
      /\ Len(s) \in Nat /\ Len(t) \in Nat
      /\ \A k \in 1 .. Len(s) + Len(t) :
           (s \o t)[k] = IF k <= Len(s) THEN s[k] ELSE t[k - Len(s)]
  BY <1>1, ConcatProperties, LenProperties
<1>3. ASSUME NEW k \in 1 .. Len(s \o t)
      PROVE  Safe(n, (s \o t)[k])
  <2>1. CASE k <= Len(s)
    <3>1. k \in 1 .. Len(s)
      BY SMT, <1>2, <2>1
    <3>2. QED BY <1>2, <2>1, <3>1 DEF Straight
  <2>2. CASE ~ (k <= Len(s))
    <3>1. k - Len(s) \in 1 .. Len(t)
      BY SMT, <1>2, <2>2
    <3>2. QED BY <1>2, <2>2, <3>1 DEF Straight
  <2>3. QED BY <2>1, <2>2
<1>4. QED BY <1>2, <1>3 DEF Straight

(* The first p instructions of c take the registers from g to f.           *)
Runs(c, p, g, f) ==
  \E h \in [0 .. p -> RegFile] :
    h[0] = g /\ h[p] = f /\ \A k \in 1 .. p : h[k] = Executed(c[k], h[k - 1])

(* No instruction changes nothing.                                         *)
LEMMA RunsNone ==
  ASSUME NEW c, NEW g \in RegFile
  PROVE  Runs(c, 0, g, g)
<1>1. [k \in 0 .. 0 |-> g] \in [0 .. 0 -> RegFile]
  OBVIOUS
<1>2. 0 \in 0 .. 0 /\ 1 .. 0 = {}
  BY SMT
<1>3. QED BY <1>1, <1>2 DEF Runs

(* One more instruction.                                                   *)
LEMMA RunsMore ==
  ASSUME NEW c, NEW p \in Nat, NEW g, NEW f, Runs(c, p, g, f), Executed(c[p + 1], f) \in RegFile
  PROVE  Runs(c, p + 1, g, Executed(c[p + 1], f))
<1>1. PICK h \in [0 .. p -> RegFile] :
        h[0] = g /\ h[p] = f /\ \A k \in 1 .. p : h[k] = Executed(c[k], h[k - 1])
  BY DEF Runs
<1> DEFINE e == [k \in 0 .. p + 1 |-> IF k <= p THEN h[k] ELSE Executed(c[p + 1], f)]
<1>2. e \in [0 .. p + 1 -> RegFile]
  <2>1. \A k \in 0 .. p + 1 : k <= p => k \in 0 .. p
    BY SMT
  <2>2. QED BY <2>1
<1>3. e[0] = g /\ e[p + 1] = Executed(c[p + 1], f) /\ e[p] = f
  <2>1. 0 \in 0 .. p + 1 /\ 0 <= p /\ p + 1 \in 0 .. p + 1 /\ ~ (p + 1 <= p) /\ p \in 0 .. p + 1 /\ p <= p
    BY SMT
  <2>2. QED BY <1>1, <2>1
<1>4. ASSUME NEW k \in 1 .. p + 1
      PROVE  e[k] = Executed(c[k], e[k - 1])
  <2>1. CASE k = p + 1
    <3>1. k - 1 = p
      BY SMT, <2>1
    <3>2. QED BY <1>3, <2>1, <3>1
  <2>2. CASE k # p + 1
    <3>1. k \in 1 .. p /\ k - 1 \in 0 .. p /\ k <= p /\ k - 1 <= p /\ k \in 0 .. p + 1 /\ k - 1 \in 0 .. p + 1
      BY SMT, <2>2
    <3>2. e[k] = h[k] /\ e[k - 1] = h[k - 1]
      BY <3>1
    <3>3. QED BY <1>1, <3>1, <3>2
  <2>3. QED BY <2>1, <2>2
<1> HIDE DEF e
<1>5. QED BY <1>2, <1>3, <1>4 DEF Runs

(* A run through two sequences is a run through the first and then one     *)
(* through the second.                                                     *)
LEMMA RunsSplit ==
  ASSUME NEW n, NEW s, NEW t, Straight(n, s), Straight(n, t), NEW g, NEW f,
         Runs(s \o t, Len(s) + Len(t), g, f)
  PROVE  \E e \in RegFile : Runs(s, Len(s), g, e) /\ Runs(t, Len(t), e, f)
<1>1. s \in Seq(Instruction) /\ t \in Seq(Instruction)
  BY DEF Straight
<1>2. /\ Len(s) \in Nat /\ Len(t) \in Nat
      /\ \A k \in 1 .. Len(s) + Len(t) :
           (s \o t)[k] = IF k <= Len(s) THEN s[k] ELSE t[k - Len(s)]
  BY <1>1, ConcatProperties, LenProperties
<1>3. PICK p \in Nat, q \in Nat : p = Len(s) /\ q = Len(t)
  BY <1>2
<1>4. PICK h \in [0 .. p + q -> RegFile] :
        h[0] = g /\ h[p + q] = f /\ \A k \in 1 .. p + q : h[k] = Executed((s \o t)[k], h[k - 1])
  BY <1>3 DEF Runs
<1> DEFINE a == [k \in 0 .. p |-> h[k]]
           b == [k \in 0 .. q |-> h[p + k]]
<1>5. /\ \A k \in 0 .. p : k \in 0 .. p + q
      /\ \A k \in 0 .. q : p + k \in 0 .. p + q
      /\ 0 \in 0 .. p /\ p \in 0 .. p /\ 0 \in 0 .. q /\ q \in 0 .. q /\ p + 0 = p
  BY SMT
<1>6. a \in [0 .. p -> RegFile] /\ b \in [0 .. q -> RegFile]
  BY <1>5
<1>7. a[0] = g /\ a[p] = h[p] /\ b[0] = h[p] /\ b[q] = f
  BY <1>4, <1>5
<1>8. ASSUME NEW k \in 1 .. p
      PROVE  a[k] = Executed(s[k], a[k - 1])
  <2>1. k \in 1 .. p + q /\ k <= p /\ k \in 0 .. p /\ k - 1 \in 0 .. p
    BY SMT
  <2>2. QED BY <1>2, <1>3, <1>4, <2>1
<1>9. ASSUME NEW k \in 1 .. q
      PROVE  b[k] = Executed(t[k], b[k - 1])
  <2>1. p + k \in 1 .. p + q /\ ~ (p + k <= p) /\ k \in 0 .. q /\ k - 1 \in 0 .. q
        /\ (p + k) - p = k /\ (p + k) - 1 = p + (k - 1)
    BY SMT
  <2>2. h[p + k] = Executed(t[k], h[p + (k - 1)])
    BY <1>2, <1>3, <1>4, <2>1
  <2>3. QED BY <2>1, <2>2
<1>10. h[p] \in RegFile
  BY <1>5
<1> HIDE DEF a, b
<1>11. Runs(s, p, g, h[p]) /\ Runs(t, q, h[p], f)
  BY <1>6, <1>7, <1>8, <1>9 DEF Runs
<1>12. QED BY <1>3, <1>10, <1>11

(* A run through one instruction.                                          *)
LEMMA Runs1 ==
  ASSUME NEW i, NEW g, NEW f, Runs(<<i>>, 1, g, f)
  PROVE  f = Executed(i, g)
<1>1. PICK h \in [0 .. 1 -> RegFile] :
        h[0] = g /\ h[1] = f /\ \A k \in 1 .. 1 : h[k] = Executed(<<i>>[k], h[k - 1])
  BY DEF Runs
<1>2. 1 \in 1 .. 1 /\ 1 - 1 = 0
  BY SMT
<1>3. h[1] = Executed(<<i>>[1], h[0])
  BY <1>1, <1>2
<1>4. QED BY <1>1, <1>3

(* A run through two instructions.                                         *)
LEMMA Runs2 ==
  ASSUME NEW i, NEW j, NEW g, NEW f, Runs(<<i, j>>, 2, g, f)
  PROVE  f = Executed(j, Executed(i, g)) /\ Executed(i, g) \in RegFile
<1>1. PICK h \in [0 .. 2 -> RegFile] :
        h[0] = g /\ h[2] = f /\ \A k \in 1 .. 2 : h[k] = Executed(<<i, j>>[k], h[k - 1])
  BY DEF Runs
<1>2. 1 \in 1 .. 2 /\ 1 - 1 = 0 /\ 2 \in 1 .. 2 /\ 2 - 1 = 1 /\ 1 \in 0 .. 2
  BY SMT
<1>3. h[1] = Executed(<<i, j>>[1], h[0]) /\ h[2] = Executed(<<i, j>>[2], h[1]) /\ h[1] \in RegFile
  BY <1>1, <1>2
<1>4. QED BY <1>1, <1>3

(* A run through three instructions.                                       *)
LEMMA Runs3 ==
  ASSUME NEW i, NEW j, NEW l, NEW g, NEW f, Runs(<<i, j, l>>, 3, g, f)
  PROVE  \E h1 \in RegFile, h2 \in RegFile :
           h1 = Executed(i, g) /\ h2 = Executed(j, h1) /\ f = Executed(l, h2)
<1>1. PICK h \in [0 .. 3 -> RegFile] :
        h[0] = g /\ h[3] = f /\ \A k \in 1 .. 3 : h[k] = Executed(<<i, j, l>>[k], h[k - 1])
  BY DEF Runs
<1>2. /\ 1 \in 1 .. 3 /\ 1 - 1 = 0 /\ 2 \in 1 .. 3 /\ 2 - 1 = 1 /\ 3 \in 1 .. 3 /\ 3 - 1 = 2
      /\ 1 \in 0 .. 3 /\ 2 \in 0 .. 3
  BY SMT
<1>3. /\ h[1] = Executed(<<i, j, l>>[1], h[0]) /\ h[2] = Executed(<<i, j, l>>[2], h[1])
      /\ h[3] = Executed(<<i, j, l>>[3], h[2]) /\ h[1] \in RegFile /\ h[2] \in RegFile
  BY <1>1, <1>2
<1>4. QED BY <1>1, <1>3

-----------------------------------------------------------------------------

(* A node the patterns select.                                             *)
Chosen(n) == \E o \in Operations : n \in Nodes(o) /\ Selectable(n) /\ Defined(n)

(* Its operands are words, a shift amount is a constant, and a divisor is  *)
(* not 0.                                                                  *)
LEMMA NodeFacts ==
  ASSUME NEW n, Chosen(n)
  PROVE  /\ n.lhs \in Word /\ n.rhs \in Word /\ n.const \in BOOLEAN
         /\ n.op \in ArithOps \cup ShiftOps \cup {"setcc", "brcond"}
         /\ n.op \in {"setcc", "brcond"} => n.cond \in Conds
         /\ n.op \in ArithOps \cup ShiftOps => n.cond = "none"
         /\ n.op \in ShiftOps => n.const /\ n.rhs \in Shifts /\ n.rhs \in 1 .. 23
         /\ n.op = "srl" => n.rhs \in 1 .. 16
         /\ n.op \in {"sdiv", "udiv", "srem", "urem"} => n.rhs # 0
         /\ n.op = "sub" => ~ n.const
<1>1. PICK o \in Operations : n \in Nodes(o) /\ Selectable(n) /\ Defined(n)
  BY DEF Chosen
<1>2. o \in Operation
  BY <1>1, OperationsAssumption
<1>3. \A s \in 1 .. 23 : s \in Word
  <2>1. \A s \in 1 .. 23 : s \in Nat /\ s < 2^24
    BY SMT
  <2>2. QED BY <2>1, WordIs
<1>4. /\ n.op = o.op /\ n.cond = o.cond
      /\ n.lhs \in Word /\ n.rhs \in Word /\ n.const \in BOOLEAN
      /\ o.op \in ShiftOps => n.const /\ n.rhs \in Shifts
  BY <1>1, <1>3, OperandsAssumption, ShiftsAssumption DEF Nodes
<1>5. o.op \in ShiftOps => n.rhs \in 1 .. 23
  BY <1>4, ShiftsAssumption
<1>6. n.op = "srl" => n.rhs \in 1 .. 16
  <2>1. \A s \in 1 .. 23 : s <= 16 => s \in 1 .. 16
    BY SMT
  <2>2. QED BY <1>1, <1>4, <1>5, <2>1 DEF Selectable, ShiftOps
<1>7. /\ n.op \in {"sdiv", "udiv", "srem", "urem"} => n.rhs # 0
      /\ n.op = "sub" => ~ n.const
  BY <1>1 DEF Defined, Selectable
<1>8. QED
  BY <1>2, <1>4, <1>5, <1>6, <1>7 DEF Operation, ArithOps, ShiftOps

(* The small constants of the patterns are words.                          *)
LEMMA SmallWords ==
  \A s \in 0 .. 255 : s \in Word
<1>1. \A s \in 0 .. 255 : s \in Nat /\ s < 2^24
  BY SMT
<1>2. QED BY <1>1, WordIs

(* The immediate form FormOf chooses has room for the constant.            *)
LEMMA FormFits ==
  ASSUME NEW c \in Word
  PROVE  /\ FormOf(c) \in {"#", "+#", "="}
         /\ FormOf(c) = "#" => c < 2^12
         /\ FormOf(c) = "+#" => c < 2^20
<1>1. c \in Nat
  BY WordIs
<1>2. QED BY SMT, <1>1 DEF FormOf

(* The register instructions of the patterns are safe.                     *)
LEMMA SafeRR ==
  ASSUME NEW n, NEW name \in Names, NEW r1 \in Regs, NEW r2 \in Regs,
         name \in {"RMO", "ADDR", "SUBR", "MULR", "DIVR", "ANDMEM", "ORMEM", "MVSW", "COMPR"},
         name = "DIVR" => ~ n.const /\ r1 = "T" /\ n.rhs # 0,
         name = "MVSW" => r1 # "T",
         name \in {"RMO", "ADDR", "SUBR", "MULR", "DIVR"} => r2 # "T"
  PROVE  Safe(n, RR(name, r1, r2))
<1>1. 0 \in Word
  BY SMT, SmallWords
<1>2. QED BY <1>1 DEF Safe, RR, Instr, Instruction, IsJump, Target, OperandFits

(* So are those with an immediate that fits its form.                      *)
LEMMA SafeImm ==
  ASSUME NEW n, NEW name \in {"ADD", "SUB", "MUL", "DIV", "AND", "OR", "COMP"},
         NEW c \in Word, NEW f \in {"#", "+#", "="},
         name = "DIV" => c # 0,
         (n.op \in ShiftOps => n.rhs <= 16) =>
           (f = "#" => c < 2^12) /\ (f = "+#" => c < 2^20)
  PROVE  Safe(n, Imm(name, c, f))
BY DEF Safe, Imm, Instr, Instruction, IsJump, Target, OperandFits, Names, Regs, GPR

(* So is the load of a constant to T.                                      *)
LEMMA SafeLoad ==
  ASSUME NEW n, n.const, NEW c \in Word
  PROVE  Safe(n, Load("T", c, FormOf(c)))
BY FormFits DEF Safe, Load, Instr, Instruction, IsJump, Target, OperandFits, Names, Regs, GPR

(* So is a shift.                                                          *)
LEMMA SafeShift ==
  ASSUME NEW n, NEW name \in {"SHIFTL", "SHIFTR"}, NEW c \in Word,
         (n.op \in ShiftOps => n.rhs <= 16) => c \in 1 .. 16
  PROVE  Safe(n, RI(name, "A", c))
BY DEF Safe, RI, Instr, Instruction, IsJump, Target, OperandFits, Names, Regs, GPR

(* So are both forms of an operation.                                      *)
LEMMA SafeArith ==
  ASSUME NEW n, NEW op \in {"add", "sub", "mul", "sdiv", "udiv", "and", "or"},
         NEW c \in Word, c = n.rhs, n.const \in BOOLEAN,
         op \in {"sdiv", "udiv"} => c # 0
  PROVE  Safe(n, Arith(op, n.const, c))
<1>1. CASE n.const
  <2>1. Mnemonic[op] \in {"ADD", "SUB", "MUL", "DIV", "AND", "OR"}
        /\ (Mnemonic[op] = "DIV" => op \in {"sdiv", "udiv"})
    BY DEF Mnemonic
  <2>2. Safe(n, Imm(Mnemonic[op], c, FormOf(c)))
    BY <2>1, FormFits, SafeImm
  <2>3. QED BY <1>1, <2>2 DEF Arith
<1>2. CASE ~ n.const
  <2>1. MnemonicR[op] \in {"ADDR", "SUBR", "MULR", "DIVR", "ANDMEM", "ORMEM"}
        /\ MnemonicR[op] \in Names
        /\ (MnemonicR[op] = "DIVR" => op \in {"sdiv", "udiv"})
    BY DEF MnemonicR, Names
  <2>2. "T" \in Regs /\ "A" \in Regs
    BY DEF Regs, GPR
  <2>3. Safe(n, RR(MnemonicR[op], "T", "A"))
    BY <1>2, <2>1, <2>2, SafeRR
  <2>4. QED BY <1>2, <2>3 DEF Arith
<1>3. QED BY <1>1, <1>2

(* Two safe instructions.                                                  *)
LEMMA Straight2 ==
  ASSUME NEW n, NEW i1, NEW i2,
         Safe(n, i1), Safe(n, i2)
  PROVE  Straight(n, <<i1, i2>>) /\ Len(<<i1, i2>>) = 2
BY DEF Straight, Safe

(* Three safe instructions.                                                *)
LEMMA Straight3 ==
  ASSUME NEW n, NEW i1, NEW i2, NEW i3,
         Safe(n, i1), Safe(n, i2), Safe(n, i3)
  PROVE  Straight(n, <<i1, i2, i3>>) /\ Len(<<i1, i2, i3>>) = 3
BY DEF Straight, Safe

(* Five safe instructions.                                                 *)
LEMMA Straight5 ==
  ASSUME NEW n, NEW i1, NEW i2, NEW i3, NEW i4, NEW i5,
         Safe(n, i1), Safe(n, i2), Safe(n, i3), Safe(n, i4), Safe(n, i5)
  PROVE  Straight(n, <<i1, i2, i3, i4, i5>>) /\ Len(<<i1, i2, i3, i4, i5>>) = 5
BY DEF Straight, Safe

(* Seven safe instructions.                                                *)
LEMMA Straight7 ==
  ASSUME NEW n, NEW i1, NEW i2, NEW i3, NEW i4, NEW i5, NEW i6, NEW i7,
         Safe(n, i1), Safe(n, i2), Safe(n, i3), Safe(n, i4), Safe(n, i5), Safe(n, i6), Safe(n, i7)
  PROVE  Straight(n, <<i1, i2, i3, i4, i5, i6, i7>>) /\ Len(<<i1, i2, i3, i4, i5, i6, i7>>) = 7
BY DEF Straight, Safe

(* The sequence of each kind of node.                                      *)
LEMMA CodeCases ==
  ASSUME NEW n, Chosen(n)
  PROVE  /\ n.op = "shl" => CodeFor(n) = Shl(n.rhs)
         /\ n.op = "srl" => CodeFor(n) = Srl(n.rhs)
         /\ n.op = "sra" => CodeFor(n) = Sra(n.rhs)
         /\ n.op \in {"srem", "urem"} => CodeFor(n) = Rem(n.const, n.rhs)
         /\ n.op = "rotl" => CodeFor(n) = Rotl(n.rhs)
         /\ n.op = "xor" => CodeFor(n) = XorOf(n.const, n.rhs)
         /\ n.op = "setcc" => CodeFor(n) = Setcc(n.cond, n.const, n.rhs)
         /\ n.op = "brcond" => CodeFor(n) = Brcond(n.cond, n.const, n.rhs)
         /\ n.op \in {"add", "sub", "mul", "sdiv", "udiv", "and", "or"}
              => CodeFor(n) = <<Arith(n.op, n.const, n.rhs)>>
BY DEF CodeFor

(* The sequences of the shifts are straight; the masks of shl and srl fit  *)
(* the form the pattern chose.                                             *)
LEMMA ShiftCode ==
  ASSUME NEW n, Chosen(n), n.op \in ShiftOps
  PROVE  Straight(n, CodeFor(n)) /\ Len(CodeFor(n)) \in Nat \ {0}
<1>1. n.rhs \in 1 .. 23 /\ n.rhs \in Word /\ (n.op = "srl" => n.rhs \in 1 .. 16)
  BY NodeFacts
<1>2. n.rhs <= 16 => n.rhs \in 1 .. 16
  BY SMT, <1>1
<1>3. Safe(n, RI("SHIFTL", "A", n.rhs)) /\ Safe(n, RI("SHIFTR", "A", n.rhs))
  BY <1>1, <1>2, SafeShift
<1>4. SHLMask(n.rhs) \in Word /\ SRLMask(n.rhs) \in Word
  <2>1. PICK p \in Nat, q \in Nat : p = 2^n.rhs /\ q = 2^(24 - n.rhs) /\ p >= 1 /\ q >= 1 /\ p * q = 2^24
    <3>1. n.rhs \in 0 .. 24 /\ 24 - n.rhs \in 0 .. 24 /\ 24 \in 0 .. 24
      BY SMT, <1>1
    <3>2. PICK p \in Nat : p = 2^n.rhs /\ p >= 1
      BY <3>1, PowNext
    <3>3. PICK q \in Nat : q = 2^(24 - n.rhs) /\ q >= 1
      BY <3>1, PowNext
    <3>4. 2^24 = p * q
      BY <3>1, <3>2, <3>3, PowSplit
    <3>5. QED BY <3>2, <3>3, <3>4
  <2>2. p <= p * q /\ q <= p * q
    BY SMT, <2>1
  <2>3. SHLMask(n.rhs) = 2^24 - p /\ 2^24 - p \in Nat /\ 2^24 - p < 2^24
    BY SMT, <2>1, <2>2 DEF SHLMask
  <2>4. SRLMask(n.rhs) = q - 1 /\ q - 1 \in Nat /\ q - 1 < 2^24
    BY SMT, <2>1, <2>2 DEF SRLMask
  <2>5. QED BY <2>3, <2>4, WordIs
<1>5. CASE n.op = "shl"
  <2>1. Safe(n, Imm("AND", SHLMask(n.rhs), "="))
    BY <1>4, SafeImm
  <2>2. QED BY <1>3, <1>5, <2>1, CodeCases, Straight2 DEF Shl
<1>6. CASE n.op = "srl"
  <2>1. SrlForm(n.rhs) \in {"#", "+#", "="}
    BY DEF SrlForm
  <2>2. /\ SrlForm(n.rhs) = "#" => SRLMask(n.rhs) < 2^12
        /\ SrlForm(n.rhs) = "+#" => SRLMask(n.rhs) < 2^20
    <3>1. \A s \in 12 .. 16 : 2^(24 - s) - 1 < 2^12
      <4>1. \A s \in 12 .. 16 : s = 12 \/ s = 13 \/ s = 14 \/ s = 15 \/ s = 16
        BY SMT
      <4>2. /\ 2^(24 - 12) - 1 < 2^12 /\ 2^(24 - 13) - 1 < 2^12 /\ 2^(24 - 14) - 1 < 2^12
            /\ 2^(24 - 15) - 1 < 2^12 /\ 2^(24 - 16) - 1 < 2^12
        BY SMT
      <4>3. QED BY <4>1, <4>2
    <3>2. \A s \in 4 .. 11 : 2^(24 - s) - 1 < 2^20
      <4>1. \A s \in 4 .. 11 : s = 4 \/ s = 5 \/ s = 6 \/ s = 7 \/ s = 8 \/ s = 9 \/ s = 10 \/ s = 11
        BY SMT
      <4>2. /\ 2^(24 - 4) - 1 < 2^20 /\ 2^(24 - 5) - 1 < 2^20 /\ 2^(24 - 6) - 1 < 2^20
            /\ 2^(24 - 7) - 1 < 2^20 /\ 2^(24 - 8) - 1 < 2^20 /\ 2^(24 - 9) - 1 < 2^20
            /\ 2^(24 - 10) - 1 < 2^20 /\ 2^(24 - 11) - 1 < 2^20
        BY SMT
      <4>3. QED BY <4>1, <4>2
    <3>3. QED BY <3>1, <3>2 DEF SrlForm, SRLMask, immIn12To16, immIn4To11
  <2>3. Safe(n, Imm("AND", SRLMask(n.rhs), SrlForm(n.rhs)))
    BY <1>4, <2>1, <2>2, SafeImm
  <2>4. QED BY <1>3, <1>6, <2>3, CodeCases, Straight2 DEF Srl
<1>7. CASE n.op = "sra"
  BY <1>3, <1>7, CodeCases, Straight1 DEF Sra
<1>8. CASE n.op = "rotl"
  BY <1>3, <1>8, CodeCases, Straight1 DEF Rotl
<1>9. QED BY <1>5, <1>6, <1>7, <1>8 DEF ShiftOps

(* The sequences of arithmetic are straight.                               *)
LEMMA ArithCode ==
  ASSUME NEW n, Chosen(n), n.op \in ArithOps
  PROVE  Straight(n, CodeFor(n)) /\ Len(CodeFor(n)) \in Nat \ {0}
<1> USE NodeFacts
<1>1. "A" \in Regs /\ "B" \in Regs /\ "S" \in Regs /\ "T" \in Regs
  BY DEF Regs, GPR
<1>2. \A r1 \in Regs, r2 \in Regs : r2 # "T" => Safe(n, RR("RMO", r1, r2)) /\ Safe(n, RR("SUBR", r1, r2))
  BY SafeRR DEF Names
<1>3. \A op \in {"add", "sub", "mul", "sdiv", "udiv", "and", "or"} :
        (op \in {"sdiv", "udiv"} => n.rhs # 0) => Safe(n, Arith(op, n.const, n.rhs))
  BY SafeArith
<1>4. CASE n.op \in {"add", "sub", "mul", "sdiv", "udiv", "and", "or"}
  <2>1. Safe(n, Arith(n.op, n.const, n.rhs))
    BY <1>3, <1>4
  <2>2. QED BY <1>4, <2>1, CodeCases, Straight1
<1>5. CASE n.op \in {"srem", "urem"}
  <2>1. Safe(n, Arith("sdiv", n.const, n.rhs)) /\ Safe(n, Arith("mul", n.const, n.rhs))
    BY <1>3, <1>5
  <2>2. Safe(n, RR("RMO", "A", "S")) /\ Safe(n, RR("SUBR", "A", "S")) /\ Safe(n, RR("RMO", "S", "A"))
    BY <1>1, <1>2
  <2>3. CodeFor(n) = <<RR("RMO", "A", "S"), Arith("sdiv", n.const, n.rhs), Arith("mul", n.const, n.rhs),
                       RR("SUBR", "A", "S"), RR("RMO", "S", "A")>>
    BY <1>5, CodeCases DEF Rem
  <2>4. Straight(n, CodeFor(n)) /\ Len(CodeFor(n)) = 5
    BY <2>1, <2>2, <2>3, Straight5
  <2>5. QED BY <2>4
<1>6. CASE n.op = "xor"
  <2>1. Safe(n, Arith("or", n.const, n.rhs)) /\ Safe(n, Arith("and", n.const, n.rhs))
    BY <1>3
  <2>2. /\ Safe(n, RR("RMO", "A", "S")) /\ Safe(n, RR("RMO", "A", "B")) /\ Safe(n, RR("RMO", "S", "A"))
        /\ Safe(n, RR("SUBR", "A", "B")) /\ Safe(n, RR("RMO", "B", "A"))
    BY <1>1, <1>2
  <2>3. CodeFor(n) = <<RR("RMO", "A", "S"), Arith("or", n.const, n.rhs), RR("RMO", "A", "B"),
                       RR("RMO", "S", "A"), Arith("and", n.const, n.rhs), RR("SUBR", "A", "B"),
                       RR("RMO", "B", "A")>>
    BY <1>6, CodeCases DEF XorOf, Xor
  <2>4. Straight(n, CodeFor(n)) /\ Len(CodeFor(n)) = 7
    BY <2>1, <2>2, <2>3, Straight7
  <2>5. QED BY <2>4
<1>7. QED BY <1>4, <1>5, <1>6 DEF ArithOps

(* The sequence of setcc is straight, and is its comparison, MVSW and its  *)
(* formula.                                                                *)
LEMMA SetccCode ==
  ASSUME NEW n, Chosen(n), n.op \in {"setcc", "brcond"}
  PROVE  /\ Straight(n, Compare(n.const, n.rhs)) /\ Straight(n, <<RR("MVSW", "A", "A")>>)
         /\ Straight(n, SetccPats(n.cond))
         /\ Straight(n, Compare(n.const, n.rhs) \o <<RR("MVSW", "A", "A")>>)
         /\ Straight(n, Setcc(n.cond, n.const, n.rhs))
         /\ Len(Setcc(n.cond, n.const, n.rhs))
              = Len(Compare(n.const, n.rhs)) + 1 + Len(SetccPats(n.cond))
<1>1. /\ n.rhs \in Word /\ n.const \in BOOLEAN /\ n.cond \in Conds
      /\ "A" \in Regs /\ "T" \in Regs
  BY NodeFacts DEF Regs, GPR
<1>2. Safe(n, RR("COMPR", "A", "T")) /\ Safe(n, RR("MVSW", "A", "A"))
  BY <1>1, SafeRR DEF Names
<1>3. Straight(n, Compare(n.const, n.rhs))
  <2>1. CASE ~ n.const
    BY <1>2, <2>1, Straight1 DEF Compare
  <2>2. CASE n.const /\ n.rhs <= 4095
    <3>1. n.rhs < 2^12
      BY SMT, <2>2, <1>1, WordIs
    <3>2. Safe(n, Imm("COMP", n.rhs, "#"))
      BY <1>1, <3>1, SafeImm
    <3>3. QED BY <2>2, <3>2, Straight1 DEF Compare
  <2>3. CASE n.const /\ ~ (n.rhs <= 4095) /\ n.rhs <= 65535
    <3>1. n.rhs < 2^20
      BY SMT, <2>3, <1>1, WordIs
    <3>2. Safe(n, Imm("COMP", n.rhs, "+#"))
      BY <1>1, <3>1, SafeImm
    <3>3. QED BY <2>3, <3>2, Straight1 DEF Compare
  <2>4. CASE n.const /\ ~ (n.rhs <= 4095) /\ ~ (n.rhs <= 65535)
    <3>1. Safe(n, Load("T", n.rhs, FormOf(n.rhs)))
      BY <1>1, <2>4, SafeLoad
    <3>2. Straight(n, Materialize(n.rhs)) /\ Straight(n, <<RR("COMPR", "A", "T")>>)
      BY <1>2, <3>1, Straight1 DEF Materialize
    <3>3. Straight(n, Materialize(n.rhs) \o <<RR("COMPR", "A", "T")>>)
      BY <3>2, StraightJoin
    <3>4. QED BY <2>4, <3>3 DEF Compare
  <2>5. QED BY <2>1, <2>2, <2>3, <2>4, <1>1
<1>4. Straight(n, <<RR("MVSW", "A", "A")>>) /\ Len(<<RR("MVSW", "A", "A")>>) = 1
  BY <1>2, Straight1
<1>5. /\ Safe(n, AddImm(192)) /\ Safe(n, AddImm(64)) /\ Safe(n, AddImm(128)) /\ Safe(n, AndOne)
  <2>1. 192 \in Word /\ 64 \in Word /\ 128 \in Word /\ 1 \in Word
    BY SMT, SmallWords
  <2>2. 192 < 2^12 /\ 64 < 2^12 /\ 128 < 2^12 /\ 1 < 2^12
    BY SMT
  <2>3. QED BY <2>1, <2>2, SafeImm DEF AddImm, AndOne
<1>6. Safe(n, RI("SHIFTR", "A", 7)) /\ Safe(n, RI("SHIFTR", "A", 6))
  <2>1. 7 \in Word /\ 6 \in Word /\ 7 \in 1 .. 16 /\ 6 \in 1 .. 16
    BY SMT, SmallWords
  <2>2. QED BY <2>1, SafeShift
<1>7. Straight(n, SetccPats(n.cond))
  BY <1>1, <1>5, <1>6, Straight1, Straight2, Straight3 DEF SetccPats, Conds
<1>8. /\ Straight(n, Compare(n.const, n.rhs) \o <<RR("MVSW", "A", "A")>>)
      /\ Len(Compare(n.const, n.rhs) \o <<RR("MVSW", "A", "A")>>) = Len(Compare(n.const, n.rhs)) + 1
  BY <1>3, <1>4, StraightJoin
<1>9. QED BY <1>3, <1>4, <1>7, <1>8, StraightJoin DEF Setcc

(* A conditional branch ends with its only jump.                           *)
BrcondBody(cond, const, c) ==
  IF cond \in DOMAIN JumpOf
    THEN (IF const THEN Materialize(c) ELSE <<>>) \o <<RR("COMPR", "A", "T")>>
    ELSE Setcc(cond, const, c) \o <<Imm("COMP", 0, "#")>>

(* The jump it ends with.                                                  *)
BrcondJump(cond) == IF cond \in DOMAIN JumpOf THEN JumpOf[cond] ELSE "JGT"

(* The sequence of a branch is a straight one and a jump.                  *)
LEMMA BrcondCode ==
  ASSUME NEW n, Chosen(n), n.op = "brcond"
  PROVE  /\ Straight(n, BrcondBody(n.cond, n.const, n.rhs))
         /\ Brcond(n.cond, n.const, n.rhs)
              = BrcondBody(n.cond, n.const, n.rhs) \o <<Jump(BrcondJump(n.cond))>>
         /\ Jump(BrcondJump(n.cond)) \in Instruction /\ IsJump(Jump(BrcondJump(n.cond)))
         /\ OperandFits(Jump(BrcondJump(n.cond)))
         /\ BrcondJump(n.cond) \in {"JEQ", "JLT", "JGT"}
<1> DEFINE j == Jump(BrcondJump(n.cond))
<1>1. /\ n.rhs \in Word /\ n.const \in BOOLEAN /\ n.cond \in Conds
      /\ "A" \in Regs /\ "T" \in Regs /\ 0 \in Word /\ 0 < 2^12
  <2>1. 0 \in Word /\ 0 < 2^12
    BY SMT, SmallWords
  <2>2. QED BY <2>1, NodeFacts DEF Regs, GPR
<1>2. BrcondJump(n.cond) \in {"JEQ", "JLT", "JGT"}
  BY DEF BrcondJump, JumpOf
<1>3. j \in Instruction /\ IsJump(j) /\ OperandFits(j)
  BY <1>1, <1>2 DEF Jump, Instr, Instruction, IsJump, OperandFits, Regs, Names
<1>4. Safe(n, RR("COMPR", "A", "T")) /\ Safe(n, Imm("COMP", 0, "#"))
  BY <1>1, SafeRR, SafeImm DEF Names
<1>5. \A i : Safe(n, i) => i \in Instruction
  BY DEF Safe
<1>6. \A s, i : Straight(n, s) /\ Safe(n, i) => s \o <<i, j>> = (s \o <<i>>) \o <<j>>
  <2>1. TAKE s, i
  <2>2. HAVE Straight(n, s) /\ Safe(n, i)
  <2>3. s \in Seq(Instruction) /\ <<i>> \in Seq(Instruction) /\ <<j>> \in Seq(Instruction)
    BY <1>3, <1>5, <2>2 DEF Straight
  <2>4. <<i, j>> = <<i>> \o <<j>>
    BY <1>3, <1>5, <2>2
  <2>5. QED BY <2>3, <2>4, ConcatAssociative
<1>7. CASE n.cond \in DOMAIN JumpOf
  <2> DEFINE s == IF n.const THEN Materialize(n.rhs) ELSE <<>>
  <2>1. Straight(n, s)
    <3>1. CASE n.const
      <4>1. Safe(n, Load("T", n.rhs, FormOf(n.rhs)))
        BY <1>1, <3>1, SafeLoad
      <4>2. QED BY <3>1, <4>1, Straight1 DEF Materialize
    <3>2. CASE ~ n.const
      BY <3>2 DEF Straight
    <3>3. QED BY <3>1, <3>2
  <2>2. Straight(n, s \o <<RR("COMPR", "A", "T")>>)
    BY <1>4, <2>1, Straight1, StraightJoin
  <2>3. Brcond(n.cond, n.const, n.rhs) = s \o <<RR("COMPR", "A", "T"), j>>
    BY <1>7 DEF Brcond, BrcondJump
  <2>4. BrcondBody(n.cond, n.const, n.rhs) = s \o <<RR("COMPR", "A", "T")>>
    BY <1>7 DEF BrcondBody
  <2> HIDE DEF s, j
  <2>5. Brcond(n.cond, n.const, n.rhs) = (s \o <<RR("COMPR", "A", "T")>>) \o <<j>>
    BY <1>4, <1>6, <2>1, <2>3
  <2>6. QED BY <1>2, <1>3, <2>2, <2>4, <2>5 DEF j
<1>8. CASE ~ (n.cond \in DOMAIN JumpOf)
  <2> DEFINE s == Setcc(n.cond, n.const, n.rhs)
  <2>1. Straight(n, s)
    BY SetccCode
  <2>2. Straight(n, s \o <<Imm("COMP", 0, "#")>>)
    BY <1>4, <2>1, Straight1, StraightJoin
  <2>3. Brcond(n.cond, n.const, n.rhs) = s \o <<Imm("COMP", 0, "#"), j>>
    BY <1>8 DEF Brcond, BrcondJump
  <2>4. BrcondBody(n.cond, n.const, n.rhs) = s \o <<Imm("COMP", 0, "#")>>
    BY <1>8 DEF BrcondBody
  <2> HIDE DEF s, j
  <2>5. Brcond(n.cond, n.const, n.rhs) = (s \o <<Imm("COMP", 0, "#")>>) \o <<j>>
    BY <1>4, <1>6, <2>1, <2>3
  <2>6. QED BY <1>2, <1>3, <2>2, <2>4, <2>5 DEF j
<1>9. QED BY <1>7, <1>8

(* The sequence of a node is straight, but for the jump a branch ends with. *)
Body(n) == IF n.op = "brcond" THEN BrcondBody(n.cond, n.const, n.rhs) ELSE CodeFor(n)

(* Every sequence is a straight body, followed in a branch by its jump.    *)
LEMMA CodeShape ==
  ASSUME NEW n, Chosen(n)
  PROVE  /\ CodeFor(n) \in Seq(Instruction)
         /\ Straight(n, Body(n)) /\ Len(Body(n)) \in Nat
         /\ n.op # "brcond" => CodeFor(n) = Body(n) /\ Len(CodeFor(n)) # 0
         /\ n.op = "brcond" => /\ CodeFor(n) = Body(n) \o <<Jump(BrcondJump(n.cond))>>
                               /\ Len(CodeFor(n)) = Len(Body(n)) + 1
                               /\ CodeFor(n)[Len(Body(n)) + 1] = Jump(BrcondJump(n.cond))
                               /\ IsJump(Jump(BrcondJump(n.cond)))
                               /\ OperandFits(Jump(BrcondJump(n.cond)))
         /\ \A k \in 1 .. Len(Body(n)) : CodeFor(n)[k] = Body(n)[k]
<1>1. n.op \in ArithOps \cup ShiftOps \cup {"setcc", "brcond"}
  BY NodeFacts
<1>2. CASE n.op \in ArithOps \cup ShiftOps
  <2>1. n.op # "brcond"
    BY <1>2 DEF ArithOps, ShiftOps
  <2>2. QED BY <1>2, <2>1, ArithCode, ShiftCode DEF Body, Straight
<1>3. CASE n.op = "setcc"
  <2>1. CodeFor(n) = Setcc(n.cond, n.const, n.rhs) /\ Body(n) = CodeFor(n)
    BY <1>3, CodeCases DEF Body
  <2>2. Straight(n, CodeFor(n)) /\ Straight(n, Compare(n.const, n.rhs)) /\ Straight(n, SetccPats(n.cond))
        /\ Len(CodeFor(n)) = Len(Compare(n.const, n.rhs)) + 1 + Len(SetccPats(n.cond))
    BY <1>3, <2>1, SetccCode
  <2>3. Len(CodeFor(n)) \in Nat /\ Len(Compare(n.const, n.rhs)) \in Nat /\ Len(SetccPats(n.cond)) \in Nat
    BY <2>2, LenProperties DEF Straight
  <2>4. Len(CodeFor(n)) # 0
    BY SMT, <2>2, <2>3
  <2>5. QED BY <1>3, <2>1, <2>2, <2>3, <2>4 DEF Straight
<1>4. CASE n.op = "brcond"
  <2> DEFINE s == Body(n)  j == Jump(BrcondJump(n.cond))
  <2>1. CodeFor(n) = s \o <<j>> /\ Straight(n, s) /\ j \in Instruction /\ IsJump(j) /\ OperandFits(j)
    BY <1>4, CodeCases, BrcondCode DEF Body
  <2> HIDE DEF s, j
  <2>2. s \in Seq(Instruction) /\ <<j>> \in Seq(Instruction) /\ Len(<<j>>) = 1
    BY <2>1 DEF Straight
  <2>3. PICK l \in Nat : l = Len(s)
    BY <2>2, LenProperties
  <2>4. /\ s \o <<j>> \in Seq(Instruction) /\ Len(s \o <<j>>) = l + 1
        /\ \A k \in 1 .. l + 1 : (s \o <<j>>)[k] = IF k <= l THEN s[k] ELSE <<j>>[k - l]
    BY <2>2, <2>3, ConcatProperties
  <2>5. (\A k \in 1 .. l : k \in 1 .. l + 1 /\ k <= l) /\ l + 1 \in 1 .. l + 1 /\ ~ (l + 1 <= l) /\ (l + 1) - l = 1
    BY SMT
  <2>6. (s \o <<j>>)[l + 1] = j /\ \A k \in 1 .. l : (s \o <<j>>)[k] = s[k]
    BY <2>4, <2>5
  <2>7. QED BY <1>4, <2>1, <2>3, <2>4, <2>6 DEF s, j
<1>5. QED BY <1>1, <1>2, <1>3, <1>4

(* A run through five instructions.                                        *)
LEMMA Runs5 ==
  ASSUME NEW i1, NEW i2, NEW i3, NEW i4, NEW i5, NEW g, NEW f,
         Runs(<<i1, i2, i3, i4, i5>>, 5, g, f)
  PROVE  \E h1 \in RegFile, h2 \in RegFile, h3 \in RegFile, h4 \in RegFile :
           /\ h1 = Executed(i1, g) /\ h2 = Executed(i2, h1) /\ h3 = Executed(i3, h2)
           /\ h4 = Executed(i4, h3) /\ f = Executed(i5, h4)
<1> DEFINE c == <<i1, i2, i3, i4, i5>>
<1>1. PICK h \in [0 .. 5 -> RegFile] :
        h[0] = g /\ h[5] = f /\ \A k \in 1 .. 5 : h[k] = Executed(c[k], h[k - 1])
  BY DEF Runs
<1>2. c[1] = i1 /\ c[2] = i2 /\ c[3] = i3 /\ c[4] = i4 /\ c[5] = i5
  OBVIOUS
<1> HIDE DEF c
<1>3. /\ 1 \in 1 .. 5 /\ 1 - 1 = 0 /\ 2 \in 1 .. 5 /\ 2 - 1 = 1 /\ 3 \in 1 .. 5 /\ 3 - 1 = 2
      /\ 4 \in 1 .. 5 /\ 4 - 1 = 3 /\ 5 \in 1 .. 5 /\ 5 - 1 = 4
      /\ 1 \in 0 .. 5 /\ 2 \in 0 .. 5 /\ 3 \in 0 .. 5 /\ 4 \in 0 .. 5
  BY SMT
<1>4. /\ h[1] = Executed(i1, h[0]) /\ h[2] = Executed(i2, h[1]) /\ h[3] = Executed(i3, h[2])
      /\ h[4] = Executed(i4, h[3]) /\ h[5] = Executed(i5, h[4])
      /\ h[1] \in RegFile /\ h[2] \in RegFile /\ h[3] \in RegFile /\ h[4] \in RegFile
  BY <1>1, <1>2, <1>3
<1>5. QED BY <1>1, <1>4

(* A run through seven instructions.                                       *)
LEMMA Runs7 ==
  ASSUME NEW i1, NEW i2, NEW i3, NEW i4, NEW i5, NEW i6, NEW i7, NEW g, NEW f,
         Runs(<<i1, i2, i3, i4, i5, i6, i7>>, 7, g, f)
  PROVE  \E h1 \in RegFile, h2 \in RegFile, h3 \in RegFile, h4 \in RegFile,
            h5 \in RegFile, h6 \in RegFile :
           /\ h1 = Executed(i1, g) /\ h2 = Executed(i2, h1) /\ h3 = Executed(i3, h2)
           /\ h4 = Executed(i4, h3) /\ h5 = Executed(i5, h4) /\ h6 = Executed(i6, h5)
           /\ f = Executed(i7, h6)
<1> DEFINE c == <<i1, i2, i3, i4, i5, i6, i7>>
<1>1. PICK h \in [0 .. 7 -> RegFile] :
        h[0] = g /\ h[7] = f /\ \A k \in 1 .. 7 : h[k] = Executed(c[k], h[k - 1])
  BY DEF Runs
<1>2. c[1] = i1 /\ c[2] = i2 /\ c[3] = i3 /\ c[4] = i4 /\ c[5] = i5 /\ c[6] = i6 /\ c[7] = i7
  OBVIOUS
<1> HIDE DEF c
<1>3. /\ 1 \in 1 .. 7 /\ 1 - 1 = 0 /\ 2 \in 1 .. 7 /\ 2 - 1 = 1 /\ 3 \in 1 .. 7 /\ 3 - 1 = 2
      /\ 4 \in 1 .. 7 /\ 4 - 1 = 3 /\ 5 \in 1 .. 7 /\ 5 - 1 = 4 /\ 6 \in 1 .. 7 /\ 6 - 1 = 5
      /\ 7 \in 1 .. 7 /\ 7 - 1 = 6
      /\ 1 \in 0 .. 7 /\ 2 \in 0 .. 7 /\ 3 \in 0 .. 7 /\ 4 \in 0 .. 7 /\ 5 \in 0 .. 7 /\ 6 \in 0 .. 7
  BY SMT
<1>4. /\ h[1] = Executed(i1, h[0]) /\ h[2] = Executed(i2, h[1]) /\ h[3] = Executed(i3, h[2])
      /\ h[4] = Executed(i4, h[3]) /\ h[5] = Executed(i5, h[4]) /\ h[6] = Executed(i6, h[5])
      /\ h[7] = Executed(i7, h[6])
      /\ h[1] \in RegFile /\ h[2] \in RegFile /\ h[3] \in RegFile /\ h[4] \in RegFile
      /\ h[5] \in RegFile /\ h[6] \in RegFile
  BY <1>1, <1>2, <1>3
<1>5. QED BY <1>1, <1>4

-----------------------------------------------------------------------------
(* The registers a sequence for n finds.                                   *)
Start(n, g) == g \in RegFile /\ g["A"] = n.lhs /\ (~ n.const => g["T"] = n.rhs)

(* What the two forms of an operation compute.                             *)
Result(op, a, b) ==
  CASE op = "add" -> Wrap(a + b)
    [] op = "sub" -> Wrap(a - b)
    [] op = "mul" -> Times(a, b)
    [] op \in {"sdiv", "udiv"} -> Divided(a, b)
    [] op = "and" -> And(a, b)
    [] op = "or" -> Or(a, b)

(* Both forms of an operation leave its result in A, and S, B and T alone. *)
LEMMA ArithExecuted ==
  ASSUME NEW n, n.const \in BOOLEAN, NEW g \in RegFile, ~ n.const => g["T"] = n.rhs,
         NEW op \in {"add", "sub", "mul", "sdiv", "udiv", "and", "or"},
         NEW e, e = Executed(Arith(op, n.const, n.rhs), g)
  PROVE  /\ e["A"] = Result(op, g["A"], n.rhs)
         /\ \A r \in {"S", "B", "T"} : e[r] = g[r]
<1>1. "A" \in Regs /\ "S" \in Regs /\ "B" \in Regs /\ "T" \in Regs /\ "MEMREG" \in Regs
  BY DEF Regs, GPR
<1>2. \E u : \/ e = [g EXCEPT !["A"] = Result(op, g["A"], n.rhs)]
             \/ e = [g EXCEPT !["MEMREG"] = u, !["A"] = Result(op, g["A"], n.rhs)]
  <2>1. CASE n.const
    <3>1. e = Executed(Imm(Mnemonic[op], n.rhs, FormOf(n.rhs)), g)
      BY <2>1 DEF Arith
    <3>2. CASE op = "add"
      <4>1. e = Executed(Imm("ADD", n.rhs, FormOf(n.rhs)), g)
        BY <3>1, <3>2 DEF Mnemonic
      <4>2. e = [g EXCEPT !["A"] = Wrap(g["A"] + n.rhs)]
        BY <4>1, ExecutedImm
      <4>3. QED BY <4>2, <3>2 DEF Result
    <3>3. CASE op = "sub"
      <4>1. e = Executed(Imm("SUB", n.rhs, FormOf(n.rhs)), g)
        BY <3>1, <3>3 DEF Mnemonic
      <4>2. e = [g EXCEPT !["A"] = Wrap(g["A"] - n.rhs)]
        BY <4>1, ExecutedImm
      <4>3. QED BY <4>2, <3>3 DEF Result
    <3>4. CASE op = "mul"
      <4>1. e = Executed(Imm("MUL", n.rhs, FormOf(n.rhs)), g)
        BY <3>1, <3>4 DEF Mnemonic
      <4>2. e = [g EXCEPT !["A"] = Times(g["A"], n.rhs)]
        BY <4>1, ExecutedImm
      <4>3. QED BY <4>2, <3>4 DEF Result
    <3>5. CASE op = "and"
      <4>1. e = Executed(Imm("AND", n.rhs, FormOf(n.rhs)), g)
        BY <3>1, <3>5 DEF Mnemonic
      <4>2. e = [g EXCEPT !["A"] = And(g["A"], n.rhs)]
        BY <4>1, ExecutedImm
      <4>3. QED BY <4>2, <3>5 DEF Result
    <3>6. CASE op = "or"
      <4>1. e = Executed(Imm("OR", n.rhs, FormOf(n.rhs)), g)
        BY <3>1, <3>6 DEF Mnemonic
      <4>2. e = [g EXCEPT !["A"] = Or(g["A"], n.rhs)]
        BY <4>1, ExecutedImm
      <4>3. QED BY <4>2, <3>6 DEF Result
    <3>7. CASE op \in {"sdiv", "udiv"}
      <4>1. e = Executed(Imm("DIV", n.rhs, FormOf(n.rhs)), g)
        BY <3>1, <3>7 DEF Mnemonic
      <4>2. e = [g EXCEPT !["A"] = Divided(g["A"], n.rhs)]
        BY <4>1, ExecutedImm
      <4>3. QED BY <4>2, <3>7 DEF Result
    <3>8. QED BY <3>2, <3>3, <3>4, <3>5, <3>6, <3>7
  <2>2. CASE ~ n.const
    <3> DEFINE i == Arith(op, n.const, n.rhs)
    <3>1. i = RR(MnemonicR[op], "T", "A") /\ g["T"] = n.rhs
      BY <2>2 DEF Arith
    <3> HIDE DEF i
    <3>2. CASE op = "add"
      <4>1. e = [g EXCEPT !["A"] = Wrap(g["A"] + n.rhs)]
        BY <3>1, <3>2, ExecutedRR DEF MnemonicR, i
      <4>2. QED BY <3>2, <4>1 DEF Result
    <3>3. CASE op = "sub"
      <4>1. e = [g EXCEPT !["A"] = Wrap(g["A"] - n.rhs)]
        BY <3>1, <3>3, ExecutedRR DEF MnemonicR, i
      <4>2. QED BY <3>3, <4>1 DEF Result
    <3>4. CASE op = "mul"
      BY <3>1, <3>4, ExecutedRR DEF MnemonicR, Result, i
    <3>5. CASE op \in {"sdiv", "udiv"}
      BY <3>1, <3>5, ExecutedRR DEF MnemonicR, Result, i
    <3>6. CASE op = "and"
      BY <3>1, <3>6, ExecutedRR DEF MnemonicR, Result, i
    <3>7. CASE op = "or"
      BY <3>1, <3>7, ExecutedRR DEF MnemonicR, Result, i
    <3>8. QED BY <3>2, <3>3, <3>4, <3>5, <3>6, <3>7
  <2>3. QED BY <2>1, <2>2
<1>3. PICK w : w = Result(op, g["A"], n.rhs)
  OBVIOUS
<1>4. PICK u : e = [g EXCEPT !["A"] = w] \/ e = [g EXCEPT !["MEMREG"] = u, !["A"] = w]
  BY <1>2, <1>3
<1>5. e["A"] = w /\ \A r \in {"S", "B", "T"} : e[r] = g[r]
  <2>1. CASE e = [g EXCEPT !["A"] = w]
    BY <1>1, <2>1 DEF RegFile
  <2>2. CASE e = [g EXCEPT !["MEMREG"] = u, !["A"] = w]
    BY <1>1, <2>2 DEF RegFile
  <2>3. QED BY <1>4, <2>1, <2>2
<1>6. QED BY <1>3, <1>5

(* The unsigned nodes are owed only where their operands' signs agree.     *)
Agree(n) == IF n.op \in {"udiv", "urem"} THEN Signed(n.lhs) >= 0 /\ Signed(n.rhs) >= 0
            ELSE (Signed(n.lhs) >= 0) = (Signed(n.rhs) >= 0)

(* What the patterns owe a node: an unsigned one only where the signs      *)
(* agree.                                                                  *)
Owed(n) == IsUnsigned(n) => Agree(n)

(* The sign of a word is its top bit.                                      *)
LEMMA Positive ==
  ASSUME NEW a \in Word
  PROVE  (Signed(a) >= 0) = (a < 2^23)
<1>1. a \in Nat /\ a < 2^24
  BY WordIs
<1>2. QED BY SMT, <1>1, SignedIs

(* The sequence of a shift computes it.                                    *)
LEMMA ShiftMeaning ==
  ASSUME NEW n, Chosen(n), n.op \in ShiftOps, n.rhs \in 1 .. 16,
         NEW g, Start(n, g), NEW f, Runs(CodeFor(n), Len(CodeFor(n)), g, f)
  PROVE  Meaning(n, f["A"])
<1>1. /\ g \in RegFile /\ g["A"] = n.lhs /\ n.lhs \in Word /\ "A" \in Regs
      /\ n.lhs \in Nat /\ n.lhs < 2^24
  BY NodeFacts, WordIs DEF Start, Regs, GPR
<1>2. ShiftAmount(n.rhs) = n.rhs
  BY <1>1, Halves
<1>3. SUFFICES f["A"] = Value(n)
  BY DEF Meaning, ShiftOps
<1>4. CASE n.op = "shl"
  <2>1. CodeFor(n) = <<RI("SHIFTL", "A", n.rhs), Imm("AND", SHLMask(n.rhs), "=")>>
    BY <1>4, CodeCases DEF Shl
  <2>2. PICK e : e = Executed(RI("SHIFTL", "A", n.rhs), g)
    OBVIOUS
  <2>3. f = Executed(Imm("AND", SHLMask(n.rhs), "="), e) /\ e \in RegFile
    BY <2>1, <2>2, Runs2
  <2>4. e["A"] = RotatedLeft(n.lhs, ShiftAmount(n.rhs))
    BY <1>1, <2>2, ExecutedShift DEF RegFile
  <2>5. f["A"] = And(e["A"], SHLMask(n.rhs))
    BY <1>1, <2>3, ExecutedImm DEF RegFile
  <2>6. QED BY <1>1, <1>4, <2>4, <2>5, ShlValue DEF Value
<1>5. CASE n.op = "srl"
  <2>1. CodeFor(n) = <<RI("SHIFTR", "A", n.rhs), Imm("AND", SRLMask(n.rhs), SrlForm(n.rhs))>>
    BY <1>5, CodeCases DEF Srl
  <2>2. PICK e : e = Executed(RI("SHIFTR", "A", n.rhs), g)
    OBVIOUS
  <2>3. f = Executed(Imm("AND", SRLMask(n.rhs), SrlForm(n.rhs)), e) /\ e \in RegFile
    BY <2>1, <2>2, Runs2
  <2>4. e["A"] = ShiftedRight(n.lhs, ShiftAmount(n.rhs))
    BY <1>1, <2>2, ExecutedShift DEF RegFile
  <2>5. f["A"] = And(e["A"], SRLMask(n.rhs))
    BY <1>1, <2>3, ExecutedImm DEF RegFile
  <2>6. QED BY <1>1, <1>5, <2>4, <2>5, SrlValue DEF Value
<1>6. CASE n.op = "sra"
  <2>1. CodeFor(n) = <<RI("SHIFTR", "A", n.rhs)>>
    BY <1>6, CodeCases DEF Sra
  <2>2. f = Executed(RI("SHIFTR", "A", n.rhs), g)
    BY <2>1, Runs1
  <2>3. f["A"] = ShiftedRight(n.lhs, n.rhs)
    BY <1>1, <1>2, <2>2, ExecutedShift DEF RegFile
  <2>4. QED BY <1>6, <2>3 DEF Value, ShiftedRight
<1>7. CASE n.op = "rotl"
  <2>1. CodeFor(n) = <<RI("SHIFTL", "A", n.rhs)>>
    BY <1>7, CodeCases DEF Rotl
  <2>2. f = Executed(RI("SHIFTL", "A", n.rhs), g)
    BY <2>1, Runs1
  <2>3. f["A"] = RotatedLeft(n.lhs, n.rhs)
    BY <1>1, <1>2, <2>2, ExecutedShift DEF RegFile
  <2>4. QED BY <1>7, <2>3 DEF Value, RotatedLeft
<1>8. QED BY <1>4, <1>5, <1>6, <1>7 DEF ShiftOps

(* The sequence of an arithmetic node computes it.                         *)
LEMMA ArithMeaning ==
  ASSUME NEW n, Chosen(n), n.op \in ArithOps, Owed(n),
         NEW g, Start(n, g), NEW f, Runs(CodeFor(n), Len(CodeFor(n)), g, f)
  PROVE  Meaning(n, f["A"])
<1>1. /\ g \in RegFile /\ g["A"] = n.lhs /\ (~ n.const => g["T"] = n.rhs) /\ n.const \in BOOLEAN
      /\ n.lhs \in Word /\ n.rhs \in Word /\ n.lhs \in Nat /\ n.lhs < 2^24 /\ n.rhs \in Nat /\ n.rhs < 2^24
      /\ n.op \in {"sdiv", "udiv", "srem", "urem"} => n.rhs # 0
      /\ "A" \in Regs /\ "B" \in Regs /\ "S" \in Regs /\ "T" \in Regs
  BY NodeFacts, WordIs DEF Start, Regs, GPR
<1>2. n.op \in {"udiv", "urem"} => n.lhs < 2^23 /\ n.rhs < 2^23
  BY <1>1, Positive DEF Owed, IsUnsigned, Agree
<1>3. CASE n.op \in {"add", "sub", "mul", "sdiv", "udiv", "and", "or"}
  <2>1. CodeFor(n) = <<Arith(n.op, n.const, n.rhs)>>
    BY <1>3, CodeCases
  <2>2. f = Executed(Arith(n.op, n.const, n.rhs), g)
    BY <2>1, Runs1
  <2>3. f["A"] = Result(n.op, n.lhs, n.rhs)
    BY <1>1, <1>3, <2>2, ArithExecuted
  <2>4. CASE n.op \in {"add", "sub"}
    <3>1. f["A"] = Value(n)
      BY <2>3, <2>4 DEF Result, Value, Wrap
    <3>2. QED BY <2>4, <3>1 DEF Meaning
  <2>5. CASE n.op \in {"mul", "sdiv", "udiv"}
    <3>1. n.op = "udiv" => Divided(n.lhs, n.rhs) = n.lhs \div n.rhs
      BY <1>1, <1>2, DividedIs
    <3>2. f["A"] = Value(n)
      BY <2>3, <2>5, <3>1 DEF Result, Value
    <3>3. QED BY <2>5, <3>2 DEF Meaning
  <2>6. CASE n.op \in {"and", "or"}
    <3>1. Bitwise(24, n.lhs, n.rhs, And(n.lhs, n.rhs), Or(n.lhs, n.rhs), Or(n.lhs, n.rhs) - And(n.lhs, n.rhs))
      BY <1>1, AndBitwise DEF Or
    <3>2. 24 - 1 = 23
      BY SMT
    <3>3. \A k \in 0 .. 23 :
            /\ Bit(And(n.lhs, n.rhs), k) = 1 <=> Bit(n.lhs, k) = 1 /\ Bit(n.rhs, k) = 1
            /\ Bit(Or(n.lhs, n.rhs), k) = 1 <=> Bit(n.lhs, k) = 1 \/ Bit(n.rhs, k) = 1
      BY <3>1, <3>2 DEF Bitwise
    <3>4. QED BY <2>3, <2>6, <3>3 DEF Result, Meaning, Combined
  <2>7. QED BY <1>3, <2>4, <2>5, <2>6
<1>4. CASE n.op \in {"srem", "urem"}
  <2>1. CodeFor(n) = <<RR("RMO", "A", "S"), Arith("sdiv", n.const, n.rhs), Arith("mul", n.const, n.rhs),
                       RR("SUBR", "A", "S"), RR("RMO", "S", "A")>>
        /\ Len(CodeFor(n)) = 5
    BY <1>4, CodeCases DEF Rem
  <2>2. Runs(<<RR("RMO", "A", "S"), Arith("sdiv", n.const, n.rhs), Arith("mul", n.const, n.rhs),
               RR("SUBR", "A", "S"), RR("RMO", "S", "A")>>, 5, g, f)
    BY <2>1
  <2>3. PICK h1 \in RegFile, h2 \in RegFile, h3 \in RegFile, h4 \in RegFile :
          /\ h1 = Executed(RR("RMO", "A", "S"), g)
          /\ h2 = Executed(Arith("sdiv", n.const, n.rhs), h1)
          /\ h3 = Executed(Arith("mul", n.const, n.rhs), h2)
          /\ h4 = Executed(RR("SUBR", "A", "S"), h3)
          /\ f = Executed(RR("RMO", "S", "A"), h4)
    BY <2>2, Runs5
  <2>4. h1["A"] = n.lhs /\ h1["S"] = n.lhs /\ h1["T"] = g["T"]
    BY <1>1, <2>3, ExecutedRR DEF RegFile
  <2>5. h2["A"] = Divided(n.lhs, n.rhs) /\ h2["S"] = n.lhs /\ h2["T"] = g["T"]
    <3>1. h2["A"] = Result("sdiv", h1["A"], n.rhs) /\ h2["S"] = h1["S"] /\ h2["T"] = h1["T"]
      BY <1>1, <2>3, <2>4, ArithExecuted
    <3>2. QED BY <2>4, <3>1 DEF Result
  <2>6. h3["A"] = Times(Divided(n.lhs, n.rhs), n.rhs) /\ h3["S"] = n.lhs
    <3>1. h3["A"] = Result("mul", h2["A"], n.rhs) /\ h3["S"] = h2["S"]
      BY <1>1, <2>3, <2>5, ArithExecuted
    <3>2. QED BY <2>5, <3>1 DEF Result
  <2>7. h4["S"] = Wrap(h3["S"] - h3["A"])
    BY <1>1, <2>3, ExecutedRR DEF RegFile
  <2>8. f["A"] = h4["S"]
    BY <1>1, <2>3, ExecutedRR DEF RegFile
  <2>9. f["A"] = Wrap(n.lhs - Times(Divided(n.lhs, n.rhs), n.rhs))
    BY <2>6, <2>7, <2>8
  <2>10. n.rhs # 0
    BY <1>1, <1>4
  <2>11. CASE n.op = "srem"
    <3>1. f["A"] = Wrap(Signed(n.lhs) - Quotient(Signed(n.lhs), Signed(n.rhs)) * Signed(n.rhs))
      BY <1>1, <2>9, <2>10, RemainderIs
    <3>2. f["A"] = Value(n)
      BY <2>11, <3>1 DEF Value
    <3>3. QED BY <2>11, <3>2 DEF Meaning
  <2>12. CASE n.op = "urem"
    <3>1. f["A"] = n.lhs % n.rhs
      BY <1>1, <1>2, <2>9, <2>10, <2>12, RemainderIs
    <3>2. f["A"] = Value(n)
      BY <2>12, <3>1 DEF Value
    <3>3. QED BY <2>12, <3>2 DEF Meaning
  <2>13. QED BY <1>4, <2>11, <2>12
<1>5. CASE n.op = "xor"
  <2> DEFINE a == n.lhs  b == n.rhs
  <2>1. CodeFor(n) = <<RR("RMO", "A", "S"), Arith("or", n.const, n.rhs), RR("RMO", "A", "B"),
                       RR("RMO", "S", "A"), Arith("and", n.const, n.rhs), RR("SUBR", "A", "B"),
                       RR("RMO", "B", "A")>>
        /\ Len(CodeFor(n)) = 7
    BY <1>5, CodeCases DEF XorOf, Xor
  <2>2. Runs(<<RR("RMO", "A", "S"), Arith("or", n.const, n.rhs), RR("RMO", "A", "B"),
               RR("RMO", "S", "A"), Arith("and", n.const, n.rhs), RR("SUBR", "A", "B"),
               RR("RMO", "B", "A")>>, 7, g, f)
    BY <2>1
  <2>3. PICK h1 \in RegFile, h2 \in RegFile, h3 \in RegFile, h4 \in RegFile,
             h5 \in RegFile, h6 \in RegFile :
          /\ h1 = Executed(RR("RMO", "A", "S"), g)
          /\ h2 = Executed(Arith("or", n.const, n.rhs), h1)
          /\ h3 = Executed(RR("RMO", "A", "B"), h2)
          /\ h4 = Executed(RR("RMO", "S", "A"), h3)
          /\ h5 = Executed(Arith("and", n.const, n.rhs), h4)
          /\ h6 = Executed(RR("SUBR", "A", "B"), h5)
          /\ f = Executed(RR("RMO", "B", "A"), h6)
    BY <2>2, Runs7
  <2>4. h1["A"] = a /\ h1["S"] = a /\ h1["T"] = g["T"]
    BY <1>1, <2>3, ExecutedRR DEF RegFile
  <2>5. h2["A"] = Or(a, b) /\ h2["S"] = a /\ h2["T"] = g["T"]
    <3>1. h2["A"] = Result("or", h1["A"], n.rhs) /\ h2["S"] = h1["S"] /\ h2["T"] = h1["T"]
      BY <1>1, <2>3, <2>4, ArithExecuted
    <3>2. QED BY <2>4, <3>1 DEF Result
  <2>6. h3["B"] = Or(a, b) /\ h3["S"] = a /\ h3["T"] = g["T"]
    BY <1>1, <2>3, <2>5, ExecutedRR DEF RegFile
  <2>7. h4["A"] = a /\ h4["B"] = Or(a, b) /\ h4["T"] = g["T"]
    BY <1>1, <2>3, <2>6, ExecutedRR DEF RegFile
  <2>8. h5["A"] = And(a, b) /\ h5["B"] = Or(a, b)
    <3>1. h5["A"] = Result("and", h4["A"], n.rhs) /\ h5["B"] = h4["B"]
      BY <1>1, <2>3, <2>7, ArithExecuted
    <3>2. QED BY <2>7, <3>1 DEF Result
  <2>9. h6["B"] = Wrap(h5["B"] - h5["A"])
    BY <1>1, <2>3, ExecutedRR DEF RegFile
  <2>10. f["A"] = h6["B"]
    BY <1>1, <2>3, ExecutedRR DEF RegFile
  <2>11. PICK x : x = Or(a, b) - And(a, b) /\ Bitwise(24, a, b, And(a, b), Or(a, b), x)
    BY <1>1, AndBitwise DEF Or
  <2>12. x \in Nat /\ x < 2^24
    BY <2>11 DEF Bitwise, Below
  <2>13. f["A"] = x
    BY <2>8, <2>9, <2>10, <2>11, <2>12, WrapWord
  <2>14. 24 - 1 = 23
    BY SMT
  <2>15. \A k \in 0 .. 23 : Bit(x, k) = 1 <=> Bit(a, k) # Bit(b, k)
    BY <2>11, <2>14 DEF Bitwise
  <2>16. QED BY <1>5, <2>13, <2>15 DEF Meaning, Combined
<1>6. QED BY <1>3, <1>4, <1>5 DEF ArithOps

(* What the condition code says of a condition.                            *)
Says(cond, v) ==
  CASE cond = "eq" -> v = EQ
    [] cond = "ne" -> v # EQ
    [] cond \in {"lt", "ult"} -> v = LT
    [] cond \in {"le", "ule"} -> v # GT
    [] cond \in {"gt", "ugt"} -> v = GT
    [] cond \in {"ge", "uge"} -> v # LT

(* The three values of the condition code differ.                          *)
LEMMA CodesDiffer ==
  LT # EQ /\ EQ # GT /\ LT # GT
BY SMT DEF LT, EQ, GT

(* After the comparison, what the condition code says of a condition is    *)
(* what LLVM IR says of the operands.                                      *)
LEMMA SaysHolds ==
  ASSUME NEW n, Chosen(n), n.op \in {"setcc", "brcond"}, Owed(n)
  PROVE  Says(n.cond, Compared(n.lhs, n.rhs)) = Holds(n.cond, n.lhs, n.rhs)
<1>1. n.lhs \in Word /\ n.rhs \in Word /\ n.cond \in Conds
  BY NodeFacts
<1>2. PICK a \in Nat, b \in Nat : a = n.lhs /\ b = n.rhs /\ a < 2^24 /\ b < 2^24
  BY <1>1, WordIs
<1>3. PICK s \in Int, t \in Int : s = Signed(a) /\ t = Signed(b)
  BY <1>1, <1>2, SignedIs
<1>4. /\ a < 2^23 => s = a
      /\ a >= 2^23 => s = a - 2^24
      /\ b < 2^23 => t = b
      /\ b >= 2^23 => t = b - 2^24
  BY <1>1, <1>2, <1>3, SignedIs
<1>5. (s = t) = (a = b)
  BY SMT, <1>2, <1>4
<1>6. n.cond \in {"ult", "ule", "ugt", "uge"} => (s < t) = (a < b) /\ (s > t) = (a > b)
  <2>1. n.cond \in {"ult", "ule", "ugt", "uge"} => (s >= 0) = (t >= 0)
    BY <1>2, <1>3 DEF Owed, IsUnsigned, Agree
  <2>2. (s >= 0) = (t >= 0) => (s < t) = (a < b) /\ (s > t) = (a > b)
    BY SMT, <1>2, <1>4
  <2>3. QED BY <2>1, <2>2
<1>7. Compared(a, b) = IF s < t THEN LT ELSE IF a = b THEN EQ ELSE GT
  BY <1>3 DEF Compared
<1>8. /\ (Compared(a, b) = LT) = (s < t)
      /\ (Compared(a, b) = EQ) = (a = b)
      /\ (Compared(a, b) = GT) = (s > t)
  <2>1. CASE s < t
    <3>1. Compared(a, b) = LT /\ ~ (s = t) /\ ~ (s > t)
      BY <1>7, <2>1
    <3>2. QED BY <3>1, <2>1, <1>5, CodesDiffer
  <2>2. CASE s = t
    <3>1. Compared(a, b) = EQ /\ ~ (s < t) /\ ~ (s > t)
      BY <1>5, <1>7, <2>2
    <3>2. QED BY <3>1, <2>2, <1>5, CodesDiffer
  <2>3. CASE s > t
    <3>1. Compared(a, b) = GT /\ ~ (s < t) /\ ~ (s = t)
      BY <1>5, <1>7, <2>3
    <3>2. QED BY <3>1, <2>3, <1>5, CodesDiffer
  <2>4. QED BY SMT, <2>1, <2>2, <2>3
<1>9. /\ (~ (s < t)) = (s >= t) /\ (~ (s > t)) = (s <= t)
      /\ (~ (a < b)) = (a >= b) /\ (~ (a > b)) = (a <= b)
  BY SMT
<1>10. Holds(n.cond, a, b) =
         CASE n.cond = "eq"  -> a = b
           [] n.cond = "ne"  -> a # b
           [] n.cond = "lt"  -> s < t
           [] n.cond = "le"  -> s <= t
           [] n.cond = "gt"  -> s > t
           [] n.cond = "ge"  -> s >= t
           [] n.cond = "ult" -> a < b
           [] n.cond = "ule" -> a <= b
           [] n.cond = "ugt" -> a > b
           [] n.cond = "uge" -> a >= b
  BY <1>3 DEF Holds
<1>11. Says(n.cond, Compared(a, b)) = Holds(n.cond, a, b)
  BY <1>1, <1>6, <1>8, <1>9, <1>10 DEF Says, Conds
<1>12. QED BY <1>2, <1>11

(* Two instructions put one after the other.                               *)
LEMMA Pair ==
  ASSUME NEW S, NEW x \in S, NEW y \in S
  PROVE  <<x>> \o <<y>> = <<x, y>> /\ Len(<<x, y>>) = 2
<1> DEFINE s == <<x>>  t == <<y>>  p == <<x, y>>
<1>1. s \in Seq(S) /\ t \in Seq(S) /\ p \in Seq(S) /\ Len(s) = 1 /\ Len(t) = 1 /\ Len(p) = 2
      /\ s[1] = x /\ t[1] = y /\ p[1] = x /\ p[2] = y
  OBVIOUS
<1> HIDE DEF s, t, p
<1>2. /\ s \o t \in Seq(S) /\ Len(s \o t) = 1 + 1
      /\ \A i \in 1 .. 1 + 1 : (s \o t)[i] = IF i <= 1 THEN s[i] ELSE t[i - 1]
  BY <1>1, ConcatProperties
<1>3. 1 + 1 = 2 /\ 1 \in 1 .. 1 + 1 /\ 2 \in 1 .. 1 + 1 /\ 1 <= 1 /\ ~ (2 <= 1) /\ 2 - 1 = 1
      /\ \A i \in 1 .. 2 : i = 1 \/ i = 2
  BY SMT
<1>4. Len(s \o t) = 2 /\ (s \o t)[1] = x /\ (s \o t)[2] = y
  BY <1>1, <1>2, <1>3
<1>5. \A i \in 1 .. 2 : (s \o t)[i] = p[i]
  BY <1>1, <1>3, <1>4
<1>6. s \o t = p
  BY <1>1, <1>2, <1>4, <1>5, SeqEqual
<1>7. QED BY <1>1, <1>6 DEF s, t, p

(* Each form of the comparison leaves its condition code in SW.            *)
LEMMA CompareRuns ==
  ASSUME NEW n, Chosen(n), n.op \in {"setcc", "brcond"}, NEW g, Start(n, g),
         NEW f, Runs(Compare(n.const, n.rhs), Len(Compare(n.const, n.rhs)), g, f)
  PROVE  f["SW"] = Compared(n.lhs, n.rhs)
<1>1. /\ g \in RegFile /\ g["A"] = n.lhs /\ (~ n.const => g["T"] = n.rhs) /\ n.const \in BOOLEAN
      /\ "A" \in Regs /\ "T" \in Regs /\ "SW" \in Regs
  BY NodeFacts DEF Start, Regs, GPR
<1>2. CASE ~ n.const
  <2>1. Compare(n.const, n.rhs) = <<RR("COMPR", "A", "T")>>
    BY <1>2 DEF Compare
  <2>2. f = Executed(RR("COMPR", "A", "T"), g)
    BY <2>1, Runs1
  <2>3. QED BY <1>1, <1>2, <2>2, ExecutedRR DEF RegFile
<1>3. CASE n.const /\ n.rhs <= 65535
  <2>1. PICK form : Compare(n.const, n.rhs) = <<Imm("COMP", n.rhs, form)>>
    BY <1>3 DEF Compare
  <2>2. f = Executed(Imm("COMP", n.rhs, form), g)
    BY <2>1, Runs1
  <2>3. QED BY <1>1, <2>2, ExecutedImm DEF RegFile
<1>4. CASE n.const /\ ~ (n.rhs <= 65535)
  <2> DEFINE l == Load("T", n.rhs, FormOf(n.rhs))
  <2>1. Compare(n.const, n.rhs) = <<l>> \o <<RR("COMPR", "A", "T")>>
    <3>1. ~ (n.rhs <= 4095)
      <4>1. n.rhs \in Nat
        BY NodeFacts, WordIs
      <4>2. QED BY SMT, <1>4, <4>1
    <3>2. QED BY <1>4, <3>1 DEF Compare, Materialize
  <2>2. Compare(n.const, n.rhs) = <<l, RR("COMPR", "A", "T")>>
        /\ Len(Compare(n.const, n.rhs)) = 2
    <3>1. l \in Instruction /\ RR("COMPR", "A", "T") \in Instruction
      <4>1. n.rhs \in Word
        BY NodeFacts
      <4>2. Safe(n, l) /\ Safe(n, RR("COMPR", "A", "T"))
        BY <1>1, <1>4, <4>1, SafeLoad, SafeRR DEF Names
      <4>3. QED BY <4>2 DEF Safe
    <3> HIDE DEF l
    <3>2. QED BY <2>1, <3>1, Pair
  <2>3. PICK e : e = Executed(l, g)
    OBVIOUS
  <2> HIDE DEF l
  <2>4. f = Executed(RR("COMPR", "A", "T"), e) /\ e \in RegFile
    BY <2>2, <2>3, Runs2
  <2>5. e["A"] = n.lhs /\ e["T"] = n.rhs
    BY <1>1, <2>3, ExecutedLoad DEF RegFile, l
  <2>6. QED BY <1>1, <2>4, <2>5, ExecutedRR DEF RegFile
<1>5. QED BY <1>1, <1>2, <1>3, <1>4

(* What the formulas of SetccPats need of a number.                        *)
Plain(w) == /\ Wrap(w) = w /\ And(w, 1) = w % 2
            /\ ShiftedRight(w, ShiftAmount(6)) = w \div 64
            /\ ShiftedRight(w, ShiftAmount(7)) = w \div 128

(* Numbers of ten bits have it.                                            *)
LEMMA Small ==
  ASSUME NEW w \in 0 .. 1023
  PROVE  Plain(w)
<1>1. w \in Nat /\ w < 2^24 /\ w < 2^23
  BY SMT
<1>2. w \in Word /\ Wrap(w) = w /\ Signed(w) = w
  BY <1>1, WordIs, WrapWord, SignedIs
<1>3. And(w, 1) = w % 2
  <2>1. PICK j \in 0 .. 24, m \in Nat : j = 1 /\ m = 1 /\ m = 2^j - 1 /\ 2^j = 2
    <3>1. 1 \in 0 .. 24 /\ 1 \in Nat /\ 1 = 2^1 - 1 /\ 2^1 = 2
      BY SMT
    <3>2. QED BY <3>1
  <2>2. And(w, m) = w % 2^j
    BY <1>1, <2>1, AndLow
  <2>3. QED BY <2>1, <2>2
<1>4. ShiftAmount(6) = 6 /\ ShiftAmount(7) = 7
  BY SMT DEF ShiftAmount
<1>5. PICK p \in Nat, q \in Nat : p = w \div 64 /\ q = w \div 128 /\ p < 2^24 /\ q < 2^24
  BY SMT
<1>6. Wrap(p) = p /\ Wrap(q) = q
  BY <1>5, WrapWord
<1>7. ShiftedRight(w, 6) = Wrap(w \div 64) /\ ShiftedRight(w, 7) = Wrap(w \div 128)
  <2>1. 2^6 = 64 /\ 2^7 = 128
    BY SMT
  <2>2. ShiftedRight(w, 6) = Wrap(w \div 2^6) /\ ShiftedRight(w, 7) = Wrap(w \div 2^7)
    BY <1>2 DEF ShiftedRight
  <2>3. QED BY <2>1, <2>2
<1>8. QED BY <1>2, <1>3, <1>4, <1>5, <1>6, <1>7 DEF Plain

(* The formula of each condition makes 1 or 0 from the condition code.     *)
LEMMA SetccValue ==
  ASSUME NEW n, NEW g \in RegFile, g["A"] \in {LT, EQ, GT}, n.cond \in Conds,
         NEW f, Runs(SetccPats(n.cond), Len(SetccPats(n.cond)), g, f)
  PROVE  f["A"] = IF Says(n.cond, g["A"]) THEN 1 ELSE 0
<1> DEFINE v == g["A"]
<1>1. "A" \in Regs
  BY DEF Regs, GPR
<1>2. v \in {64, 0, 128} /\ LT = 64 /\ EQ = 0 /\ GT = 128
  BY DEF LT, EQ, GT
<1>3. \A h \in RegFile : /\ Executed(AddImm(192), h)["A"] = Wrap(h["A"] + 192)
                         /\ Executed(AddImm(64), h)["A"] = Wrap(h["A"] + 64)
                         /\ Executed(AddImm(128), h)["A"] = Wrap(h["A"] + 128)
                         /\ Executed(AndOne, h)["A"] = And(h["A"], 1)
                         /\ Executed(RI("SHIFTR", "A", 6), h)["A"] = ShiftedRight(h["A"], ShiftAmount(6))
                         /\ Executed(RI("SHIFTR", "A", 7), h)["A"] = ShiftedRight(h["A"], ShiftAmount(7))
  <2>1. TAKE h \in RegFile
  <2>2. /\ Executed(AddImm(192), h) = [h EXCEPT !["A"] = Wrap(h["A"] + 192)]
        /\ Executed(AddImm(64), h) = [h EXCEPT !["A"] = Wrap(h["A"] + 64)]
        /\ Executed(AddImm(128), h) = [h EXCEPT !["A"] = Wrap(h["A"] + 128)]
        /\ Executed(AndOne, h) = [h EXCEPT !["A"] = And(h["A"], 1)]
    BY ExecutedImm DEF AddImm, AndOne
  <2>3. /\ Executed(RI("SHIFTR", "A", 6), h) = [h EXCEPT !["A"] = ShiftedRight(h["A"], ShiftAmount(6))]
        /\ Executed(RI("SHIFTR", "A", 7), h) = [h EXCEPT !["A"] = ShiftedRight(h["A"], ShiftAmount(7))]
    BY ExecutedShift
  <2>4. QED BY <1>1, <2>2, <2>3 DEF RegFile
<1>4. \A w \in 0 .. 1023 : Plain(w)
  BY Small
<1>5. CASE n.cond = "eq"
  <2>1. SetccPats(n.cond) = <<AddImm(192), RI("SHIFTR", "A", 7), AndOne>>
    BY <1>5 DEF SetccPats
  <2>2. PICK h1 \in RegFile, h2 \in RegFile :
          h1 = Executed(AddImm(192), g) /\ h2 = Executed(RI("SHIFTR", "A", 7), h1) /\ f = Executed(AndOne, h2)
    BY <2>1, Runs3
  <2>3. h1["A"] = Wrap(v + 192) /\ h2["A"] = ShiftedRight(h1["A"], ShiftAmount(7)) /\ f["A"] = And(h2["A"], 1)
    BY <1>3, <2>2
  <2> HIDE DEF v
  <2>4. PICK x \in 0 .. 1023 : x = v + 192
    BY SMT, <1>2
  <2>5. PICK y \in 0 .. 1023 : y = x \div 128
    BY SMT
  <2>6. y % 2 = IF v = 0 THEN 1 ELSE 0
    BY SMT, <1>2, <2>4, <2>5
  <2>7. Plain(x) /\ Plain(y)
    BY <1>4, ZenonT(60)
  <2>8. Wrap(x) = x /\ And(y, 1) = y % 2 /\ ShiftedRight(x, ShiftAmount(7)) = y
    BY <2>5, <2>7 DEF Plain
  <2>9. f["A"] = y % 2
    BY <2>3, <2>4, <2>8
  <2>10. Says(n.cond, v) = (v = 0)
    BY <1>2, <1>5 DEF Says
  <2>11. QED BY <2>6, <2>9, <2>10 DEF v
<1>6. CASE n.cond = "ne"
  <2>1. SetccPats(n.cond) = <<AddImm(64), RI("SHIFTR", "A", 7)>>
    BY <1>6 DEF SetccPats
  <2>2. PICK h1 \in RegFile : h1 = Executed(AddImm(64), g) /\ f = Executed(RI("SHIFTR", "A", 7), h1)
    BY <2>1, Runs2
  <2>3. h1["A"] = Wrap(v + 64) /\ f["A"] = ShiftedRight(h1["A"], ShiftAmount(7))
    BY <1>3, <2>2
  <2> HIDE DEF v
  <2>4. PICK x \in 0 .. 1023 : x = v + 64
    BY SMT, <1>2
  <2>5. PICK y \in 0 .. 1023 : y = x \div 128
    BY SMT
  <2>6. y = IF v # 0 THEN 1 ELSE 0
    BY SMT, <1>2, <2>4, <2>5
  <2>7. Plain(x) /\ Plain(y)
    BY <1>4, ZenonT(60)
  <2>8. Wrap(x) = x /\ And(y, 1) = y % 2 /\ ShiftedRight(x, ShiftAmount(7)) = y
    BY <2>5, <2>7 DEF Plain
  <2>9. f["A"] = y
    BY <2>3, <2>4, <2>8
  <2>10. Says(n.cond, v) = (v # 0)
    BY <1>2, <1>6 DEF Says
  <2>11. QED BY <2>6, <2>9, <2>10 DEF v
<1>7. CASE n.cond \in {"lt", "ult"}
  <2>1. SetccPats(n.cond) = <<RI("SHIFTR", "A", 6), AndOne>>
    BY <1>7 DEF SetccPats
  <2>2. PICK h1 \in RegFile : h1 = Executed(RI("SHIFTR", "A", 6), g) /\ f = Executed(AndOne, h1)
    BY <2>1, Runs2
  <2>3. h1["A"] = ShiftedRight(v, ShiftAmount(6)) /\ f["A"] = And(h1["A"], 1)
    BY <1>3, <2>2
  <2> HIDE DEF v
  <2>4. PICK x \in 0 .. 1023 : x = v
    BY SMT, <1>2
  <2>5. PICK y \in 0 .. 1023 : y = x \div 64
    BY SMT
  <2>6. y % 2 = IF v = 64 THEN 1 ELSE 0
    BY SMT, <1>2, <2>4, <2>5
  <2>7. Plain(x) /\ Plain(y)
    BY <1>4, ZenonT(60)
  <2>8. Wrap(x) = x /\ And(y, 1) = y % 2 /\ ShiftedRight(x, ShiftAmount(6)) = y
    BY <2>5, <2>7 DEF Plain
  <2>9. f["A"] = y % 2
    BY <2>3, <2>4, <2>8
  <2>10. Says(n.cond, v) = (v = 64)
    BY <1>2, <1>7 DEF Says
  <2>11. QED BY <2>6, <2>9, <2>10 DEF v
<1>8. CASE n.cond \in {"le", "ule"}
  <2>1. SetccPats(n.cond) = <<AddImm(128), RI("SHIFTR", "A", 7), AndOne>>
    BY <1>8 DEF SetccPats
  <2>2. PICK h1 \in RegFile, h2 \in RegFile :
          h1 = Executed(AddImm(128), g) /\ h2 = Executed(RI("SHIFTR", "A", 7), h1) /\ f = Executed(AndOne, h2)
    BY <2>1, Runs3
  <2>3. h1["A"] = Wrap(v + 128) /\ h2["A"] = ShiftedRight(h1["A"], ShiftAmount(7)) /\ f["A"] = And(h2["A"], 1)
    BY <1>3, <2>2
  <2> HIDE DEF v
  <2>4. PICK x \in 0 .. 1023 : x = v + 128
    BY SMT, <1>2
  <2>5. PICK y \in 0 .. 1023 : y = x \div 128
    BY SMT
  <2>6. y % 2 = IF v # 128 THEN 1 ELSE 0
    BY SMT, <1>2, <2>4, <2>5
  <2>7. Plain(x) /\ Plain(y)
    BY <1>4, ZenonT(60)
  <2>8. Wrap(x) = x /\ And(y, 1) = y % 2 /\ ShiftedRight(x, ShiftAmount(7)) = y
    BY <2>5, <2>7 DEF Plain
  <2>9. f["A"] = y % 2
    BY <2>3, <2>4, <2>8
  <2>10. Says(n.cond, v) = (v # 128)
    BY <1>2, <1>8 DEF Says
  <2>11. QED BY <2>6, <2>9, <2>10 DEF v
<1>9. CASE n.cond \in {"gt", "ugt"}
  <2>1. SetccPats(n.cond) = <<RI("SHIFTR", "A", 7)>>
    BY <1>9 DEF SetccPats
  <2>2. f = Executed(RI("SHIFTR", "A", 7), g)
    BY <2>1, Runs1
  <2>3. f["A"] = ShiftedRight(v, ShiftAmount(7))
    BY <1>3, <2>2
  <2> HIDE DEF v
  <2>4. PICK x \in 0 .. 1023 : x = v
    BY SMT, <1>2
  <2>5. PICK y \in 0 .. 1023 : y = x \div 128
    BY SMT
  <2>6. y = IF v = 128 THEN 1 ELSE 0
    BY SMT, <1>2, <2>4, <2>5
  <2>7. Plain(x) /\ Plain(y)
    BY <1>4, ZenonT(60)
  <2>8. Wrap(x) = x /\ And(y, 1) = y % 2 /\ ShiftedRight(x, ShiftAmount(7)) = y
    BY <2>5, <2>7 DEF Plain
  <2>9. f["A"] = y
    BY <2>3, <2>4, <2>8
  <2>10. Says(n.cond, v) = (v = 128)
    BY <1>2, <1>9 DEF Says
  <2>11. QED BY <2>6, <2>9, <2>10 DEF v
<1>10. CASE n.cond \in {"ge", "uge"}
  <2>1. SetccPats(n.cond) = <<AddImm(64), RI("SHIFTR", "A", 6), AndOne>>
    BY <1>10 DEF SetccPats
  <2>2. PICK h1 \in RegFile, h2 \in RegFile :
          h1 = Executed(AddImm(64), g) /\ h2 = Executed(RI("SHIFTR", "A", 6), h1) /\ f = Executed(AndOne, h2)
    BY <2>1, Runs3
  <2>3. h1["A"] = Wrap(v + 64) /\ h2["A"] = ShiftedRight(h1["A"], ShiftAmount(6)) /\ f["A"] = And(h2["A"], 1)
    BY <1>3, <2>2
  <2> HIDE DEF v
  <2>4. PICK x \in 0 .. 1023 : x = v + 64
    BY SMT, <1>2
  <2>5. PICK y \in 0 .. 1023 : y = x \div 64
    BY SMT
  <2>6. y % 2 = IF v # 64 THEN 1 ELSE 0
    BY SMT, <1>2, <2>4, <2>5
  <2>7. Plain(x) /\ Plain(y)
    BY <1>4, ZenonT(60)
  <2>8. Wrap(x) = x /\ And(y, 1) = y % 2 /\ ShiftedRight(x, ShiftAmount(6)) = y
    BY <2>5, <2>7 DEF Plain
  <2>9. f["A"] = y % 2
    BY <2>3, <2>4, <2>8
  <2>10. Says(n.cond, v) = (v # 64)
    BY <1>2, <1>10 DEF Says
  <2>11. QED BY <2>6, <2>9, <2>10 DEF v
<1>11. QED BY <1>5, <1>6, <1>7, <1>8, <1>9, <1>10 DEF Conds

(* The sequence of setcc leaves 1 or 0 in A.                               *)
LEMMA SetccRuns ==
  ASSUME NEW n, Chosen(n), n.op \in {"setcc", "brcond"}, NEW g, Start(n, g),
         NEW f, Runs(Setcc(n.cond, n.const, n.rhs), Len(Setcc(n.cond, n.const, n.rhs)), g, f)
  PROVE  f["A"] = IF Says(n.cond, Compared(n.lhs, n.rhs)) THEN 1 ELSE 0
<1> DEFINE c == Compare(n.const, n.rhs)
           m == <<RR("MVSW", "A", "A")>>
           p == SetccPats(n.cond)
<1>1. /\ Straight(n, c) /\ Straight(n, m) /\ Straight(n, p) /\ Straight(n, c \o m)
      /\ Setcc(n.cond, n.const, n.rhs) = (c \o m) \o p
  BY SetccCode DEF Setcc
<1>2. n.cond \in Conds /\ "A" \in Regs /\ "MEMREG" \in Regs /\ Len(m) = 1
  BY NodeFacts DEF Regs, GPR
<1> HIDE DEF c, m, p
<1>3. Len((c \o m) \o p) = Len(c \o m) + Len(p) /\ Len(c \o m) = Len(c) + Len(m)
  BY <1>1, StraightJoin
<1>4. Runs((c \o m) \o p, Len(c \o m) + Len(p), g, f)
  BY <1>1, <1>3
<1>5. PICK e \in RegFile : Runs(c \o m, Len(c \o m), g, e) /\ Runs(p, Len(p), e, f)
  BY <1>1, <1>4, RunsSplit
<1>6. Runs(c \o m, Len(c) + Len(m), g, e)
  BY <1>3, <1>5
<1>7. PICK d \in RegFile : Runs(c, Len(c), g, d) /\ Runs(m, Len(m), d, e)
  BY <1>1, <1>6, RunsSplit
<1>8. d["SW"] = Compared(n.lhs, n.rhs)
  BY <1>7, CompareRuns DEF c
<1>9. e = Executed(RR("MVSW", "A", "A"), d)
  BY <1>2, <1>7, Runs1 DEF m
<1>10. e["A"] = d["SW"]
  <2>1. e = [d EXCEPT !["MEMREG"] = d["SW"], !["A"] = d["SW"]]
    BY <1>9, ExecutedRR
  <2>2. QED BY <1>2, <2>1 DEF RegFile
<1>11. e["A"] \in {LT, EQ, GT}
  BY <1>8, <1>10, ComparedWord
<1>12. f["A"] = IF Says(n.cond, e["A"]) THEN 1 ELSE 0
  BY <1>2, <1>5, <1>11, SetccValue DEF p
<1>13. QED BY <1>8, <1>10, <1>12

(* The sequence of setcc computes it.                                      *)
LEMMA SetccMeaning ==
  ASSUME NEW n, Chosen(n), n.op = "setcc", Owed(n),
         NEW g, Start(n, g), NEW f, Runs(CodeFor(n), Len(CodeFor(n)), g, f)
  PROVE  Meaning(n, f["A"])
<1>1. CodeFor(n) = Setcc(n.cond, n.const, n.rhs)
  BY CodeCases
<1>2. f["A"] = IF Says(n.cond, Compared(n.lhs, n.rhs)) THEN 1 ELSE 0
  BY <1>1, SetccRuns
<1>3. f["A"] = IF Holds(n.cond, n.lhs, n.rhs) THEN 1 ELSE 0
  BY <1>2, SaysHolds
<1>4. QED BY <1>3 DEF Meaning, Value

(* The comparison of a setcc's value with 0.                               *)
LEMMA ComparedZero ==
  Compared(0, 0) = EQ /\ Compared(1, 0) = GT
<1>1. Signed(0) = 0 /\ Signed(1) = 1
  <2>1. PICK z \in Nat, o \in Nat : z = 0 /\ o = 1 /\ z < 2^23 /\ o < 2^23 /\ z < 2^24 /\ o < 2^24
    BY SMT
  <2>2. z \in Word /\ o \in Word
    BY <2>1, WordIs
  <2>3. Signed(z) = z /\ Signed(o) = o
    BY <2>1, <2>2, SignedIs
  <2>4. QED BY <2>1, <2>3
<1>2. QED BY <1>1 DEF Compared

(* The jump at the end of a branch is taken when its condition holds.      *)
LEMMA BrcondMeaning ==
  ASSUME NEW n, Chosen(n), n.op = "brcond", Owed(n), NEW g, Start(n, g),
         NEW f \in RegFile, Runs(Body(n), Len(Body(n)), g, f)
  PROVE  Jumps(BrcondJump(n.cond), f) = Holds(n.cond, n.lhs, n.rhs)
<1>1. /\ n.cond \in Conds /\ n.const \in BOOLEAN /\ n.rhs \in Word /\ g \in RegFile
      /\ g["A"] = n.lhs /\ (~ n.const => g["T"] = n.rhs)
      /\ "A" \in Regs /\ "T" \in Regs /\ "SW" \in Regs /\ 0 \in Word /\ 0 < 2^12
  <2>1. 0 \in Word /\ 0 < 2^12
    BY SMT, SmallWords
  <2>2. QED BY <2>1, NodeFacts DEF Start, Regs, GPR
<1>2. Safe(n, RR("COMPR", "A", "T")) /\ Safe(n, Imm("COMP", 0, "#"))
  BY <1>1, SafeRR, SafeImm DEF Names
<1>3. Body(n) = BrcondBody(n.cond, n.const, n.rhs)
  BY DEF Body
<1>4. Says(n.cond, Compared(n.lhs, n.rhs)) = Holds(n.cond, n.lhs, n.rhs)
  BY SaysHolds
<1>5. CASE n.cond \in DOMAIN JumpOf
  <2>1. f["SW"] = Compared(n.lhs, n.rhs)
    <3>1. CASE n.const
      <4> DEFINE l == Load("T", n.rhs, FormOf(n.rhs))
      <4>1. Body(n) = <<l>> \o <<RR("COMPR", "A", "T")>>
        BY <1>3, <1>5, <3>1 DEF BrcondBody, Materialize
      <4>2. Safe(n, l)
        BY <1>1, <3>1, SafeLoad
      <4>3. PICK e : e = Executed(l, g)
        OBVIOUS
      <4>4. e["A"] = n.lhs /\ e["T"] = n.rhs
        BY <1>1, <4>3, ExecutedLoad DEF RegFile
      <4> HIDE DEF l
      <4>5. l \in Instruction /\ RR("COMPR", "A", "T") \in Instruction
        BY <1>2, <4>2 DEF Safe
      <4>6. Body(n) = <<l, RR("COMPR", "A", "T")>> /\ Len(Body(n)) = 2
        BY <4>1, <4>5, Pair
      <4>7. f = Executed(RR("COMPR", "A", "T"), e) /\ e \in RegFile
        BY <4>3, <4>6, Runs2
      <4>8. QED BY <1>1, <4>4, <4>7, ExecutedRR DEF RegFile
    <3>2. CASE ~ n.const
      <4>1. Body(n) = <<>> \o <<RR("COMPR", "A", "T")>>
        BY <1>3, <1>5, <3>2 DEF BrcondBody
      <4>2. RR("COMPR", "A", "T") \in Instruction
        BY <1>2 DEF Safe
      <4>3. <<RR("COMPR", "A", "T")>> \in Seq(Instruction) /\ Len(<<RR("COMPR", "A", "T")>>) = 1
        BY <4>2
      <4>4. Body(n) = <<RR("COMPR", "A", "T")>> /\ Len(Body(n)) = 1
        BY <4>1, <4>3, ConcatEmptySeq
      <4>5. f = Executed(RR("COMPR", "A", "T"), g)
        BY <4>4, Runs1
      <4>6. QED BY <1>1, <3>2, <4>5, ExecutedRR DEF RegFile
    <3>3. QED BY <1>1, <3>1, <3>2
  <2>2. BrcondJump(n.cond) = JumpOf[n.cond]
    BY <1>5 DEF BrcondJump
  <2>3. n.cond \in {"eq", "lt", "ult", "gt", "ugt"}
    BY <1>5 DEF JumpOf
  <2>4. Jumps(BrcondJump(n.cond), f) = Says(n.cond, f["SW"])
    <3>1. CASE n.cond = "eq"
      BY <2>2, <3>1 DEF JumpOf, Jumps, Says
    <3>2. CASE n.cond \in {"lt", "ult"}
      BY <2>2, <3>2 DEF JumpOf, Jumps, Says
    <3>3. CASE n.cond \in {"gt", "ugt"}
      BY <2>2, <3>3 DEF JumpOf, Jumps, Says
    <3>4. QED BY <2>3, <3>1, <3>2, <3>3
  <2>5. QED BY <1>4, <2>1, <2>4
<1>6. CASE ~ (n.cond \in DOMAIN JumpOf)
  <2> DEFINE s == Setcc(n.cond, n.const, n.rhs)
             t == <<Imm("COMP", 0, "#")>>
  <2>1. Body(n) = s \o t /\ Straight(n, s) /\ Straight(n, t) /\ Len(t) = 1
    BY <1>2, <1>3, <1>6, SetccCode, Straight1 DEF BrcondBody
  <2> HIDE DEF s, t
  <2>2. Runs(s \o t, Len(s) + Len(t), g, f)
    BY <2>1, StraightJoin
  <2>3. PICK e \in RegFile : Runs(s, Len(s), g, e) /\ Runs(t, Len(t), e, f)
    BY <2>1, <2>2, RunsSplit
  <2>4. e["A"] = IF Says(n.cond, Compared(n.lhs, n.rhs)) THEN 1 ELSE 0
    BY <2>3, SetccRuns DEF s
  <2>5. f = Executed(Imm("COMP", 0, "#"), e)
    BY <2>1, <2>3, Runs1 DEF t
  <2>6. f["SW"] = Compared(e["A"], 0)
    BY <1>1, <2>5, ExecutedImm DEF RegFile
  <2>7. Jumps(BrcondJump(n.cond), f) = (f["SW"] = GT)
    BY <1>6 DEF BrcondJump, Jumps
  <2>8. Says(n.cond, Compared(n.lhs, n.rhs)) \in BOOLEAN
    BY <1>1 DEF Says, Conds
  <2>9. (f["SW"] = GT) = Says(n.cond, Compared(n.lhs, n.rhs))
    <3>1. CASE Says(n.cond, Compared(n.lhs, n.rhs))
      BY <2>4, <2>6, <3>1, ComparedZero
    <3>2. CASE ~ Says(n.cond, Compared(n.lhs, n.rhs))
      <4>1. e["A"] = 0
        BY <2>4, <3>2
      <4>2. f["SW"] = EQ /\ EQ # GT
        BY <2>6, <4>1, ComparedZero, CodesDiffer
      <4>3. QED BY <2>8, <3>2, <4>2
    <3>3. QED BY <2>8, <3>1, <3>2
  <2>10. QED BY <1>4, <2>7, <2>9
<1>7. QED BY <1>5, <1>6

-----------------------------------------------------------------------------
(* Some register file the selection left has been run through the part of  *)
(* the sequence before pc; at the end of a branch, the jump was decided.    *)
Ran == pc = Len(code) + 1 /\ node.op = "brcond"

(* The progress of the sequence.                                           *)
Progress ==
  \E g \in RegFile :
    /\ Start(node, g)
    /\ Ran => /\ Runs(Body(node), Len(Body(node)), g, regs)
              /\ taken = Jumps(BrcondJump(node.cond), regs)
    /\ ~ Ran => Runs(Body(node), pc - 1, g, regs)

(* The inductive invariant: while a sequence runs it is that of the node,  *)
(* the right operand is still in T, and the registers are those its        *)
(* executed part makes.                                                    *)
IInv ==
  /\ TypeOK
  /\ pc = 0 => code = <<>>
  /\ pc # 0 => /\ Chosen(node)
               /\ code = CodeFor(node)
               /\ ~ node.const => regs["T"] = node.rhs
               /\ Progress

(* It holds before selection.                                              *)
LEMMA InitIInv == Init => IInv
<1>1. 0 \in Word
  BY SMT, SmallWords
<1>2. SUFFICES ASSUME Init PROVE IInv
  OBVIOUS
<1>3. code \in Seq(Instruction) /\ Len(code) = 0 /\ pc = 0 /\ taken \in BOOLEAN /\ code = <<>>
  <2>1. <<>> \in Seq(Instruction) /\ Len(<<>>) = 0
    OBVIOUS
  <2>2. code = <<>> /\ pc = 0 /\ taken = FALSE
    BY <1>2 DEF Init
  <2>3. QED BY <2>1, <2>2
<1>4. regs \in [Regs -> Word]
  BY <1>1, <1>2 DEF Init
<1>5. pc \in 0 .. Len(code) + 1
  BY SMT, <1>3
<1>6. TypeOK
  BY <1>3, <1>4, <1>5 DEF TypeOK, Instruction
<1>7. QED BY <1>3, <1>6 DEF IInv

(* Selection establishes it.                                               *)
LEMMA SelectIInv ==
  ASSUME NEW o \in Operations, NEW n \in Nodes(o), Select(n), IInv
  PROVE  IInv'
<1>1. /\ Chosen(n) /\ node' = n /\ code' = CodeFor(n) /\ pc' = 1 /\ taken' = taken
      /\ regs' = [regs EXCEPT !["A"] = n.lhs, !["T"] = IF n.const THEN @ ELSE n.rhs]
  BY DEF Select, Chosen
<1>2. n.lhs \in Word /\ n.rhs \in Word /\ n.const \in BOOLEAN
  BY <1>1, NodeFacts
<1>3. regs \in RegFile /\ taken \in BOOLEAN /\ "A" \in Regs /\ "T" \in Regs
  BY DEF IInv, TypeOK, RegFile, Regs, GPR
<1>4. regs' \in RegFile /\ regs'["A"] = n.lhs /\ (~ n.const => regs'["T"] = n.rhs)
  BY <1>1, <1>2, <1>3 DEF RegFile
<1>5. /\ CodeFor(n) \in Seq(Instruction) /\ Len(CodeFor(n)) \in Nat /\ Len(CodeFor(n)) # 0
      /\ Straight(n, Body(n)) /\ Len(Body(n)) \in Nat
  <2>1. CodeFor(n) \in Seq(Instruction) /\ Len(Body(n)) \in Nat /\ Straight(n, Body(n))
    BY <1>1, CodeShape
  <2>2. Len(CodeFor(n)) \in Nat
    BY <2>1, LenProperties
  <2>3. CASE n.op = "brcond"
    <3>1. Len(CodeFor(n)) = Len(Body(n)) + 1
      BY <1>1, <2>3, CodeShape
    <3>2. QED BY SMT, <2>1, <2>2, <3>1
  <2>4. CASE n.op # "brcond"
    BY <1>1, <2>1, <2>2, <2>4, CodeShape
  <2>5. QED BY <2>1, <2>2, <2>3, <2>4
<1>6. 1 \in 0 .. Len(CodeFor(n)) + 1 /\ 1 # Len(CodeFor(n)) + 1 /\ 1 - 1 = 0 /\ 1 # 0
  BY SMT, <1>5
<1>7. Runs(Body(n), 1 - 1, regs', regs')
  BY <1>4, <1>6, RunsNone
<1>8. ~ Ran'
  BY <1>1, <1>6 DEF Ran
<1>9. Progress'
  BY <1>1, <1>4, <1>7, <1>8 DEF Progress, Start
<1>10. TypeOK'
  BY <1>1, <1>3, <1>4, <1>5, <1>6 DEF TypeOK, Instruction, RegFile
<1>11. QED BY <1>1, <1>4, <1>6, <1>9, <1>10 DEF IInv

(* Where the next instruction stands: in the body, or at its jump.         *)
LEMMA NextInstruction ==
  ASSUME IInv, pc \in 1 .. Len(code)
  PROVE  /\ Chosen(node) /\ code = CodeFor(node) /\ Straight(node, Body(node))
         /\ Len(Body(node)) \in Nat /\ pc \in Nat /\ ~ Ran
         /\ \/ /\ pc \in 1 .. Len(Body(node)) /\ code[pc] = Body(node)[pc]
               /\ Safe(node, code[pc]) /\ ~ IsJump(code[pc])
               /\ node.op = "brcond" => pc < Len(code)
            \/ /\ node.op = "brcond" /\ pc = Len(Body(node)) + 1 /\ pc = Len(code)
               /\ code[pc] = Jump(BrcondJump(node.cond)) /\ IsJump(code[pc])
<1>1. code \in Seq(Instruction)
  BY DEF IInv, TypeOK, Instruction
<1>2. PICK l \in Nat : l = Len(code)
  BY <1>1, LenProperties
<1>3. pc # 0 /\ pc # l + 1 /\ pc \in Nat
  BY SMT, <1>2
<1>4. /\ Chosen(node) /\ code = CodeFor(node) /\ ~ Ran
  BY <1>2, <1>3 DEF IInv, Ran
<1>5. /\ Straight(node, Body(node)) /\ Len(Body(node)) \in Nat
      /\ \A k \in 1 .. Len(Body(node)) : code[k] = Body(node)[k]
      /\ node.op # "brcond" => code = Body(node)
      /\ node.op = "brcond" => /\ l = Len(Body(node)) + 1
                               /\ code[Len(Body(node)) + 1] = Jump(BrcondJump(node.cond))
                               /\ IsJump(Jump(BrcondJump(node.cond)))
  BY <1>2, <1>4, CodeShape
<1>6. PICK b \in Nat : b = Len(Body(node))
  BY <1>5
<1>7. CASE pc \in 1 .. b
  <2>1. code[pc] = Body(node)[pc] /\ Safe(node, code[pc])
    BY <1>5, <1>6, <1>7 DEF Straight
  <2>2. ~ IsJump(code[pc])
    BY <2>1 DEF Safe
  <2>3. node.op = "brcond" => pc < l
    BY SMT, <1>5, <1>6, <1>7
  <2>4. QED BY <1>2, <1>3, <1>4, <1>5, <1>6, <1>7, <2>1, <2>2, <2>3
<1>8. CASE ~ (pc \in 1 .. b)
  <2>1. b # l
    BY SMT, <1>2, <1>8
  <2>2. node.op = "brcond"
    BY <1>2, <1>5, <1>6, <2>1
  <2>3. l = b + 1
    BY <1>5, <1>6, <2>2
  <2>4. pc = b + 1
    BY SMT, <1>2, <1>8, <2>3
  <2>5. QED BY <1>2, <1>3, <1>4, <1>5, <1>6, <2>2, <2>3, <2>4
<1>9. QED BY <1>7, <1>8

(* An instruction keeps it.                                                *)
LEMMA ExecuteIInv ==
  ASSUME Execute, IInv
  PROVE  IInv'
<1> DEFINE i == code[pc]
<1>1. /\ pc \in 1 .. Len(code) /\ ~ IsJump(i) /\ regs' = Executed(i, regs) /\ pc' = pc + 1
      /\ node' = node /\ code' = code /\ taken' = taken
  BY DEF Execute
<1>2. /\ Chosen(node) /\ code = CodeFor(node) /\ Straight(node, Body(node)) /\ ~ Ran
      /\ Len(Body(node)) \in Nat /\ pc \in Nat
      /\ pc \in 1 .. Len(Body(node)) /\ i = Body(node)[pc] /\ Safe(node, i)
      /\ node.op = "brcond" => pc < Len(code)
  BY <1>1, NextInstruction
<1>3. regs \in RegFile /\ (~ node.const => regs["T"] = node.rhs) /\ Progress /\ pc # 0
      /\ code \in Seq(Instruction) /\ taken \in BOOLEAN
  <2>1. pc # 0
    BY SMT, <1>2
  <2>2. QED BY <2>1 DEF IInv, TypeOK, RegFile, Instruction
<1>4. Executed(i, regs) \in RegFile /\ (~ node.const => Executed(i, regs)["T"] = node.rhs)
  BY <1>2, <1>3, ExecutedSafe
<1> HIDE DEF i
<1>5. PICK g \in RegFile : Start(node, g) /\ Runs(Body(node), pc - 1, g, regs)
  BY <1>2, <1>3 DEF Progress
<1>6. PICK p \in Nat : p = pc - 1 /\ p + 1 = pc
  BY SMT, <1>2
<1>7. Executed(Body(node)[p + 1], regs) = Executed(i, regs)
  BY <1>2, <1>6
<1>8. Runs(Body(node), p + 1, g, Executed(Body(node)[p + 1], regs))
  BY <1>4, <1>5, <1>6, <1>7, RunsMore
<1>9. Runs(Body(node), pc' - 1, g, regs')
  <2>1. pc' - 1 = p + 1
    BY SMT, <1>1, <1>6
  <2>2. QED BY <1>1, <1>7, <1>8, <2>1
<1>10. PICK l \in Nat : l = Len(code)
  BY <1>3, LenProperties
<1>11. pc + 1 \in 0 .. l + 1 /\ pc + 1 # 0 /\ (pc < l => pc + 1 # l + 1)
  BY SMT, <1>1, <1>10
<1>12. ~ Ran'
  BY <1>1, <1>2, <1>10, <1>11 DEF Ran
<1>13. Progress'
  BY <1>1, <1>5, <1>9, <1>12 DEF Progress
<1>14. TypeOK'
  BY <1>1, <1>3, <1>4, <1>10, <1>11 DEF TypeOK, RegFile, Instruction
<1>15. pc' # 0 /\ ~ node'.const => regs'["T"] = node'.rhs
  BY <1>1, <1>4
<1>16. Chosen(node') /\ code' = CodeFor(node') /\ pc' # 0
  BY <1>1, <1>2, <1>11
<1>17. QED BY <1>13, <1>14, <1>15, <1>16 DEF IInv

(* The jump of a branch keeps it.                                          *)
LEMMA JumpIInv ==
  ASSUME ConditionalJump, IInv
  PROVE  IInv'
<1>1. /\ pc \in 1 .. Len(code) /\ IsJump(code[pc]) /\ taken' = Jumps(code[pc].name, regs)
      /\ pc' = pc + 1 /\ node' = node /\ code' = code /\ regs' = regs
  BY DEF ConditionalJump
<1>2. /\ Chosen(node) /\ code = CodeFor(node) /\ ~ Ran /\ pc \in Nat
      /\ node.op = "brcond" /\ pc = Len(Body(node)) + 1 /\ pc = Len(code)
      /\ code[pc] = Jump(BrcondJump(node.cond)) /\ Len(Body(node)) \in Nat
  BY <1>1, NextInstruction
<1>3. (~ node.const => regs["T"] = node.rhs) /\ Progress /\ TypeOK /\ pc # 0
  <2>1. pc # 0
    BY SMT, <1>2
  <2>2. QED BY <2>1 DEF IInv
<1>4. PICK g \in RegFile : Start(node, g) /\ Runs(Body(node), pc - 1, g, regs)
  BY <1>2, <1>3 DEF Progress
<1>5. pc - 1 = Len(Body(node)) /\ pc + 1 \in 0 .. pc + 1 /\ pc + 1 # 0
  BY SMT, <1>2
<1>6. code[pc].name = BrcondJump(node.cond)
  <2>1. \A name : Jump(name).name = name
    BY DEF Jump, Instr
  <2>2. QED BY <1>2, <2>1
<1>7. taken' = Jumps(BrcondJump(node.cond), regs) /\ taken' \in BOOLEAN
  <2>1. BrcondJump(node.cond) \in {"JEQ", "JLT", "JGT"}
    BY <1>2, BrcondCode
  <2>2. QED BY <1>1, <1>6, <2>1 DEF Jumps
<1>8. Ran'
  BY <1>1, <1>2 DEF Ran
<1>9. Progress'
  BY <1>1, <1>4, <1>5, <1>7, <1>8 DEF Progress
<1>10. TypeOK'
  BY <1>1, <1>2, <1>3, <1>5, <1>7 DEF TypeOK
<1>11. Chosen(node') /\ code' = CodeFor(node') /\ pc' # 0 /\ (~ node'.const => regs'["T"] = node'.rhs)
  BY <1>1, <1>2, <1>3, <1>5
<1>12. QED BY <1>9, <1>10, <1>11 DEF IInv

(* The inductive invariant always holds.                                   *)
LEMMA IInvAlways == Spec => []IInv
<1>1. Init => IInv
  BY InitIInv
<1>2. IInv /\ [Next]_vars => IInv'
  <2> SUFFICES ASSUME IInv, [Next]_vars PROVE IInv'
    OBVIOUS
  <2>1. CASE \E o \in Operations : \E n \in Nodes(o) : Select(n)
    BY <2>1, SelectIInv
  <2>2. CASE Execute
    BY <2>2, ExecuteIInv
  <2>3. CASE ConditionalJump
    BY <2>3, JumpIInv
  <2>4. CASE UNCHANGED vars
    BY <2>4 DEF vars, IInv, TypeOK, Progress, Ran
  <2>5. QED BY <2>1, <2>2, <2>3, <2>4 DEF Next
<1>3. QED BY <1>1, <1>2, PTL DEF Spec

(* Every register and operand is a 24-bit word in every state, whatever    *)
(* nodes are selected: no instruction of a pattern leaves the word,        *)
(* divides by 0 or loses its operand.                                      *)
THEOREM TypeCorrect == Spec => []TypeOK
<1>1. IInv => TypeOK
  BY DEF IInv
<1>2. QED BY <1>1, IInvAlways, PTL

(* If no shift amount exceeds 16, every operand fits the field of its      *)
(* format.                                                                 *)
LEMMA FitsInv ==
  ASSUME Shifts \subseteq 1 .. 16, IInv
  PROVE  OperandsFit
<1>1. SUFFICES ASSUME NEW k \in 1 .. Len(code) PROVE OperandFits(code[k])
  BY DEF OperandsFit
<1>2. CASE pc = 0
  <2>1. Len(code) = 0
    BY <1>2 DEF IInv
  <2>2. QED BY SMT, <2>1
<1>3. CASE pc # 0
  <2>1. Chosen(node) /\ code = CodeFor(node)
    BY <1>3 DEF IInv
  <2>2. node.op \in ShiftOps => node.rhs <= 16
    <3>1. node.op \in ShiftOps => node.rhs \in 1 .. 16
      BY <2>1, NodeFacts
    <3>2. node.rhs \in 1 .. 16 => node.rhs <= 16
      BY SMT
    <3>3. QED BY <3>1, <3>2
  <2>3. /\ Straight(node, Body(node)) /\ Len(Body(node)) \in Nat
        /\ \A j \in 1 .. Len(Body(node)) : code[j] = Body(node)[j]
        /\ node.op # "brcond" => code = Body(node)
        /\ node.op = "brcond" => /\ Len(code) = Len(Body(node)) + 1
                                 /\ code[Len(Body(node)) + 1] = Jump(BrcondJump(node.cond))
                                 /\ OperandFits(Jump(BrcondJump(node.cond)))
    BY <2>1, CodeShape
  <2>4. CASE k \in 1 .. Len(Body(node))
    <3>1. Safe(node, code[k])
      BY <2>3, <2>4 DEF Straight
    <3>2. QED BY <2>2, <3>1 DEF Safe
  <2>5. CASE ~ (k \in 1 .. Len(Body(node)))
    <3>1. node.op = "brcond"
      BY <2>3, <2>5
    <3>2. k = Len(Body(node)) + 1
      <4>1. Len(code) = Len(Body(node)) + 1
        BY <2>3, <3>1
      <4>2. QED BY SMT, <2>3, <2>5, <4>1
    <3>3. QED BY <2>3, <3>1, <3>2
  <2>6. QED BY <2>4, <2>5
<1>4. QED BY <1>2, <1>3

(* Every operand fits the field of the format the pattern chose, for any   *)
(* operands and constants, as long as no shift amount exceeds 16: rotl,    *)
(* shl and sra take the larger ones too, and four bits do not hold them.   *)
THEOREM EveryOperandFits ==
  ASSUME Shifts \subseteq 1 .. 16
  PROVE  Spec => []OperandsFit
<1>1. IInv => OperandsFit
  BY FitsInv
<1>2. QED BY <1>1, IInvAlways, PTL

(* At the end of a sequence the node is computed.                          *)
LEMMA DoneInv ==
  ASSUME Shifts \subseteq 1 .. 16, IInv, Done, Owed(node)
  PROVE  Computed
<1>1. pc # 0 /\ code \in Seq(Instruction) /\ pc \in 0 .. Len(code) + 1 /\ pc > Len(code)
      /\ regs \in RegFile
  BY DEF Done, IInv, TypeOK, Instruction, RegFile
<1>2. pc = Len(code) + 1 /\ Len(code) \in Nat
  <2>1. PICK l \in Nat : l = Len(code)
    BY <1>1, LenProperties
  <2>2. pc = l + 1
    BY SMT, <1>1, <2>1
  <2>3. QED BY <2>1, <2>2
<1>3. Chosen(node) /\ code = CodeFor(node) /\ Progress
  BY <1>1 DEF IInv
<1>4. PICK g \in RegFile :
        /\ Start(node, g)
        /\ Ran => /\ Runs(Body(node), Len(Body(node)), g, regs)
                  /\ taken = Jumps(BrcondJump(node.cond), regs)
        /\ ~ Ran => Runs(Body(node), pc - 1, g, regs)
  BY <1>3 DEF Progress
<1>5. CASE node.op = "brcond"
  <2>1. Ran
    BY <1>2, <1>5 DEF Ran
  <2>2. Runs(Body(node), Len(Body(node)), g, regs) /\ taken = Jumps(BrcondJump(node.cond), regs)
    BY <1>4, <2>1
  <2>3. Jumps(BrcondJump(node.cond), regs) = Holds(node.cond, node.lhs, node.rhs)
    BY <1>1, <1>3, <1>4, <1>5, <2>2, BrcondMeaning
  <2>4. QED BY <1>5, <2>2, <2>3 DEF Computed
<1>6. CASE node.op # "brcond"
  <2>1. ~ Ran
    BY <1>6 DEF Ran
  <2>2. Body(node) = CodeFor(node)
    BY <1>6 DEF Body
  <2>3. pc - 1 = Len(code)
    BY SMT, <1>2
  <2>4. Runs(CodeFor(node), Len(CodeFor(node)), g, regs)
    BY <1>3, <1>4, <2>1, <2>2, <2>3
  <2>5. node.op \in ArithOps \cup ShiftOps \cup {"setcc", "brcond"}
        /\ (node.op \in ShiftOps => node.rhs \in 1 .. 16)
    BY <1>3, NodeFacts
  <2>6. Meaning(node, regs["A"])
    BY <1>3, <1>4, <1>6, <2>4, <2>5, ArithMeaning, ShiftMeaning, SetccMeaning
  <2>7. QED BY <1>6, <2>6 DEF Computed
<1>7. QED BY <1>5, <1>6

(* The sequence of every signed node computes the value LLVM IR gives the  *)
(* node, and a branch jumps exactly when its condition holds, for any      *)
(* 24-bit operands, any constants and any shift amounts up to 16.          *)
THEOREM SelectedCodeIsCorrect ==
  ASSUME Shifts \subseteq 1 .. 16
  PROVE  Spec => []SelectionCorrect
<1>1. IInv => SelectionCorrect
  BY DoneInv DEF SelectionCorrect, Owed
<1>2. QED BY <1>1, IInvAlways, PTL

(* The sequences the unsigned nodes share with the signed ones are right   *)
(* for any operands whose signs agree, and for divisions of operands       *)
(* without the sign bit.                                                   *)
THEOREM UnsignedCodeIsCorrect ==
  ASSUME Shifts \subseteq 1 .. 16
  PROVE  Spec => []UnsignedCorrectWhenSignsAgree
<1>1. IInv => UnsignedCorrectWhenSignsAgree
  BY DoneInv DEF UnsignedCorrectWhenSignsAgree, Owed, Agree
<1>2. QED BY <1>1, IInvAlways, PTL
=============================================================================
