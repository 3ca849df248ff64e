------------------------------ MODULE CrcProofs ------------------------------
(***************************************************************************)
(* What CRC16_Calc never loses, for every byte and every value of its      *)
(* registers: that they were different, which byte was taken, and whether  *)
(* the number of ones was odd.                                             *)
(***************************************************************************)
EXTENDS Crc16, FiniteSetTheorems, TLAPS

-----------------------------------------------------------------------------
(* Different registers stay different                                       *)

(* A byte is known from what it is shifted to and from its lowest bit.      *)
LEMMA ShiftRightKeeps ==
  ASSUME NEW x \in Byte, NEW y \in Byte,
         ShiftRight(x) = ShiftRight(y), 0 \in x <=> 0 \in y
  PROVE  x = y
<1>1. ASSUME NEW bit \in Bits PROVE bit \in x <=> bit \in y
  <2>1. CASE bit = 0
    BY <2>1
  <2>2. CASE bit # 0
    <3>1. bit \in x <=> bit - 1 \in ShiftRight(x)
      BY <2>2 DEF ShiftRight, Byte, Bits
    <3>2. bit \in y <=> bit - 1 \in ShiftRight(y)
      BY <2>2 DEF ShiftRight, Byte, Bits
    <3>. QED  BY <3>1, <3>2
  <2>. QED  BY <2>1, <2>2
<1>. QED  BY <1>1 DEF Byte

(* The registers hold bytes, and the shifted ones leave the top bit free.   *)
LEMMA ShiftRightType ==
  ASSUME NEW x \in Byte
  PROVE  ShiftRight(x) \in Byte /\ 7 \notin ShiftRight(x)
BY DEF ShiftRight, Byte, Bits

LEMMA SymDiffType ==
  ASSUME NEW x \in Byte, NEW y \in Byte PROVE SymDiff(x, y) \in Byte
BY DEF SymDiff, Byte

LEMMA SymDiffKeeps ==
  ASSUME NEW x, NEW y, NEW z, SymDiff(x, z) = SymDiff(y, z)
  PROVE  x = y
BY DEF SymDiff

LEMMA ShiftedType ==
  ASSUME NEW r \in Register
  PROVE  /\ Shifted(r) \in Register
         /\ 7 \notin Shifted(r).h
         /\ 7 \in Shifted(r).l <=> 0 \in r.h
<1>1. r.h \in Byte /\ r.l \in Byte
  BY DEF Register
<1>2. /\ ShiftRight(r.h) \in Byte /\ 7 \notin ShiftRight(r.h)
      /\ ShiftRight(r.l) \in Byte /\ 7 \notin ShiftRight(r.l)
  BY <1>1, ShiftRightType
<1>3. {7 : bit \in r.h \cap {0}} \in Byte
  BY DEF Byte, Bits
<1>. QED  BY <1>2, <1>3 DEF Shifted, Register, Byte

LEMMA ShiftedKeeps ==
  ASSUME NEW a \in Register, NEW b \in Register,
         Shifted(a) = Shifted(b), 0 \in a.l <=> 0 \in b.l
  PROVE  a = b
<1>1. /\ a.h \in Byte /\ a.l \in Byte /\ b.h \in Byte /\ b.l \in Byte
  BY DEF Register
<1>2. ShiftRight(a.h) = ShiftRight(b.h)
  BY DEF Shifted
<1>3. 0 \in a.h <=> 0 \in b.h
  BY ShiftedType
<1>4. 7 \notin ShiftRight(a.l) /\ 7 \notin ShiftRight(b.l)
  BY <1>1, ShiftRightType
<1>5. ShiftRight(a.l) \cup {7 : bit \in a.h \cap {0}}
        = ShiftRight(b.l) \cup {7 : bit \in b.h \cap {0}}
  BY DEF Shifted
<1>6. ShiftRight(a.l) = ShiftRight(b.l)
  BY <1>3, <1>4, <1>5
<1>7. a.h = b.h /\ a.l = b.l
  BY <1>1, <1>2, <1>3, <1>6, ShiftRightKeeps
<1>. QED  BY <1>7 DEF Register

(* The top bit of the high register tells whether the polynomial was        *)
(* applied, so that every shift can be undone.                              *)
LEMMA ShiftBitType ==
  ASSUME NEW r \in Register
  PROVE  /\ ShiftBit(r) \in Register
         /\ 7 \in ShiftBit(r).h <=> 0 \in r.l
<1>1. /\ Shifted(r) \in Register /\ Shifted(r).h \in Byte
      /\ Shifted(r).l \in Byte /\ 7 \notin Shifted(r).h
  BY ShiftedType DEF Register
<1>2. CH \in Byte /\ CL \in Byte /\ 7 \in CH
  BY DEF CH, CL, Byte, Bits
<1>3. /\ SymDiff(Shifted(r).h, CH) \in Byte /\ SymDiff(Shifted(r).l, CL) \in Byte
  BY <1>1, <1>2, SymDiffType
<1>4. 7 \in SymDiff(Shifted(r).h, CH)
  BY <1>1, <1>2 DEF SymDiff
<1>5. CASE 0 \in r.l
  BY <1>3, <1>4, <1>5 DEF ShiftBit, Register
<1>6. CASE 0 \notin r.l
  BY <1>1, <1>6 DEF ShiftBit
<1>. QED  BY <1>5, <1>6

LEMMA ShiftBitKeeps ==
  ASSUME NEW a \in Register, NEW b \in Register, a # b
  PROVE  ShiftBit(a) # ShiftBit(b)
<1>1. SUFFICES ASSUME ShiftBit(a) = ShiftBit(b) PROVE a = b
  OBVIOUS
<1>2. 0 \in a.l <=> 0 \in b.l
  BY <1>1, ShiftBitType
<1>3. Shifted(a) \in Register /\ Shifted(b) \in Register
  BY ShiftedType
<1>4. Shifted(a) = Shifted(b)
  <2>1. CASE 0 \in a.l
    <3>1. /\ SymDiff(Shifted(a).h, CH) = SymDiff(Shifted(b).h, CH)
          /\ SymDiff(Shifted(a).l, CL) = SymDiff(Shifted(b).l, CL)
      BY <1>1, <1>2, <2>1 DEF ShiftBit
    <3>2. Shifted(a).h = Shifted(b).h /\ Shifted(a).l = Shifted(b).l
      BY <3>1, SymDiffKeeps
    <3>. QED  BY <1>3, <3>2 DEF Register
  <2>2. CASE 0 \notin a.l
    BY <1>1, <1>2, <2>2 DEF ShiftBit
  <2>. QED  BY <2>1, <2>2
<1>. QED  BY <1>2, <1>4, ShiftedKeeps

LEMMA ShiftByteKeeps ==
  ASSUME NEW a \in Register, NEW b \in Register
  PROVE  /\ ShiftByte(a) \in Register
         /\ a # b => ShiftByte(a) # ShiftByte(b)
<1>. DEFINE Shift4(r) == ShiftBit(ShiftBit(ShiftBit(ShiftBit(r))))
<1>1. ASSUME NEW x \in Register, NEW y \in Register
      PROVE  /\ Shift4(x) \in Register
             /\ x # y => Shift4(x) # Shift4(y)
  <2>1. /\ ShiftBit(x) \in Register /\ ShiftBit(y) \in Register
        /\ x # y => ShiftBit(x) # ShiftBit(y)
    BY ShiftBitType, ShiftBitKeeps
  <2>2. /\ ShiftBit(ShiftBit(x)) \in Register
        /\ ShiftBit(ShiftBit(y)) \in Register
        /\ x # y => ShiftBit(ShiftBit(x)) # ShiftBit(ShiftBit(y))
    BY <2>1, ShiftBitType, ShiftBitKeeps
  <2>3. /\ ShiftBit(ShiftBit(ShiftBit(x))) \in Register
        /\ ShiftBit(ShiftBit(ShiftBit(y))) \in Register
        /\ x # y => ShiftBit(ShiftBit(ShiftBit(x)))
                      # ShiftBit(ShiftBit(ShiftBit(y)))
    BY <2>2, ShiftBitType, ShiftBitKeeps
  <2>. QED  BY <2>3, ShiftBitType, ShiftBitKeeps
<1>2. ShiftByte(a) = Shift4(Shift4(a)) /\ ShiftByte(b) = Shift4(Shift4(b))
  BY DEF ShiftByte
<1>. HIDE DEF Shift4
<1>3. Shift4(a) \in Register /\ Shift4(b) \in Register
  BY <1>1
<1>. QED  BY <1>1, <1>2, <1>3

(* Two computations that differ stay different over equal bytes, and two    *)
(* that agree differ after different bytes.                                 *)
LEMMA AddByteKeeps ==
  ASSUME NEW a \in Register, NEW b \in Register,
         NEW x \in Byte, NEW y \in Byte
  PROVE  /\ AddByte(a, x) \in Register
         /\ a # b => AddByte(a, x) # AddByte(b, x)
         /\ x # y => AddByte(a, x) # AddByte(a, y)
<1>. DEFINE In(r, z) == [h |-> r.h, l |-> SymDiff(r.l, z)]
<1>1. ASSUME NEW r \in Register, NEW z \in Byte PROVE In(r, z) \in Register
  BY SymDiffType DEF Register
<1>2. a # b => In(a, x) # In(b, x)
  <2>1. SUFFICES ASSUME In(a, x) = In(b, x) PROVE a = b
    OBVIOUS
  <2>2. a.h = b.h /\ SymDiff(a.l, x) = SymDiff(b.l, x)
    BY <2>1
  <2>3. a.l = b.l
    BY <2>2, SymDiffKeeps
  <2>. QED  BY <2>2, <2>3 DEF Register
<1>3. x # y => In(a, x) # In(a, y)
  <2>1. SUFFICES ASSUME In(a, x) = In(a, y) PROVE x = y
    OBVIOUS
  <2>2. SymDiff(a.l, x) = SymDiff(a.l, y)
    BY <2>1
  <2>. QED  BY <2>2 DEF SymDiff
<1>4. /\ AddByte(a, x) = ShiftByte(In(a, x))
      /\ AddByte(b, x) = ShiftByte(In(b, x))
      /\ AddByte(a, y) = ShiftByte(In(a, y))
  BY DEF AddByte
<1>. HIDE DEF In
<1>. QED  BY <1>1, <1>2, <1>3, <1>4, ShiftByteKeeps

-----------------------------------------------------------------------------
(* The high register shows which byte was taken                             *)

(* One turn, bit by bit.                                                    *)
LEMMA ShiftBitHigh ==
  ASSUME NEW r \in Register, NEW bit \in Bits
  PROVE  bit \in ShiftBit(r).h
           <=> ~(bit + 1 \in r.h <=> 0 \in r.l /\ bit \in CH)
<1>1. r.h \in Byte
  BY DEF Register
<1>2. bit \in ShiftRight(r.h) <=> bit + 1 \in r.h
  BY <1>1 DEF ShiftRight, Byte, Bits
<1>3. Shifted(r).h = ShiftRight(r.h)
  BY DEF Shifted
<1>4. CASE 0 \in r.l
  <2>1. ShiftBit(r).h = SymDiff(Shifted(r).h, CH)
    BY <1>4 DEF ShiftBit
  <2>. QED  BY <1>2, <1>3, <1>4, <2>1 DEF SymDiff
<1>5. CASE 0 \notin r.l
  <2>1. ShiftBit(r).h = Shifted(r).h
    BY <1>5 DEF ShiftBit
  <2>. QED  BY <1>2, <1>3, <1>5, <2>1
<1>. QED  BY <1>4, <1>5

LEMMA ShiftBitLow ==
  ASSUME NEW r \in Register, NEW bit \in 0 .. 6
  PROVE  bit \in ShiftBit(r).l
           <=> ~(bit + 1 \in r.l <=> 0 \in r.l /\ bit \in CL)
<1>1. r.l \in Byte
  BY DEF Register
<1>2. bit \in ShiftRight(r.l) <=> bit + 1 \in r.l
  BY <1>1 DEF ShiftRight, Byte, Bits
<1>3. bit \in Shifted(r).l <=> bit \in ShiftRight(r.l)
  BY DEF Shifted
<1>4. CASE 0 \in r.l
  <2>1. ShiftBit(r).l = SymDiff(Shifted(r).l, CL)
    BY <1>4 DEF ShiftBit
  <2>. QED  BY <1>2, <1>3, <1>4, <2>1 DEF SymDiff
<1>5. CASE 0 \notin r.l
  <2>1. ShiftBit(r).l = Shifted(r).l
    BY <1>5 DEF ShiftBit
  <2>. QED  BY <1>2, <1>3, <1>5, <2>1
<1>. QED  BY <1>4, <1>5

HighAgrees(a, b, n) == \A bit \in n .. 7 : bit \in a.h <=> bit \in b.h
LowAgrees(a, b, n) == \A bit \in 0 .. (n - 1) : bit \in a.l <=> bit \in b.l

(* Backwards, the top bits of the high register tell whether a 1 has left   *)
(* the low one, and with that what they were before the turn.               *)
LEMMA HighBackwards ==
  ASSUME NEW a \in Register, NEW b \in Register, NEW n \in 0 .. 7,
         HighAgrees(ShiftBit(a), ShiftBit(b), n)
  PROVE  /\ 0 \in a.l <=> 0 \in b.l
         /\ HighAgrees(a, b, n + 1)
<1>1. 0 \in a.l <=> 0 \in b.l
  BY ShiftBitType DEF HighAgrees
<1>2. ASSUME NEW bit \in (n + 1) .. 7 PROVE bit \in a.h <=> bit \in b.h
  <2>1. bit - 1 \in n .. 7 /\ bit - 1 \in Bits /\ (bit - 1) + 1 = bit
    BY DEF Bits
  <2>2. bit - 1 \in ShiftBit(a).h <=> bit - 1 \in ShiftBit(b).h
    BY <2>1 DEF HighAgrees
  <2>3. /\ bit - 1 \in ShiftBit(a).h
             <=> ~(bit \in a.h <=> 0 \in a.l /\ bit - 1 \in CH)
        /\ bit - 1 \in ShiftBit(b).h
             <=> ~(bit \in b.h <=> 0 \in b.l /\ bit - 1 \in CH)
    BY <2>1, ShiftBitHigh
  <2>. QED  BY <1>1, <2>2, <2>3
<1>. QED  BY <1>1, <1>2 DEF HighAgrees

LEMMA LowBackwards ==
  ASSUME NEW a \in Register, NEW b \in Register, NEW n \in 0 .. 7,
         LowAgrees(ShiftBit(a), ShiftBit(b), n), 0 \in a.l <=> 0 \in b.l
  PROVE  LowAgrees(a, b, n + 1)
<1>1. ASSUME NEW bit \in 0 .. n PROVE bit \in a.l <=> bit \in b.l
  <2>1. CASE bit = 0
    BY <2>1
  <2>2. CASE bit # 0
    <3>1. bit - 1 \in 0 .. (n - 1) /\ bit - 1 \in 0 .. 6 /\ (bit - 1) + 1 = bit
      BY <2>2
    <3>2. bit - 1 \in ShiftBit(a).l <=> bit - 1 \in ShiftBit(b).l
      BY <3>1 DEF LowAgrees
    <3>3. /\ bit - 1 \in ShiftBit(a).l
               <=> ~(bit \in a.l <=> 0 \in a.l /\ bit - 1 \in CL)
          /\ bit - 1 \in ShiftBit(b).l
               <=> ~(bit \in b.l <=> 0 \in b.l /\ bit - 1 \in CL)
      BY <3>1, ShiftBitLow
    <3>. QED  BY <3>2, <3>3
  <2>. QED  BY <2>1, <2>2
<1>2. (n + 1) - 1 = n
  OBVIOUS
<1>. QED  BY <1>1, <1>2 DEF LowAgrees

(* Eight turns: whatever the registers were, equal high registers mean that *)
(* the low ones were equal.                                                 *)
LEMMA LowFromHigh ==
  ASSUME NEW a \in Register, NEW b \in Register,
         ShiftByte(a).h = ShiftByte(b).h
  PROVE  a.l = b.l
<1>. DEFINE a1 == ShiftBit(a)    b1 == ShiftBit(b)
            a2 == ShiftBit(a1)   b2 == ShiftBit(b1)
            a3 == ShiftBit(a2)   b3 == ShiftBit(b2)
            a4 == ShiftBit(a3)   b4 == ShiftBit(b3)
            a5 == ShiftBit(a4)   b5 == ShiftBit(b4)
            a6 == ShiftBit(a5)   b6 == ShiftBit(b5)
            a7 == ShiftBit(a6)   b7 == ShiftBit(b6)
<1>1. ShiftByte(a) = ShiftBit(a7) /\ ShiftByte(b) = ShiftBit(b7)
  BY DEF ShiftByte
<1>2. a1 \in Register /\ b1 \in Register
  BY ShiftBitType
<1>3. a2 \in Register /\ b2 \in Register
  BY <1>2, ShiftBitType
<1>4. a3 \in Register /\ b3 \in Register
  BY <1>3, ShiftBitType
<1>5. a4 \in Register /\ b4 \in Register
  BY <1>4, ShiftBitType
<1>6. a5 \in Register /\ b5 \in Register
  BY <1>5, ShiftBitType
<1>7. a6 \in Register /\ b6 \in Register
  BY <1>6, ShiftBitType
<1>8. a7 \in Register /\ b7 \in Register
  BY <1>7, ShiftBitType
<1>. HIDE DEF a1, a2, a3, a4, a5, a6, a7, b1, b2, b3, b4, b5, b6, b7
<1>9. HighAgrees(ShiftBit(a7), ShiftBit(b7), 0)
  BY <1>1 DEF HighAgrees
<1>10. (0 \in a7.l <=> 0 \in b7.l) /\ HighAgrees(a7, b7, 1)
  BY <1>8, <1>9, HighBackwards
<1>11. (0 \in a6.l <=> 0 \in b6.l) /\ HighAgrees(a6, b6, 2)
  BY <1>7, <1>10, HighBackwards DEF a7, b7
<1>12. (0 \in a5.l <=> 0 \in b5.l) /\ HighAgrees(a5, b5, 3)
  BY <1>6, <1>11, HighBackwards DEF a6, b6
<1>13. (0 \in a4.l <=> 0 \in b4.l) /\ HighAgrees(a4, b4, 4)
  BY <1>5, <1>12, HighBackwards DEF a5, b5
<1>14. (0 \in a3.l <=> 0 \in b3.l) /\ HighAgrees(a3, b3, 5)
  BY <1>4, <1>13, HighBackwards DEF a4, b4
<1>15. (0 \in a2.l <=> 0 \in b2.l) /\ HighAgrees(a2, b2, 6)
  BY <1>3, <1>14, HighBackwards DEF a3, b3
<1>16. (0 \in a1.l <=> 0 \in b1.l) /\ HighAgrees(a1, b1, 7)
  BY <1>2, <1>15, HighBackwards DEF a2, b2
<1>17. (0 \in a.l <=> 0 \in b.l) /\ HighAgrees(a, b, 8)
  BY <1>16, HighBackwards DEF a1, b1
<1>18. LowAgrees(a7, b7, 1)
  BY <1>10 DEF LowAgrees
<1>19. LowAgrees(a6, b6, 2)
  BY <1>7, <1>11, <1>18, LowBackwards DEF a7, b7
<1>20. LowAgrees(a5, b5, 3)
  BY <1>6, <1>12, <1>19, LowBackwards DEF a6, b6
<1>21. LowAgrees(a4, b4, 4)
  BY <1>5, <1>13, <1>20, LowBackwards DEF a5, b5
<1>22. LowAgrees(a3, b3, 5)
  BY <1>4, <1>14, <1>21, LowBackwards DEF a4, b4
<1>23. LowAgrees(a2, b2, 6)
  BY <1>3, <1>15, <1>22, LowBackwards DEF a3, b3
<1>24. LowAgrees(a1, b1, 7)
  BY <1>2, <1>16, <1>23, LowBackwards DEF a2, b2
<1>25. LowAgrees(a, b, 8)
  BY <1>17, <1>24, LowBackwards DEF a1, b1
<1>. QED  BY <1>25 DEF LowAgrees, Register, Byte, Bits

(* So one byte is told from another by the high register alone, and what   *)
(* the high register has told, the next byte cannot undo.                   *)
LEMMA AddByteShows ==
  ASSUME NEW r \in Register, NEW x \in Byte, NEW y \in Byte, x # y
  PROVE  AddByte(r, x).h # AddByte(r, y).h
<1>. DEFINE In(z) == [h |-> r.h, l |-> SymDiff(r.l, z)]
<1>1. SUFFICES ASSUME ShiftByte(In(x)).h = ShiftByte(In(y)).h PROVE FALSE
  BY DEF AddByte
<1>2. In(x) \in Register /\ In(y) \in Register
  BY SymDiffType DEF Register
<1>3. In(x).l = In(y).l
  BY <1>1, <1>2, LowFromHigh
<1>4. SymDiff(r.l, x) = SymDiff(r.l, y)
  BY <1>3
<1>. QED  BY <1>4 DEF SymDiff

LEMMA HighKeeps ==
  ASSUME NEW a \in Register, NEW b \in Register, a.h # b.h,
         NEW x \in Byte, NEW y \in Byte
  PROVE  AddByte(a, x) # AddByte(b, y)
<1>. DEFINE c == [h |-> a.h, l |-> SymDiff(a.l, x)]
            d == [h |-> b.h, l |-> SymDiff(b.l, y)]
<1>1. AddByte(a, x) = ShiftByte(c) /\ AddByte(b, y) = ShiftByte(d)
  BY DEF AddByte
<1>2. c \in Register /\ d \in Register /\ c.h # d.h
  BY SymDiffType DEF Register
<1>3. c # d
  BY <1>2
<1>. HIDE DEF c, d
<1>. QED  BY <1>1, <1>2, <1>3, ShiftByteKeeps

-----------------------------------------------------------------------------
(* The number of ones                                                       *)

Odd(bits) == Cardinality(bits) % 2 = 1
OddRegister(r) == ~(Odd(r.h) <=> Odd(r.l))

LEMMA IntervalFinite ==
  ASSUME NEW m \in Int, NEW n \in Int PROVE IsFiniteSet(m .. n)
BY FS_Interval, Zenon

LEMMA ByteFinite == ASSUME NEW x \in Byte PROVE IsFiniteSet(x)
<1>1. IsFiniteSet(0 .. 7)
  <2>1. 0 \in Int /\ 7 \in Int
    OBVIOUS
  <2>. QED  BY <2>1, IntervalFinite, Zenon
<1>2. x \subseteq 0 .. 7
  BY DEF Byte, Bits
<1>. QED  BY <1>1, <1>2, FS_Subset

(* Exclusive or loses the ones both have: an even number.                   *)
LEMMA OddDiff ==
  ASSUME NEW x, NEW y, IsFiniteSet(x), IsFiniteSet(y)
  PROVE  Odd(SymDiff(x, y)) <=> ~(Odd(x) <=> Odd(y))
<1>. DEFINE both == x \cap y
<1>1. /\ IsFiniteSet(x \ y) /\ IsFiniteSet(y \ x) /\ IsFiniteSet(both)
      /\ Cardinality(x \ y) = Cardinality(x) - Cardinality(both)
      /\ Cardinality(y \ x) = Cardinality(y) - Cardinality(y \cap x)
  BY FS_Difference, FS_Intersection
<1>2. y \cap x = both /\ (x \ y) \cap (y \ x) = {}
  OBVIOUS
<1>3. Cardinality(SymDiff(x, y)) =
        Cardinality(x \ y) + Cardinality(y \ x) - Cardinality({})
  BY <1>1, <1>2, FS_Union DEF SymDiff
<1>4. /\ Cardinality(x) \in Nat /\ Cardinality(y) \in Nat
      /\ Cardinality(both) \in Nat /\ Cardinality({}) = 0
  BY <1>1, FS_CardinalityType, FS_EmptySet
<1>5. Cardinality(y \cap x) = Cardinality(both)
  BY <1>2
<1>6. \A a, b, c \in Nat, d \in Int : d = (a - c) + (b - c) - 0
        => (d % 2 = 1 <=> ~(a % 2 = 1 <=> b % 2 = 1))
  OBVIOUS
<1>. HIDE DEF both
<1>7. Cardinality(SymDiff(x, y)) =
        (Cardinality(x) - Cardinality(both))
          + (Cardinality(y) - Cardinality(both)) - 0
  BY <1>1, <1>3, <1>4, <1>5
<1>8. Cardinality(SymDiff(x, y)) \in Int
  BY <1>4, <1>7
<1>. QED  BY <1>4, <1>6, <1>7, <1>8 DEF Odd

(* A shift to the right loses the lowest bit.                               *)
LEMMA OddShiftRight ==
  ASSUME NEW x \in Byte
  PROVE  Odd(ShiftRight(x)) <=> ~(Odd(x) <=> 0 \in x)
<1>. DEFINE rest == x \ {0}
            down == [bit \in rest |-> bit - 1]
<1>1. IsFiniteSet(x)
  BY ByteFinite
<1>2. /\ IsFiniteSet(rest)
      /\ Cardinality(rest) = IF 0 \in x THEN Cardinality(x) - 1
                                        ELSE Cardinality(x)
  BY <1>1, FS_RemoveElement
<1>3. down \in Bijection(rest, ShiftRight(x))
  <2>1. \A bit \in rest : bit \in Int
    BY DEF Byte, Bits
  <2>2. down \in [rest -> ShiftRight(x)]
    BY DEF ShiftRight
  <2>3. \A b, c \in rest : down[b] = down[c] => b = c
    BY <2>1
  <2>4. \A c \in ShiftRight(x) : \E b \in rest : down[b] = c
    BY DEF ShiftRight
  <2>. QED  BY <2>2, <2>3, <2>4 DEF Bijection, Injection, Surjection, IsInjective
<1>4. Cardinality(ShiftRight(x)) = Cardinality(rest)
  BY <1>2, <1>3, FS_Bijection DEF ExistsBijection
<1>5. Cardinality(x) \in Nat
  BY <1>1, FS_CardinalityType
<1>. QED  BY <1>2, <1>4, <1>5 DEF Odd

(* One turn of the loop over the bits: what leaves the low register comes   *)
(* back as the three bits of the polynomial.                                *)
LEMMA OddShiftBit ==
  ASSUME NEW r \in Register
  PROVE  OddRegister(ShiftBit(r)) <=> OddRegister(r)
<1>1. r.h \in Byte /\ r.l \in Byte
  BY DEF Register
<1>2. /\ ShiftRight(r.h) \in Byte /\ ShiftRight(r.l) \in Byte
      /\ 7 \notin ShiftRight(r.l)
  BY <1>1, ShiftRightType
<1>3. Shifted(r).h = ShiftRight(r.h)
  BY DEF Shifted
<1>4. Odd(Shifted(r).l) <=> ~(Odd(ShiftRight(r.l)) <=> 0 \in r.h)
  <2>1. CASE 0 \in r.h
    <3>1. Shifted(r).l = ShiftRight(r.l) \cup {7}
      BY <2>1 DEF Shifted
    <3>2. IsFiniteSet(ShiftRight(r.l))
      BY <1>2, ByteFinite
    <3>3. Cardinality(Shifted(r).l) = Cardinality(ShiftRight(r.l)) + 1
      BY <1>2, <3>1, <3>2, FS_AddElement
    <3>4. Cardinality(ShiftRight(r.l)) \in Nat
      BY <3>2, FS_CardinalityType
    <3>. QED  BY <2>1, <3>3, <3>4 DEF Odd
  <2>2. CASE 0 \notin r.h
    <3>1. Shifted(r).l = ShiftRight(r.l)
      BY <2>2 DEF Shifted
    <3>. QED  BY <2>2, <3>1
  <2>. QED  BY <2>1, <2>2
<1>5. /\ Odd(ShiftRight(r.h)) <=> ~(Odd(r.h) <=> 0 \in r.h)
      /\ Odd(ShiftRight(r.l)) <=> ~(Odd(r.l) <=> 0 \in r.l)
  BY <1>1, OddShiftRight
<1>6. OddRegister(Shifted(r)) <=> ~(OddRegister(r) <=> 0 \in r.l)
  BY <1>3, <1>4, <1>5 DEF OddRegister
<1>7. ~Odd(CH) /\ Odd(CL) /\ CH \in Byte /\ CL \in Byte
  <2>1. CH = {5} \cup {7} /\ 7 \notin {5} /\ CL = {0}
    BY DEF CH, CL
  <2>2. \A e : IsFiniteSet({e}) /\ Cardinality({e}) = 1
    BY FS_Singleton
  <2>3. Cardinality({5} \cup {7}) = Cardinality({5}) + 1
    BY <2>1, <2>2, FS_AddElement
  <2>4. Cardinality({5}) = 1 /\ Cardinality({0}) = 1
    BY <2>2
  <2>5. Cardinality({5} \cup {7}) = 2
    BY <2>3, <2>4
  <2>6. Cardinality(CH) = 2 /\ Cardinality(CL) = 1
    BY <2>1, <2>4, <2>5
  <2>. QED  BY <2>6 DEF Odd, CH, CL, Byte, Bits
<1>8. CASE 0 \in r.l
  <2>1. /\ ShiftBit(r).h = SymDiff(Shifted(r).h, CH)
        /\ ShiftBit(r).l = SymDiff(Shifted(r).l, CL)
    BY <1>8 DEF ShiftBit
  <2>2. /\ IsFiniteSet(Shifted(r).h) /\ IsFiniteSet(Shifted(r).l)
        /\ IsFiniteSet(CH) /\ IsFiniteSet(CL)
    BY <1>7, ShiftedType, ByteFinite DEF Register
  <2>3. /\ Odd(ShiftBit(r).h) <=> ~(Odd(Shifted(r).h) <=> Odd(CH))
        /\ Odd(ShiftBit(r).l) <=> ~(Odd(Shifted(r).l) <=> Odd(CL))
    BY <2>1, <2>2, OddDiff
  <2>. QED  BY <1>6, <1>7, <1>8, <2>3 DEF OddRegister
<1>9. CASE 0 \notin r.l
  BY <1>6, <1>9 DEF ShiftBit
<1>. QED  BY <1>8, <1>9

LEMMA OddShiftByte ==
  ASSUME NEW r \in Register
  PROVE  OddRegister(ShiftByte(r)) <=> OddRegister(r)
<1>. DEFINE Shift4(s) == ShiftBit(ShiftBit(ShiftBit(ShiftBit(s))))
<1>1. ASSUME NEW s \in Register
      PROVE  /\ Shift4(s) \in Register
             /\ OddRegister(Shift4(s)) <=> OddRegister(s)
  <2>1. /\ ShiftBit(s) \in Register
        /\ OddRegister(ShiftBit(s)) <=> OddRegister(s)
    BY ShiftBitType, OddShiftBit
  <2>2. /\ ShiftBit(ShiftBit(s)) \in Register
        /\ OddRegister(ShiftBit(ShiftBit(s))) <=> OddRegister(s)
    BY <2>1, ShiftBitType, OddShiftBit
  <2>3. /\ ShiftBit(ShiftBit(ShiftBit(s))) \in Register
        /\ OddRegister(ShiftBit(ShiftBit(ShiftBit(s)))) <=> OddRegister(s)
    BY <2>2, ShiftBitType, OddShiftBit
  <2>. QED  BY <2>3, ShiftBitType, OddShiftBit
<1>2. ShiftByte(r) = Shift4(Shift4(r))
  BY DEF ShiftByte
<1>. HIDE DEF Shift4
<1>. QED  BY <1>1, <1>2

(* Taking a byte adds its ones to those the registers stand for.            *)
LEMMA OddAddByte ==
  ASSUME NEW r \in Register, NEW x \in Byte
  PROVE  OddRegister(AddByte(r, x)) <=> ~(OddRegister(r) <=> Odd(x))
<1>. DEFINE in == [h |-> r.h, l |-> SymDiff(r.l, x)]
<1>1. r.h \in Byte /\ r.l \in Byte
  BY DEF Register
<1>2. in \in Register
  BY <1>1, SymDiffType DEF Register
<1>3. Odd(in.l) <=> ~(Odd(r.l) <=> Odd(x))
  BY <1>1, ByteFinite, OddDiff
<1>4. OddRegister(in) <=> ~(OddRegister(r) <=> Odd(x))
  BY <1>3 DEF OddRegister
<1>5. AddByte(r, x) = ShiftByte(in)
  BY DEF AddByte
<1>. HIDE DEF in
<1>. QED  BY <1>2, <1>4, <1>5, OddShiftByte

=============================================================================
