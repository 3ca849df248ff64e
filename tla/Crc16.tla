-------------------------------- MODULE Crc16 --------------------------------
(***************************************************************************)
(* CRC16_Calc (ProtocolEVSE.cpp): the check value of a packet, computed    *)
(* bit by bit in two registers of eight bits.  A byte is the set of its    *)
(* bits that are 1, so that exclusive or is the symmetric difference.      *)
(***************************************************************************)
EXTENDS FiniteSetsExt

Bits == 0 .. 7
Byte == SUBSET Bits
Register == [h : Byte, l : Byte]

(* The number a byte stands for.                                            *)
Value(byte) ==
  LET worth(bit, weight) == IF bit \in byte THEN weight ELSE 0
  IN  worth(0, 1) + worth(1, 2) + worth(2, 4) + worth(3, 8) + worth(4, 16)
        + worth(5, 32) + worth(6, 64) + worth(7, 128)

ByteOf(n) == CHOOSE byte \in Byte : Value(byte) = n

-----------------------------------------------------------------------------
Preset == [h |-> Bits, l |-> Bits]

CH == {5, 7}          \* 0xA0
CL == {0}             \* 0x01

ShiftRight(byte) == {bit - 1 : bit \in byte \ {0}}

(* Mutant: the bit that leaves the high register is lost.                   *)
ShiftedApart(r) == [h |-> ShiftRight(r.h), l |-> ShiftRight(r.l)]

(* The registers shifted as one, the high one into the low one.             *)
Shifted(r) ==
  [h |-> ShiftRight(r.h),
   l |-> ShiftRight(r.l) \cup {7 : bit \in r.h \cap {0}}]

(* The polynomial is applied when a 1 leaves the low register.              *)
ShiftBit(r) ==
  IF 0 \in r.l
    THEN [h |-> SymDiff(Shifted(r).h, CH), l |-> SymDiff(Shifted(r).l, CL)]
    ELSE Shifted(r)

ShiftByte(r) ==
  ShiftBit(ShiftBit(ShiftBit(ShiftBit(
    ShiftBit(ShiftBit(ShiftBit(ShiftBit(r))))))))

AddByte(r, byte) == ShiftByte([h |-> r.h, l |-> SymDiff(r.l, byte)])

=============================================================================
