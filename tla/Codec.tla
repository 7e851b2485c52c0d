-------------------------------- MODULE Codec --------------------------------
(***************************************************************************)
(* The field codecs of src/codec.rs.  A payload is a sequence of bytes and *)
(* offsets count from 0, as in the code.  All integers are big-endian.     *)
(***************************************************************************)
EXTENDS Integers, Sequences

Byte == 0..255

\* check_len(): the condition under which a read succeeds.
Fits(data, offset, need) == offset + need <= Len(data)

ByteAt(data, offset) == data[offset + 1]

-----------------------------------------------------------------------------
(* Integers.  A u32 is the pair of its halves.                             *)

ReadUint16(data, offset) == ByteAt(data, offset) * 256 + ByteAt(data, offset + 1)

ReadUint24(data, offset) ==
  ByteAt(data, offset) * 65536 + ByteAt(data, offset + 1) * 256 + ByteAt(data, offset + 2)

ReadInt16(data, offset) ==
  LET raw == ReadUint16(data, offset) IN IF raw >= 32768 THEN raw - 65536 ELSE raw

\* Faulty variant: the least number is taken for a positive one.
ReadInt24OffByOne(data, offset) ==
  LET raw == ReadUint24(data, offset) IN IF raw > 8388608 THEN raw - 16777216 ELSE raw
ReadInt24(data, offset) ==
  LET raw == ReadUint24(data, offset) IN IF raw >= 8388608 THEN raw - 16777216 ELSE raw

ReadUint32(data, offset) == <<ReadUint16(data, offset), ReadUint16(data, offset + 2)>>

\* The values of an i16 and of a u16, and those a write of 24 bits keeps.
Fits16(v) == v \in Int /\ -32768 <= v /\ v <= 32767
FitsU16(v) == v \in Nat /\ v <= 65535
Fits24(v) == v \in Int /\ -8388608 <= v /\ v <= 8388607

\* The low bytes of the two's complement of val, whether it fits or not.
Write16(val) == <<(val \div 256) % 256, val % 256>>
Write24(val) == <<(val \div 65536) % 256, (val \div 256) % 256, val % 256>>
Write32(val) == Write16(val[1]) \o Write16(val[2])

-----------------------------------------------------------------------------
(* Floats.  An f64 is its sign, its exponent field, the upper 22 of the 52 *)
(* bits of its mantissa, and whether one of the other 30 is set.  The model *)
(* covers 0.0 and normal numbers; the exponent is not bounded here.        *)

Floats == [neg: BOOLEAN, exp: Int, mant: Nat, low: BOOLEAN]
Zero == [neg |-> FALSE, exp |-> 0, mant |-> 0, low |-> FALSE]
Normal(x) == x \in Floats /\ x.mant < 4194304 /\ 1 <= x.exp /\ x.exp <= 2046

\* What five bytes can hold of x.
Truncated(x) == [neg |-> x.neg, exp |-> x.exp, mant |-> x.mant, low |-> FALSE]

\* frexp(): a fraction in [1/2, 1) of 23 bits, the first of them the hidden one.
WriteFloat40(x) ==
  IF x = Zero THEN <<0, 0, 0, 0, 0>>
  ELSE LET mant_abs == 4194304 + x.mant
       IN Write16(x.exp - 1022) \o Write24(IF x.neg THEN -mant_abs ELSE mant_abs)

Pow2 ==
  <<1, 2, 4, 8, 16, 32, 64, 128, 256, 512, 1024, 2048, 4096, 8192, 16384, 32768, 65536,
    131072, 262144, 524288, 1048576, 2097152, 4194304, 8388608, 16777216>>

\* The number of bits of n, for n in 1..2^23.
BitLength(n) == CHOOSE k \in 1..24 : Pow2[k] <= n /\ n < Pow2[k + 1]

\* n shifted until its first bit is the hidden one, without that bit.
Fraction(n) ==
  IF BitLength(n) = 24 THEN n \div 2 - 4194304 ELSE n * Pow2[24 - BitLength(n)] - 4194304

Magnitude(n) == IF n < 0 THEN -n ELSE n

\* mantissa * 2^(exponent - 23), exact in an f64, and normalised by it.
Scaled(mantissa, exponent) ==
  [neg |-> mantissa < 0, exp |-> exponent + 999 + BitLength(Magnitude(mantissa)),
   mant |-> Fraction(Magnitude(mantissa)), low |-> FALSE]

ReadFloat40(data, offset) ==
  LET mant_raw == ReadInt24(data, offset + 2)
  IN IF mant_raw = 0 THEN Zero ELSE Scaled(mant_raw, ReadInt16(data, offset))

=============================================================================
