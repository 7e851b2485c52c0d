--------------------------- MODULE PayloadsProofs ---------------------------
(***************************************************************************)
(* The codecs of src/codec.rs and the payloads of src/protocol/, for every *)
(* number, float, payload and command: what is written reads back, and no  *)
(* decode() panics, reads a byte twice or leaves out what is documented.   *)
(***************************************************************************)
EXTENDS Payloads, SequenceLemmas

\* Two and three bytes are read as such, alone and in the five of a float.
LEMMA ReadsTwo ==
  ASSUME NEW a \in Byte, NEW b \in Byte
  PROVE  ReadUint16(<<a, b>>, 0) = (a * 256) + b
  BY SMT DEF ReadUint16, ByteAt, Byte

LEMMA ReadsThree ==
  ASSUME NEW c \in Byte, NEW d \in Byte, NEW e \in Byte
  PROVE  ReadUint24(<<c, d, e>>, 0) = (c * 65536) + (d * 256) + e
  BY SMT DEF ReadUint24, ByteAt, Byte

LEMMA ReadsFive ==
  ASSUME NEW s \in Seq(Byte), Len(s) = 2, NEW t \in Seq(Byte), Len(t) = 3
  PROVE  /\ ReadUint16(s \o t, 0) = ReadUint16(s, 0)
         /\ ReadUint24(s \o t, 2) = ReadUint24(t, 0)
  <1>. DEFINE st == s \o t
  <1>1. \A i \in 1..Len(s) + Len(t) : st[i] = IF i <= Len(s) THEN s[i] ELSE t[i - Len(s)]
    BY ConcatProperties
  <1>. HIDE DEF st
  <1>2. st[1] = s[1] /\ st[2] = s[2] /\ st[3] = t[1] /\ st[4] = t[2] /\ st[5] = t[3]
    <2>1. /\ 1 \in 1..Len(s) + Len(t) /\ 1 <= Len(s)
          /\ 2 \in 1..Len(s) + Len(t) /\ 2 <= Len(s)
      BY SMT
    <2>2. /\ 3 \in 1..Len(s) + Len(t) /\ ~(3 <= Len(s)) /\ 3 - Len(s) = 1
          /\ 4 \in 1..Len(s) + Len(t) /\ ~(4 <= Len(s)) /\ 4 - Len(s) = 2
          /\ 5 \in 1..Len(s) + Len(t) /\ ~(5 <= Len(s)) /\ 5 - Len(s) = 3
      BY SMT
    <2>3. st[1] = s[1] /\ st[2] = s[2]
      BY <1>1, <2>1, Zenon
    <2>4. st[3] = t[1] /\ st[4] = t[2] /\ st[5] = t[3]
      <3>1. st[3] = t[3 - Len(s)] /\ st[4] = t[4 - Len(s)] /\ st[5] = t[5 - Len(s)]
        BY <1>1, <2>2, Zenon
      <3> QED BY <2>2, <3>1, Zenon
    <2> QED BY <2>3, <2>4
  <1>3. ReadUint16(st, 0) = ReadUint16(s, 0) /\ ReadUint24(st, 2) = ReadUint24(t, 0)
    BY <1>2, SMT DEF ReadUint16, ReadUint24, ByteAt
  <1> QED BY <1>3 DEF st

\* Division by a byte's range, and by two.
LEMMA Division ==
  ASSUME NEW v \in Int
  PROVE  /\ v \div 256 \in Int /\ v % 256 \in Int /\ 0 <= v % 256 /\ v % 256 <= 255
         /\ v = (256 * (v \div 256)) + (v % 256)
         /\ v \div 65536 = (v \div 256) \div 256
  <1>1. v \div 256 \in Int /\ v % 256 \in Int /\ 0 <= v % 256 /\ v % 256 <= 255
    BY SMT
  <1>2. v = (256 * (v \div 256)) + (v % 256)
    BY SMT
  <1>3. v \div 65536 = (v \div 256) \div 256
    BY SMT
  <1> QED BY <1>1, <1>2, <1>3, SMT

\* The high byte of a small number is the number, or its two's complement.
LEMMA HighByte ==
  ASSUME NEW q \in Int, -128 <= q, q <= 127
  PROVE  q % 256 = IF q < 0 THEN q + 256 ELSE q
  BY SMT

\* The two bytes of a number that fits, and what they read back as.
LEMMA Bytes16 ==
  ASSUME NEW v, Fits16(v)
  PROVE  /\ (v \div 256) % 256 \in Byte /\ v % 256 \in Byte
         /\ (((v \div 256) % 256) * 256) + (v % 256) = IF v < 0 THEN v + 65536 ELSE v
  <1>. DEFINE q == v \div 256
              r == v % 256
              h == q % 256
  <1>1. v \in Int /\ -32768 <= v /\ v <= 32767
    BY SMT DEF Fits16
  <1>2. q \in Int /\ r \in Int /\ 0 <= r /\ r <= 255 /\ v = (256 * q) + r
    BY <1>1, Division, SMT
  <1>3. -128 <= q /\ q <= 127 => h = IF q < 0 THEN q + 256 ELSE q
    BY <1>2, HighByte, SMT
  <1>. HIDE DEF q, r, h
  <1>4. -128 <= q /\ q <= 127
    BY <1>1, <1>2, SMT
  <1>5. /\ h \in Int /\ 0 <= h /\ h <= 255
        /\ (h * 256) + r = IF v < 0 THEN v + 65536 ELSE v
    BY <1>1, <1>2, <1>3, <1>4, SMT
  <1>6. h \in Byte /\ r \in Byte
    BY <1>2, <1>5, SMT DEF Byte
  <1> QED BY <1>5, <1>6, SMT DEF q, r, h

\* The same of three bytes.
LEMMA Bytes24 ==
  ASSUME NEW v, Fits24(v)
  PROVE  /\ (v \div 65536) % 256 \in Byte /\ (v \div 256) % 256 \in Byte /\ v % 256 \in Byte
         /\ (((v \div 65536) % 256) * 65536) + (((v \div 256) % 256) * 256) + (v % 256)
              = IF v < 0 THEN v + 16777216 ELSE v
  <1>. DEFINE q == v \div 256
              r == v % 256
              t == v \div 65536
              m == q % 256
              h == t % 256
  <1>1. v \in Int /\ -8388608 <= v /\ v <= 8388607
    BY SMT DEF Fits24
  <1>2. q \in Int /\ r \in Int /\ 0 <= r /\ r <= 255 /\ v = (256 * q) + r /\ t = q \div 256
    BY <1>1, Division, SMT
  <1>3. /\ q \div 256 \in Int /\ m \in Int /\ 0 <= m /\ m <= 255
        /\ q = (256 * (q \div 256)) + m
    BY <1>2, Division, SMT
  <1>4. t \in Int /\ q = (256 * t) + m
    BY <1>2, <1>3, SMT
  <1>5. -128 <= t /\ t <= 127 => h = IF t < 0 THEN t + 256 ELSE t
    BY <1>4, HighByte, SMT
  <1>. HIDE DEF q, r, t, m, h
  <1>6. -128 <= t /\ t <= 127
    BY <1>1, <1>2, <1>3, <1>4, SMT
  <1>7. /\ h \in Int /\ 0 <= h /\ h <= 255
        /\ (h * 65536) + (m * 256) + r = IF v < 0 THEN v + 16777216 ELSE v
    BY <1>1, <1>2, <1>3, <1>4, <1>5, <1>6, SMT
  <1>8. h \in Byte /\ m \in Byte /\ r \in Byte
    BY <1>2, <1>3, <1>7, SMT DEF Byte
  <1> QED BY <1>7, <1>8, SMT DEF q, r, t, m, h

\* An i16 is read back as it was written.
THEOREM Int16RoundTrip ==
  ASSUME NEW v, Fits16(v)
  PROVE  ReadInt16(Write16(v), 0) = v
  <1>. DEFINE a == (v \div 256) % 256
              b == v % 256
  <1>1. a \in Byte /\ b \in Byte /\ (a * 256) + b = IF v < 0 THEN v + 65536 ELSE v
    BY Bytes16, SMT
  <1>2. Write16(v) = <<a, b>>
    BY SMT DEF Write16
  <1>. HIDE DEF a, b
  <1>3. ReadUint16(<<a, b>>, 0) = (a * 256) + b
    BY <1>1, ReadsTwo, SMT
  <1>4. v \in Int /\ -32768 <= v /\ v <= 32767
    BY SMT DEF Fits16
  <1> QED BY <1>1, <1>2, <1>3, <1>4, SMT DEF ReadInt16

\* A number of 24 bits is read back as it was written: the sign is neither lost
\* nor invented at either end of the range.
THEOREM Int24RoundTrip ==
  ASSUME NEW v, Fits24(v)
  PROVE  ReadInt24(Write24(v), 0) = v
  <1>. DEFINE c == (v \div 65536) % 256
              d == (v \div 256) % 256
              e == v % 256
  <1>1. /\ c \in Byte /\ d \in Byte /\ e \in Byte
        /\ (c * 65536) + (d * 256) + e = IF v < 0 THEN v + 16777216 ELSE v
    BY Bytes24, SMT
  <1>2. Write24(v) = <<c, d, e>>
    BY SMT DEF Write24
  <1>. HIDE DEF c, d, e
  <1>3. ReadUint24(<<c, d, e>>, 0) = (c * 65536) + (d * 256) + e
    BY <1>1, ReadsThree, SMT
  <1>4. v \in Int /\ -8388608 <= v /\ v <= 8388607
    BY SMT DEF Fits24
  <1> QED BY <1>1, <1>2, <1>3, <1>4, SMT DEF ReadInt24

\* ReadInt24 and ReadInt16 see two parts of a float.
LEMMA ReadsFloat ==
  ASSUME NEW v, Fits16(v), NEW w, Fits24(w)
  PROVE  /\ ReadInt16(Write16(v) \o Write24(w), 0) = v
         /\ ReadInt24(Write16(v) \o Write24(w), 2) = w
  <1>. DEFINE s == Write16(v)
              t == Write24(w)
  <1>1. s \in Seq(Byte) /\ Len(s) = 2
    BY Bytes16, SMT DEF Write16
  <1>2. t \in Seq(Byte) /\ Len(t) = 3
    BY Bytes24, SMT DEF Write24
  <1>3. ReadInt16(s, 0) = v /\ ReadInt24(t, 0) = w
    BY Int16RoundTrip, Int24RoundTrip, SMT
  <1>. HIDE DEF s, t
  <1>4. ReadUint16(s \o t, 0) = ReadUint16(s, 0) /\ ReadUint24(s \o t, 2) = ReadUint24(t, 0)
    BY <1>1, <1>2, ReadsFive
  <1>5. ReadInt16(s \o t, 0) = v
    BY <1>3, <1>4, SMT DEF ReadInt16
  <1>6. ReadInt24(s \o t, 2) = w
    BY <1>3, <1>4, SMT DEF ReadInt24
  <1> QED BY <1>5, <1>6 DEF s, t

\* A mantissa with its hidden bit has 23 bits, and its fraction is the mantissa.
LEMMA HiddenBit ==
  ASSUME NEW m \in Int, 0 <= m, m <= 4194303
  PROVE  BitLength(4194304 + m) = 23 /\ Fraction(4194304 + m) = m
  <1>. DEFINE n == 4194304 + m
  <1>1. n \in Int /\ 4194304 <= n /\ n <= 8388607 /\ n - 4194304 = m
    BY SMT
  <1>. HIDE DEF n
  <1>2. Pow2[23] = 4194304 /\ Pow2[24] = 8388608 /\ Pow2[1] = 1
    BY SMT DEF Pow2
  <1>3. \A k \in 1..22 : Pow2[k + 1] <= 4194304
    BY SMT DEF Pow2
  <1>4. Pow2[23] <= n /\ n < Pow2[24]
    BY <1>1, <1>2, SMT
  <1>5. \A k \in 1..24 : Pow2[k] <= n /\ n < Pow2[k + 1] => k = 23
    <2>1. SUFFICES ASSUME NEW k \in 1..24, Pow2[k] <= n, n < Pow2[k + 1]
                   PROVE  k = 23
      OBVIOUS
    <2>2. CASE k \in 1..22
      BY <1>1, <1>3, <2>1, <2>2, SMT DEF Pow2
    <2>3. CASE k = 24
      BY <1>1, <1>2, <2>1, <2>3, SMT
    <2> QED BY <2>1, <2>2, <2>3, SMT
  <1>6. BitLength(n) = 23
    BY <1>4, <1>5, SMT DEF BitLength
  <1>7. Fraction(n) = m
    BY <1>1, <1>2, <1>6, SMT DEF Fraction
  <1> QED BY <1>6, <1>7 DEF n

\* A float the device can be sent is read back as it was written, up to the
\* thirty bits of the mantissa that five bytes cannot hold.
THEOREM Float40RoundTrip ==
  ASSUME NEW x, Normal(x)
  PROVE  ReadFloat40(WriteFloat40(x), 0) = Truncated(x)
  <1>1. PICK neg \in BOOLEAN, exp \in Int, m \in Nat, low \in BOOLEAN :
             x = [neg |-> neg, exp |-> exp, mant |-> m, low |-> low]
    BY SMT DEF Normal, Floats
  <1>2. m <= 4194303 /\ 1 <= exp /\ exp <= 2046
    BY <1>1, SMT DEF Normal
  <1>. DEFINE n == 4194304 + m
              w == IF neg THEN -n ELSE n
              v == exp - 1022
  <1>3. WriteFloat40(x) = Write16(v) \o Write24(w)
    <2>1. x # Zero
      BY <1>1, <1>2, SMT DEF Zero
    <2> QED BY <1>1, <2>1, SMT DEF WriteFloat40
  <1>4. BitLength(n) = 23 /\ Fraction(n) = m
    BY <1>2, HiddenBit, SMT
  <1>5. Fits16(v) /\ v \in Int /\ v + 999 + 23 = exp
    BY <1>2, SMT DEF Fits16
  <1>6. n \in Int /\ 4194304 <= n /\ n <= 8388607
    BY <1>2, SMT
  <1>. HIDE DEF n, v
  <1>7. Fits24(w)
    BY <1>6, SMT DEF Fits24
  <1>8. w # 0 /\ (neg => w < 0 /\ -w = n) /\ (~neg => ~(w < 0) /\ w = n)
    BY <1>6, SMT
  <1>. HIDE DEF w
  <1>9. ReadInt16(WriteFloat40(x), 0) = v /\ ReadInt24(WriteFloat40(x), 2) = w
    BY <1>3, <1>5, <1>7, ReadsFloat
  <1>10. Truncated(x) = [neg |-> neg, exp |-> exp, mant |-> m, low |-> FALSE]
    BY <1>1, Zenon DEF Truncated
  <1>. DEFINE d == WriteFloat40(x)
  <1>. HIDE DEF d
  <1>11. ReadFloat40(d, 0) = Scaled(w, v)
    BY <1>8, <1>9, SMT DEF ReadFloat40, d
  <1>12. Magnitude(w) = n
    BY <1>6, <1>8, SMT DEF Magnitude
  <1>13. v + 999 + BitLength(n) = exp
    BY <1>4, <1>5, SMT
  <1>14. (w < 0) = neg
    BY <1>8
  <1>15. Scaled(w, v) = [neg |-> neg, exp |-> exp, mant |-> m, low |-> FALSE]
    BY <1>4, <1>12, <1>13, <1>14, Zenon DEF Scaled
  <1> QED BY <1>10, <1>11, <1>15, Zenon DEF d

-----------------------------------------------------------------------------
(* Layouts.  The fields of a decoder lie apart and within a part of the     *)
(* payload: proved of its pieces, and then of the whole.                    *)

Kinds == {"u8", "flag", "nonzero", "slice"} \cup Checked
FieldSet == [kind: Kinds, at: Nat, width: Nat, is: Nat]
Within(fields, lo, hi, n) ==
  /\ fields \in Seq(FieldSet) /\ Len(fields) = n
  /\ \A i \in 1..n : lo <= fields[i].at /\ fields[i].at + fields[i].width <= hi
Apart(fields) == \A i, j \in 1..Len(fields) : i < j => ~Overlap(fields[i], fields[j])
Reads(fields, lo, hi, n) == Within(fields, lo, hi, n) /\ Apart(fields)
LEMMA I16sRead ==
  ASSUME NEW at \in Nat, NEW n \in Nat, NEW end \in Nat, end = at + (2 * n)
  PROVE  Reads(I16s(at, n), at, end, n)
  BY DEF I16s, Reads, Within, Apart, I16, Field, FieldSet, Kinds, Checked, Overlap

LEMMA I24sRead ==
  ASSUME NEW at \in Nat, NEW n \in Nat, NEW end \in Nat, end = at + (3 * n)
  PROVE  Reads(I24s(at, n), at, end, n)
  BY DEF I24s, Reads, Within, Apart, I24, Field, FieldSet, Kinds, Checked, Overlap

LEMMA FieldsInOrder ==
  ASSUME NEW s, NEW t, NEW a \in Nat, NEW b \in Nat, NEW c \in Nat, NEW d \in Nat, NEW k \in Nat, NEW l \in Nat,
         Reads(s, a, b, k), Reads(t, c, d, l), b <= c \/ d <= a
  PROVE  /\ s \o t \in Seq(FieldSet) /\ Len(s \o t) = k + l
         /\ \A i \in 1..(k + l) : \/ a <= (s \o t)[i].at /\ (s \o t)[i].at + (s \o t)[i].width <= b
                                  \/ c <= (s \o t)[i].at /\ (s \o t)[i].at + (s \o t)[i].width <= d
         /\ Apart(s \o t)
  <1> DEFINE st == s \o t
  <1>1. /\ s \in Seq(FieldSet) /\ t \in Seq(FieldSet) /\ Len(s) = k /\ Len(t) = l
    BY DEF Reads, Within
  <1>2. /\ st \in Seq(FieldSet) /\ Len(st) = k + l
        /\ \A i \in 1..(k + l) : st[i] = IF i <= k THEN s[i] ELSE t[i - k]
    BY <1>1, ConcatProperties
  <1>3. \A i \in 1..k : s[i] \in FieldSet /\ a <= s[i].at /\ s[i].at + s[i].width <= b
    BY <1>1 DEF Reads, Within
  <1>4. \A i \in 1..l : t[i] \in FieldSet /\ c <= t[i].at /\ t[i].at + t[i].width <= d
    BY <1>1 DEF Reads, Within
  <1> HIDE DEF st
  <1>5. \A i \in 1..(k + l) : \/ a <= st[i].at /\ st[i].at + st[i].width <= b
                              \/ c <= st[i].at /\ st[i].at + st[i].width <= d
    BY <1>2, <1>3, <1>4
  <1>6. Apart(st)
    <2> SUFFICES ASSUME NEW i \in 1..(k + l), NEW j \in 1..(k + l), i < j PROVE ~Overlap(st[i], st[j])
      BY <1>2 DEF Apart
    <2>1. CASE j <= k
      <3>1. i \in 1..k /\ j \in 1..k /\ st[i] = s[i] /\ st[j] = s[j] BY <1>2, <2>1
      <3> QED BY <1>1, <3>1 DEF Reads, Apart
    <2>2. CASE k < i
      <3>1. i - k \in 1..l /\ j - k \in 1..l /\ i - k < j - k /\ st[i] = t[i - k] /\ st[j] = t[j - k] BY <1>2, <2>2
      <3> QED BY <1>1, <3>1 DEF Reads, Apart
    <2>3. CASE i <= k /\ k < j
      <3>1. i \in 1..k /\ j - k \in 1..l /\ st[i] = s[i] /\ st[j] = t[j - k] BY <1>2, <2>3
      <3>2. st[i].at \in Nat /\ st[i].width \in Nat /\ st[j].at \in Nat /\ st[j].width \in Nat
        BY <1>3, <1>4, <3>1 DEF FieldSet
      <3>3. a <= st[i].at /\ st[i].at + st[i].width <= b /\ c <= st[j].at /\ st[j].at + st[j].width <= d
        BY <1>3, <1>4, <3>1
      <3> QED BY <3>2, <3>3 DEF Overlap
    <2> QED BY <2>1, <2>2, <2>3
  <1> QED BY <1>2, <1>5, <1>6 DEF st

LEMMA BothRead ==
  ASSUME NEW s, NEW t, NEW a \in Nat, NEW b \in Nat, NEW c \in Nat, NEW d \in Nat, NEW k \in Nat, NEW l \in Nat,
         Reads(s, a, b, k), Reads(t, c, d, l), b <= c \/ d <= a,
         NEW lo \in Nat, NEW hi \in Nat, NEW n \in Nat, lo <= a, lo <= c, b <= hi, d <= hi, n = k + l
  PROVE  Reads(s \o t, lo, hi, n)
  <1> DEFINE st == s \o t
  <1>1. /\ st \in Seq(FieldSet) /\ Len(st) = k + l
        /\ \A i \in 1..(k + l) : \/ a <= st[i].at /\ st[i].at + st[i].width <= b
                                 \/ c <= st[i].at /\ st[i].at + st[i].width <= d
        /\ Apart(st)
    BY FieldsInOrder
  <1> HIDE DEF st
  <1>2. \A i \in 1..(k + l) : st[i].at \in Nat /\ st[i].width \in Nat
    <2>1. \A i \in 1..(k + l) : st[i] \in FieldSet BY <1>1
    <2> QED BY <2>1 DEF FieldSet
  <1>3. \A i \in 1..(k + l) : lo <= st[i].at /\ st[i].at + st[i].width <= hi
    <2> SUFFICES ASSUME NEW i \in 1..(k + l) PROVE lo <= st[i].at /\ st[i].at + st[i].width <= hi
      OBVIOUS
    <2>1. PICK u \in Nat, v \in Nat : u = st[i].at /\ v = st[i].width
      BY <1>2
    <2>2. (a <= u /\ u + v <= b) \/ (c <= u /\ u + v <= d)
      BY <1>1, <2>1
    <2> QED BY <2>1, <2>2
  <1>4. Reads(st, lo, hi, n)
    BY <1>1, <1>3 DEF Reads, Within
  <1> QED BY <1>4 DEF st

\* Fields behind others, and fields in front of others.
LEMMA ThenRead ==
  ASSUME NEW s, NEW t, NEW a \in Nat, NEW b \in Nat, NEW c \in Nat, NEW d \in Nat, NEW k \in Nat, NEW l \in Nat,
         Reads(s, a, b, k), Reads(t, c, d, l), a <= c, b <= c, b <= d, NEW n \in Nat, n = k + l
  PROVE  Reads(s \o t, a, d, n)
  <1>1. (b <= c \/ d <= a) /\ a <= a /\ a <= c /\ b <= d /\ d <= d /\ n = k + l
    OBVIOUS
  <1> QED BY <1>1, BothRead, Zenon

LEMMA BeforeRead ==
  ASSUME NEW s, NEW t, NEW a \in Nat, NEW b \in Nat, NEW c \in Nat, NEW d \in Nat, NEW k \in Nat, NEW l \in Nat,
         Reads(s, a, b, k), Reads(t, c, d, l), c <= a, d <= a, d <= b, NEW n \in Nat, n = k + l
  PROVE  Reads(s \o t, c, b, n)
  <1>1. (b <= c \/ d <= a) /\ c <= a /\ c <= c /\ b <= b /\ d <= b /\ n = k + l
    OBVIOUS
  <1> QED BY <1>1, BothRead, Zenon

\* Quotient and remainder of a position among records.
LEMMA Position ==
  ASSUME NEW k \in Nat, k # 0, NEW i \in Nat
  PROVE  /\ (i \div k) \in Nat /\ (i % k) \in Nat /\ (i % k) < k
         /\ i = (k * (i \div k)) + (i % k)
  OBVIOUS

LEMMA Times ==
  ASSUME NEW q \in Nat, NEW n \in Nat, NEW k \in Nat, q < n
  PROVE  (k * q) + k <= k * n
  <1>1. PICK m \in Nat : n = (q + 1) + m
    <2>1. n - (q + 1) \in Nat /\ n = (q + 1) + (n - (q + 1)) OBVIOUS
    <2> QED BY <2>1
  <1>2. k * n = (k * q) + k + (k * m)
    BY <1>1
  <1>3. k * m \in Nat /\ k * q \in Nat OBVIOUS
  <1> QED BY <1>2, <1>3

LEMMA RecordsRead ==
  ASSUME NEW record, NEW at \in Nat, NEW stride \in Nat, NEW n \in Nat, NEW k \in Nat, k # 0,
         Reads(record, 0, stride, k)
  PROVE  Reads(Records(record, at, stride, n), at, at + (stride * n), n * k)
  <1> DEFINE r == Records(record, at, stride, n)
  <1>1. /\ record \in Seq(FieldSet) /\ Len(record) = k
        /\ \A x \in 1..k : record[x] \in FieldSet /\ record[x].at + record[x].width <= stride
    BY DEF Reads, Within
  <1>2. PICK m : m = n * k OBVIOUS
  <1>3. m \in Nat
    BY <1>2
  <1>4. \A i \in 1..m : /\ ((i - 1) \div k) \in Nat /\ ((i - 1) % k) \in Nat /\ ((i - 1) % k) < k
                        /\ i - 1 = (k * ((i - 1) \div k)) + ((i - 1) % k)
    <2> SUFFICES ASSUME NEW i \in 1..m
                 PROVE  /\ ((i - 1) \div k) \in Nat /\ ((i - 1) % k) \in Nat /\ ((i - 1) % k) < k
                        /\ i - 1 = (k * ((i - 1) \div k)) + ((i - 1) % k)
      OBVIOUS
    <2>1. i - 1 \in Nat BY <1>3
    <2> QED BY <2>1, Position
  <1> DEFINE q(i) == (i - 1) \div k
             x(i) == ((i - 1) % k) + 1
             by(i) == at + (stride * q(i))
  <1>5. r = [i \in 1..m |-> Shifted(record[x(i)], by(i))]
    BY <1>1, <1>2 DEF Records
  <1>6. \A i \in 1..m : q(i) \in Nat /\ x(i) \in 1..k /\ i = (k * q(i)) + x(i)
    BY <1>3, <1>4
  <1> HIDE DEF r, q, x
  <1>7. \A i \in 1..m : q(i) < n
    <2> SUFFICES ASSUME NEW i \in 1..m, ~(q(i) < n) PROVE FALSE
      BY <1>6
    <2>1. PICK g \in Nat : g = q(i) BY <1>6
    <2>2. n < g + 1 BY <2>1
    <2>3. (k * n) + k <= k * (g + 1) BY <2>1, <2>2, Times
    <2>4. k * (g + 1) = (k * g) + k BY <2>1
    <2>5. k * n = m BY <1>2
    <2>6. k * g \in Nat /\ k * n \in Nat BY <2>1
    <2>7. x(i) \in Nat /\ x(i) >= 1 /\ i <= m /\ i = (k * g) + x(i) BY <1>3, <1>6, <2>1
    <2> QED BY <2>3, <2>4, <2>5, <2>6, <2>7
  <1>8. \A i \in 1..m : /\ (stride * q(i)) \in Nat /\ by(i) \in Nat /\ at <= by(i)
                        /\ by(i) + stride <= at + (stride * n)
    <2> SUFFICES ASSUME NEW i \in 1..m
                 PROVE  /\ (stride * q(i)) \in Nat /\ by(i) \in Nat /\ at <= by(i)
                        /\ by(i) + stride <= at + (stride * n)
      OBVIOUS
    <2>1. PICK g \in Nat : g = q(i) BY <1>6
    <2>2. (stride * g) + stride <= stride * n BY <1>7, <2>1, Times
    <2>3. (stride * g) \in Nat /\ stride * n \in Nat BY <2>1
    <2> QED BY <2>1, <2>2, <2>3
  <1>9. \A i \in 1..m : /\ r[i] \in FieldSet /\ r[i].at = record[x(i)].at + by(i) /\ r[i].width = record[x(i)].width
    <2> SUFFICES ASSUME NEW i \in 1..m
                 PROVE  /\ r[i] \in FieldSet /\ r[i].at = record[x(i)].at + by(i)
                        /\ r[i].width = record[x(i)].width
      OBVIOUS
    <2>1. PICK f \in FieldSet : f = record[x(i)] BY <1>1, <1>6
    <2>2. PICK b \in Nat : b = by(i) BY <1>8
    <2>3. r[i] = Shifted(f, b) BY <1>5, <2>1, <2>2
    <2>4. Shifted(f, b) \in FieldSet /\ Shifted(f, b).at = f.at + b /\ Shifted(f, b).width = f.width
      BY DEF Shifted, FieldSet
    <2> QED BY <2>1, <2>2, <2>3, <2>4
  <1> HIDE DEF by
  <1>10. r \in Seq(FieldSet) /\ Len(r) = m
    BY <1>3, <1>5, <1>9
  <1>11. \A i \in 1..m : /\ record[x(i)].at \in Nat /\ record[x(i)].width \in Nat
                         /\ record[x(i)].at + record[x(i)].width <= stride
    BY <1>1, <1>6 DEF FieldSet
  <1>12. \A i \in 1..m : at <= r[i].at /\ r[i].at + r[i].width <= at + (stride * n)
    <2> SUFFICES ASSUME NEW i \in 1..m PROVE at <= r[i].at /\ r[i].at + r[i].width <= at + (stride * n)
      OBVIOUS
    <2>1. PICK e \in Nat : e = stride * n OBVIOUS
    <2>2. by(i) + stride <= at + e BY <1>8, <2>1
    <2> QED BY <1>8, <1>9, <1>11, <2>1, <2>2
  <1>13. Within(r, at, at + (stride * n), n * k)
    BY <1>2, <1>10, <1>12 DEF Within
  <1>14. ASSUME NEW i \in 1..m, NEW j \in 1..m, i < j PROVE ~Overlap(r[i], r[j])
    <2>1. PICK g \in Nat, h \in Nat : g = q(i) /\ h = q(j) BY <1>6
    <2>2. x(i) \in 1..k /\ x(j) \in 1..k /\ i = (k * g) + x(i) /\ j = (k * h) + x(j) BY <1>6, <2>1
    <2>3. g <= h
      <3> SUFFICES ASSUME h < g PROVE FALSE BY <2>1
      <3>1. (k * h) + k <= k * g BY <2>1, Times
      <3>2. k * h \in Nat /\ k * g \in Nat BY <2>1
      <3> QED BY <1>14, <2>2, <3>1, <3>2
    <2>4. CASE g = h
      <3>1. x(i) < x(j)
        <4>1. k * g \in Nat BY <2>1
        <4> QED BY <1>14, <2>2, <2>4, <4>1
      <3>2. ~Overlap(record[x(i)], record[x(j)])
        BY <1>1, <2>2, <3>1 DEF Reads, Apart
      <3>3. by(i) = by(j) BY <2>1, <2>4 DEF by
      <3> QED BY <1>8, <1>9, <1>11, <3>2, <3>3 DEF Overlap
    <2>5. CASE g < h
      <3>1. (stride * g) + stride <= stride * h BY <2>1, <2>5, Times
      <3>2. by(i) = at + (stride * g) /\ by(j) = at + (stride * h) BY <2>1 DEF by
      <3>3. (stride * g) \in Nat /\ stride * h \in Nat BY <2>1
      <3>4. by(i) + stride <= by(j) BY <3>1, <3>2, <3>3
      <3>5. r[i].at + r[i].width <= r[j].at BY <1>8, <1>9, <1>11, <3>4
      <3>6. r[i].at \in Nat /\ r[i].width \in Nat /\ r[j].at \in Nat /\ r[j].width \in Nat BY <1>9 DEF FieldSet
      <3> QED BY <3>5, <3>6 DEF Overlap
    <2> QED BY <2>1, <2>3, <2>4, <2>5
  <1>15. Apart(r)
    BY <1>10, <1>14 DEF Apart
  <1> QED BY <1>13, <1>15 DEF Reads, r

\* What Fitting counts lies in the payload, and all that is announced is
\* counted if there is room for it.
LEMMA FittingFits ==
  ASSUME NEW n \in Nat, NEW from \in Nat, NEW stride \in Nat, stride # 0, NEW p \in Seq(Byte)
  PROVE  /\ Fitting(n, from, stride, p) \in Nat
         /\ Fitting(n, from, stride, p) # 0 => from + (stride * Fitting(n, from, stride, p)) <= Len(p)
         /\ from + (stride * n) <= Len(p) => Fitting(n, from, stride, p) = n
  <1> DEFINE l == Len(p)
             R == {i \in 1..n : from + (stride * i) <= l}
  <1>1. l \in Nat
    OBVIOUS
  <1>2. Fitting(n, from, stride, p) = Cardinality(R)
    BY DEF Fitting
  <1> HIDE DEF l
  <1>3. CASE l < from
    <2>1. \A i \in 1..n : stride * i \in Nat
      OBVIOUS
    <2>2. R = {} BY <1>1, <1>3, <2>1
    <2>3. Cardinality(R) = 0 BY <2>2, FS_EmptySet
    <2>4. stride * n \in Nat /\ (n # 0 => stride * n > 0) OBVIOUS
    <2> QED BY <1>1, <1>2, <1>3, <2>3, <2>4 DEF l
  <1>4. CASE from <= l
    <2>1. PICK room \in Nat : room = l - from BY <1>1, <1>4
    <2>2. PICK q \in Nat, z \in Nat : room = (stride * q) + z /\ z < stride
      <3>1. (room \div stride) \in Nat /\ (room % stride) \in Nat /\ (room % stride) < stride
            /\ room = (stride * (room \div stride)) + (room % stride)
        BY Position
      <3> QED BY <3>1
    <2>3. \A i \in Nat : from + (stride * i) <= l <=> i <= q
      <3> SUFFICES ASSUME NEW i \in Nat PROVE stride * i <= room <=> i <= q
        <4> SUFFICES ASSUME NEW i \in Nat, stride * i <= room <=> i <= q
                     PROVE  from + (stride * i) <= l <=> i <= q
          OBVIOUS
        <4>1. PICK e \in Nat : e = stride * i OBVIOUS
        <4>2. e <= room <=> from + e <= l BY <1>1, <2>1
        <4> QED BY <4>1, <4>2
      <3>0. stride * i \in Nat /\ stride * q \in Nat OBVIOUS
      <3>1. CASE i <= q
        <4>1. i = q => stride * i = stride * q OBVIOUS
        <4>2. i < q => (stride * i) + stride <= stride * q BY Times
        <4> QED BY <2>2, <3>0, <3>1, <4>1, <4>2
      <3>2. CASE q < i
        <4>1. (stride * q) + stride <= stride * i BY <3>2, Times
        <4> QED BY <2>2, <3>0, <3>2, <4>1
      <3> QED BY <3>1, <3>2
    <2>4. PICK m \in Nat : m = IF n <= q THEN n ELSE q OBVIOUS
    <2>5. R = 1..m
      <3>1. \A i \in 1..n : from + (stride * i) <= l <=> i <= q
        <4>1. \A i \in 1..n : i \in Nat OBVIOUS
        <4> QED BY <2>3, <4>1, Zenon
      <3>2. R = {i \in 1..n : i <= q} BY <3>1
      <3> HIDE DEF R
      <3> QED BY <2>4, <3>2
    <2>6. Cardinality(R) = m
      <3>1. Cardinality(1..m) = m
        <4>1. Cardinality(1..m) = IF 1 > m THEN 0 ELSE m - 1 + 1 BY FS_Interval
        <4> QED BY <4>1
      <3> QED BY <2>5, <3>1
    <2>7. m # 0 => from + (stride * m) <= l BY <2>3, <2>4
    <2>8. from + (stride * n) <= l => m = n BY <2>3, <2>4
    <2> QED BY <1>2, <2>6, <2>7, <2>8 DEF l
  <1> QED BY <1>1, <1>3, <1>4

Once(o) ==
  o.msg \notin {"DspStatus46", "CalDataReq"} =>
    \A i, j \in DOMAIN o.fields :
      LET f == o.fields[i]
          g == o.fields[j]
      IN i < j /\ Overlap(f, g) => o.msg = "AvrStatus" /\ f = I24(8) /\ g = F40(10)
Sound(o) == o.msg # "panic" /\ Once(o)

LEMMA RefusedSound == Sound(Refused)
  BY DEF Sound, Once, Refused, Outcome

\* What a decoder returns that has read n fields.
AllRead(o, msg, fields, p, n) ==
  /\ o.msg = msg /\ o.fields = fields
  /\ o.val = [i \in 1..n |-> Value(p, fields[i])] /\ Len(o.val) = n

\* A decoder whose fields lie in the payload reads them all.
LEMMA DecodedIs ==
  ASSUME NEW msg, NEW need \in Nat, NEW fields, NEW p \in Seq(Byte), NEW n \in Nat, Len(p) >= need,
         Within(fields, 0, Len(p), n)
  PROVE  AllRead(Decoded(msg, need, fields, p), msg, fields, p, n)
  <1>1. /\ fields \in Seq(FieldSet) /\ Len(fields) = n
        /\ \A i \in 1..n : fields[i].at + fields[i].width <= Len(p)
    BY DEF Within
  <1>2. {i \in 1..Len(fields) : ~Fits(p, fields[i].at, fields[i].width)} = {}
    BY <1>1 DEF Fits
  <1>3. Decoded(msg, need, fields, p)
          = [msg |-> msg, fields |-> fields, val |-> [i \in DOMAIN fields |-> Value(p, fields[i])]]
    BY <1>2 DEF Decoded, SelectInSeq
  <1>4. DOMAIN fields = 1..n
    BY <1>1
  <1> DEFINE v == [i \in 1..n |-> Value(p, fields[i])]
  <1>5. Len(v) = n
    OBVIOUS
  <1> HIDE DEF v
  <1>6. Decoded(msg, need, fields, p) = [msg |-> msg, fields |-> fields, val |-> v]
    BY <1>3, <1>4, Zenon DEF v
  <1> QED BY <1>5, <1>6 DEF v, AllRead

LEMMA ReadsSound ==
  ASSUME NEW msg, msg # "panic", NEW need \in Nat, NEW fields, NEW p \in Seq(Byte), NEW n \in Nat,
         Len(p) >= need => Reads(fields, 0, Len(p), n)
  PROVE  Sound(Decoded(msg, need, fields, p))
  <1>1. CASE Len(p) < need
    BY <1>1, RefusedSound DEF Decoded
  <1>2. CASE Len(p) >= need
    <2>1. Within(fields, 0, Len(p), n) /\ Apart(fields)
      BY <1>2 DEF Reads
    <2>2. PICK o : o = Decoded(msg, need, fields, p)
      OBVIOUS
    <2>3. o.msg = msg /\ o.fields = fields
      <3>1. Within(fields, 0, Len(p), n) BY <2>1
      <3>2. AllRead(o, msg, fields, p, n) BY <1>2, <2>2, <3>1, DecodedIs
      <3> QED BY <3>2 DEF AllRead
    <2>4. DOMAIN fields = 1..Len(fields)
      BY <2>1 DEF Within
    <2>5. Sound(o)
      BY <2>1, <2>3, <2>4 DEF Sound, Once, Apart
    <2> QED BY <2>2, <2>5
  <1> QED BY <1>1, <1>2

LEMMA WithinMore ==
  ASSUME NEW fields, NEW lo \in Nat, NEW hi \in Nat, NEW n \in Nat, Within(fields, lo, hi, n),
         NEW less \in Nat, NEW more \in Nat, less <= lo, hi <= more
  PROVE  Within(fields, less, more, n)
  <1>1. /\ fields \in Seq(FieldSet) /\ Len(fields) = n
        /\ \A i \in 1..n : lo <= fields[i].at /\ fields[i].at + fields[i].width <= hi
    BY DEF Within
  <1>2. \A i \in 1..n : fields[i].at \in Nat /\ fields[i].width \in Nat
    <2>1. \A i \in 1..n : fields[i] \in FieldSet BY <1>1
    <2> QED BY <2>1 DEF FieldSet
  <1>3. \A i \in 1..n : less <= fields[i].at /\ fields[i].at + fields[i].width <= more
    BY <1>1, <1>2
  <1> QED BY <1>1, <1>3 DEF Within

LEMMA ReadsMore ==
  ASSUME NEW fields, NEW lo \in Nat, NEW hi \in Nat, NEW n \in Nat, Reads(fields, lo, hi, n),
         NEW less \in Nat, NEW more \in Nat, less <= lo, hi <= more
  PROVE  Reads(fields, less, more, n)
  BY WithinMore DEF Reads

\* The same for a fixed layout.
SoundWith(o, p, need, n) == Sound(o) /\ (Len(p) >= need => Len(o.val) = n)
LEMMA LayoutSound ==
  ASSUME NEW msg, msg # "panic", NEW need \in Nat, NEW fields, NEW n \in Nat, Reads(fields, 0, need, n),
         NEW p \in Seq(Byte)
  PROVE  SoundWith(Decoded(msg, need, fields, p), p, need, n)
  <1>1. Len(p) \in Nat OBVIOUS
  <1>2. Len(p) >= need => Reads(fields, 0, Len(p), n)
    <2> SUFFICES ASSUME Len(p) >= need PROVE Reads(fields, 0, Len(p), n) OBVIOUS
    <2>1. need <= Len(p) BY <1>1
    <2> QED BY <1>1, <2>1, ReadsMore
  <1>3. Sound(Decoded(msg, need, fields, p))
    BY <1>2, ReadsSound
  <1>4. Len(p) >= need => Len(Decoded(msg, need, fields, p).val) = n
    <2> SUFFICES ASSUME Len(p) >= need PROVE Len(Decoded(msg, need, fields, p).val) = n OBVIOUS
    <2>1. Within(fields, 0, Len(p), n) BY <1>2 DEF Reads
    <2>2. AllRead(Decoded(msg, need, fields, p), msg, fields, p, n) BY <2>1, DecodedIs
    <2> QED BY <2>2, Zenon DEF AllRead
  <1> QED BY <1>3, <1>4 DEF SoundWith

-----------------------------------------------------------------------------

LEMMA OneRead ==
  ASSUME NEW f \in FieldSet
  PROVE  Reads(<<f>>, f.at, f.at + f.width, 1)
  BY DEF Reads, Within, Apart, FieldSet

LEMMA RawSound ==
  ASSUME NEW msg, msg # "panic", NEW p \in Seq(Byte)
  PROVE  Sound(Raw(msg, p))
  <1>1. Slice(0, Len(p)) \in FieldSet /\ Slice(0, Len(p)).at = 0 /\ Slice(0, Len(p)).width = Len(p)
    BY DEF Slice, Field, FieldSet, Kinds, Checked
  <1>2. Reads(<<Slice(0, Len(p))>>, 0, Len(p), 1)
    BY <1>1, OneRead
  <1>3. Sound(Decoded(msg, 0, <<Slice(0, Len(p))>>, p))
    BY <1>2, ReadsSound
  <1> QED BY <1>3 DEF Raw

LEMMA StatusPollSound == ASSUME NEW p \in Seq(Byte) PROVE Sound(StatusPoll(p))
  <1>1. Reads(<<Flag(1, 3)>>, 0, 2, 1)
    BY DEF Reads, Within, Apart, Flag, Field, FieldSet, Kinds, Checked, Overlap
  <1> QED BY <1>1, LayoutSound DEF StatusPoll, SoundWith

LEMMA AvrStatusSound ==
  ASSUME NEW p \in Seq(Byte)
  PROVE  Sound(AvrStatus(p)) /\ (Len(p) >= 25 => Len(AvrStatus(p).val) = 8)
  <1> DEFINE fields == <<U8(0), U8(1), U8(2), U8(5), I24(8), F40(10), F40(15), F40(20)>>
  <1>1. Within(fields, 0, 25, 8)
    BY DEF Within, U8, I24, F40, Field, FieldSet, Kinds, Checked
  <1>2. \A i, j \in 1..8 : i < j /\ Overlap(fields[i], fields[j]) => fields[i] = I24(8) /\ fields[j] = F40(10)
    BY DEF Within, U8, I24, F40, Field, Overlap
  <1> HIDE DEF fields
  <1>3. CASE Len(p) < 25
    BY <1>3, RefusedSound DEF AvrStatus, Decoded, fields
  <1>4. CASE Len(p) >= 25
    <2>1. Within(fields, 0, Len(p), 8)
      BY <1>1, <1>4, WithinMore
    <2>2. AllRead(Decoded("AvrStatus", 25, fields, p), "AvrStatus", fields, p, 8)
      BY <1>4, <2>1, DecodedIs
    <2>3. AllRead(AvrStatus(p), "AvrStatus", fields, p, 8)
      BY <2>2 DEF AvrStatus, fields
    <2>4. DOMAIN fields = 1..8
      BY <2>1 DEF Within
    <2> QED BY <1>2, <2>3, <2>4 DEF Sound, Once, AllRead
  <1> QED BY <1>3, <1>4

LEMMA DspStatus80Layout ==
  Reads(<<U8(1), I16(4), I16(8), I16(18), I16(40), I16(53), I16(57), I16(61), NonZero(63)>>, 0, 64, 9)
  BY DEF Reads, Within, Apart, U8, I16, NonZero, Field, FieldSet, Kinds, Checked, Overlap

LEMMA DspStatusSound ==
  ASSUME NEW p \in Seq(Byte)
  PROVE  Sound(DspStatus(p)) /\ (Len(p) >= 64 /\ ByteAt(p, 0) = 128 => Len(DspStatus(p).val) = 9)
  <1>1. Sound(DspStatus80(p)) /\ (Len(p) >= 64 => Len(DspStatus80(p).val) = 9)
    <2>1. SoundWith(DspStatus80(p), p, 64, 9)
      BY DspStatus80Layout, LayoutSound DEF DspStatus80
    <2> QED BY <2>1 DEF SoundWith
  <1>2. Len(p) >= 2 => Sound(Decoded("DspStatus46", 0, <<U8(1), U8(0), Slice(0, Len(p))>>, p))
    <2> SUFFICES ASSUME Len(p) >= 2 PROVE Sound(Decoded("DspStatus46", 0, <<U8(1), U8(0), Slice(0, Len(p))>>, p))
      OBVIOUS
    <2> DEFINE fields == <<U8(1), U8(0), Slice(0, Len(p))>>
    <2>1. Within(fields, 0, Len(p), 3)
      BY DEF Within, U8, Slice, Field, FieldSet, Kinds, Checked
    <2> HIDE DEF fields
    <2>2. AllRead(Decoded("DspStatus46", 0, fields, p), "DspStatus46", fields, p, 3)
      BY <2>1, DecodedIs
    <2>3. Sound(Decoded("DspStatus46", 0, fields, p))
      BY <2>2 DEF Sound, Once, AllRead
    <2> QED BY <2>3 DEF fields
  <1> QED BY <1>1, <1>2, RefusedSound DEF DspStatus

LEMMA StatusSound ==
  ASSUME NEW src \in {"Avr", "Dsp", "Pi", "App"}, NEW p \in Seq(Byte)
  PROVE  Sound(Status(src, p))
  BY AvrStatusSound, DspStatusSound, RawSound DEF Status

LEMMA AckSound ==
  ASSUME NEW p \in Seq(Byte)
  PROVE  Sound(ConfigAck("ConfigAck", p)) /\ Sound(ConfigAck("ConfigNack", p)) /\ Sound(ModeAck(p))
  <1>1. Reads(<<U8(1), U8(2)>>, 0, 3, 2) /\ Reads(<<>>, 0, 3, 0)
    BY DEF Reads, Within, Apart, U8, Field, FieldSet, Kinds, Checked, Overlap
  <1> QED BY <1>1, LayoutSound DEF ConfigAck, ModeAck, SoundWith

LEMMA CamConfigLayout ==
  Reads(<<NonZero(1), I16(2), I16(4), I16(6), I16(8), U8(10), U8(11), U8(12), I16(13), I16(15),
          U8(17), NonZero(18), F40(19), I16(24), I16(26), I16(28), I16(30), I16(32), NonZero(34),
          I16(35), I16(37), I16(39), I16(41), F40(43), I16(48), I16(50)>>, 0, 52, 26)
  BY DEF Reads, Within, Apart, U8, I16, F40, NonZero, Field, FieldSet, Kinds, Checked, Overlap
LEMMA CamConfigSound ==
  ASSUME NEW p \in Seq(Byte)
  PROVE SoundWith(CamConfig(p), p, 52, 26)
  BY CamConfigLayout, LayoutSound DEF CamConfig

\* A text without control characters at its ends lies in the payload.
LEMMA StrippedSound ==
  ASSUME NEW msg, msg # "panic", NEW p \in Seq(Byte)
  PROVE  Sound(Stripped(msg, p))
  <1> DEFINE I == {i \in 1..Len(p) : Printable(p[i])}
             end == IF I # {} THEN Max(I) ELSE 0
             q == SubSeq(p, 1, end)
             J == {i \in 1..Len(q) : Printable(q[i])}
             first == IF J # {} THEN Min(J) ELSE 0
             start == IF first = 0 THEN 0 ELSE first - 1
  <1>1. Stripped(msg, p) = IF start > end THEN Panic ELSE Decoded(msg, 0, <<Slice(start, end - start)>>, p)
    BY DEF Stripped, SelectInSeq, SelectLastInSeq
  <1>2. end \in 0..Len(p)
    <2>1. I # {} => Max(I) \in I
      <3>1. I \in SUBSET (0..Len(p)) /\ Len(p) \in Nat OBVIOUS
      <3> HIDE DEF I
      <3> QED BY <3>1, MaxIs
    <2> QED BY <2>1
  <1> HIDE DEF end
  <1>3. Len(q) = end
    BY <1>2, SubSeqProperties
  <1>4. first \in 0..end
    <2>1. J # {} => Min(J) \in J
      <3>1. J \in SUBSET Nat BY <1>2, <1>3
      <3> HIDE DEF J
      <3> QED BY <3>1, MinIs
    <2>2. J \subseteq 1..end BY <1>3
    <2>3. end \in Nat BY <1>2
    <2> HIDE DEF J
    <2>4. CASE J = {} BY <2>3, <2>4
    <2>5. CASE J # {}
      <3>1. Min(J) \in 1..end BY <2>1, <2>2, <2>5
      <3> QED BY <2>3, <2>5, <3>1
    <2> QED BY <2>4, <2>5
  <1> HIDE DEF first
  <1>5. start \in Nat /\ end \in Nat /\ start <= end /\ end <= Len(p) /\ end - start \in Nat
    BY <1>2, <1>4
  <1> HIDE DEF start
  <1>6. Sound(Decoded(msg, 0, <<Slice(start, end - start)>>, p))
    <2>1. PICK f : f = Slice(start, end - start) OBVIOUS
    <2>2. f \in FieldSet /\ f.at = start /\ f.at + f.width = end
      BY <1>5, <2>1 DEF Slice, Field, FieldSet, Kinds
    <2>3. Reads(<<f>>, start, end, 1)
      BY <2>2, OneRead
    <2>4. Reads(<<f>>, 0, Len(p), 1)
      BY <1>5, <2>3, ReadsMore
    <2> QED BY <2>1, <2>4, ReadsSound
  <1>7. ~(start > end) BY <1>5
  <1> QED BY <1>1, <1>6, <1>7

LEMMA CstrLen ==
  ASSUME NEW p \in Seq(Byte)
  PROVE  Len(Cstr(p)) \in 0..Len(p)
  <1> DEFINE J == {i \in 1..Len(p) : Null(p[i])}
             end == IF J # {} THEN Min(J) ELSE 0
  <1>1. Cstr(p) = IF end = 0 THEN p ELSE SubSeq(p, 1, end - 1)
    BY DEF Cstr, SelectInSeq
  <1>2. end \in 0..Len(p)
    <2>1. J # {} => Min(J) \in J
      <3>1. J \in SUBSET Nat OBVIOUS
      <3> HIDE DEF J
      <3> QED BY <3>1, MinIs
    <2> QED BY <2>1
  <1> HIDE DEF end
  <1>3. end # 0 => Len(SubSeq(p, 1, end - 1)) = end - 1
    BY <1>2, SubSeqProperties
  <1> QED BY <1>1, <1>2, <1>3

LEMMA FittingRead ==
  ASSUME NEW record, NEW from \in Nat, NEW stride \in Nat, stride # 0, NEW k \in Nat, k # 0,
         Reads(record, 0, stride, k), NEW n \in Nat, NEW p \in Seq(Byte)
  PROVE  /\ Fitting(n, from, stride, p) \in Nat
         /\ Reads(Records(record, from, stride, Fitting(n, from, stride, p)), from, Len(p),
                  Fitting(n, from, stride, p) * k)
  <1>1. PICK m \in Nat : /\ m = Fitting(n, from, stride, p)
                         /\ m # 0 => from + (stride * m) <= Len(p)
    BY FittingFits
  <1>2. Reads(Records(record, from, stride, m), from, from + (stride * m), m * k)
    BY RecordsRead
  <1>3. Reads(Records(record, from, stride, m), from, Len(p), m * k)
    <2>1. Len(p) \in Nat /\ m * k \in Nat /\ from + (stride * m) \in Nat OBVIOUS
    <2>2. CASE m = 0
      <3>1. m * k = 0 BY <2>2
      <3>2. \A i \in 1..(m * k) : FALSE BY <3>1
      <3> QED BY <1>2, <3>2 DEF Reads, Within
    <2>3. CASE m # 0
      BY <1>1, <1>2, <2>1, <2>3, ReadsMore
    <2> QED BY <2>2, <2>3
  <1> QED BY <1>1, <1>3

\* config.rs

LEMMA ModeSetSound ==
  ASSUME NEW p \in Seq(Byte)
  PROVE  Sound(ModeSet(p)) /\ Sound(AvrConfigCmd(p)) /\ Sound(ParamReadReq(p))
  <1>1. Reads(<<U8(2)>>, 0, 3, 1) /\ Reads(<<Flag(1, 1)>>, 0, 2, 1) /\ Reads(<<U8(3)>>, 0, 4, 1)
    BY DEF Reads, Within, Apart, U8, Flag, Field, FieldSet, Kinds, Checked, Overlap
  <1> QED BY <1>1, LayoutSound DEF ModeSet, AvrConfigCmd, ParamReadReq, SoundWith

LEMMA ParamValueSound == ASSUME NEW p \in Seq(Byte) PROVE Sound(ParamValue(p))
  <1>1. Reads(<<U8(3), I24(4)>>, 0, 7, 2) /\ Reads(<<U8(3), F40(4)>>, 0, 9, 2)
    BY DEF Reads, Within, Apart, U8, I24, F40, Field, FieldSet, Kinds, Checked, Overlap
  <1>2. Sound(Decoded("ParamValue(INT24)", 7, <<U8(3), I24(4)>>, p))
    BY <1>1, LayoutSound DEF SoundWith
  <1>3. Sound(Decoded("ParamValue(FLOAT40)", 9, <<U8(3), F40(4)>>, p))
    BY <1>1, LayoutSound DEF SoundWith
  <1> QED BY <1>2, <1>3, RefusedSound DEF ParamValue

LEMMA RadarCalSound == ASSUME NEW p \in Seq(Byte) PROVE Sound(RadarCal(p))
  <1>1. Reads(<<U16(1), U8(4)>>, 0, 7, 2)
    BY DEF Reads, Within, Apart, U8, U16, Field, FieldSet, Kinds, Checked, Overlap
  <1> QED BY <1>1, LayoutSound DEF RadarCal, SoundWith

LEMMA ConfigRespSound == ASSUME NEW p \in Seq(Byte) PROVE SoundWith(ConfigResp(p), p, 69, 34)
  <1>1. Reads(I16s(1, 34), 1, 69, 34)
    BY I16sRead
  <1>2. Reads(I16s(1, 34), 0, 69, 34)
    BY <1>1, ReadsMore
  <1> QED BY <1>2, LayoutSound DEF ConfigResp

\* handshake.rs

SlotsRead(o, end, n, p) == Sound(o) /\ (end <= Len(p) => Len(o.val) = n)
LEMMA SlotsSound ==
  ASSUME NEW msg, msg # "panic", NEW from \in Nat, NEW n \in Nat, NEW p \in Seq(Byte),
         NEW end \in Nat, end = from + (16 * n)
  PROVE  SlotsRead(SlotsIn(msg, from, n, p), end, n, p)
  <1>1. Reads(<<Slice(0, 16)>>, 0, 16, 1)
    BY DEF Reads, Within, Apart, Slice, Field, FieldSet, Kinds, Overlap
  <1>2. PICK m \in Nat : /\ m = Fitting(n, from, 16, p)
                         /\ Reads(Records(<<Slice(0, 16)>>, from, 16, m), from, Len(p), m)
    <2>1. PICK m : m = Fitting(n, from, 16, p) OBVIOUS
    <2>2. m \in Nat /\ Reads(Records(<<Slice(0, 16)>>, from, 16, m), from, Len(p), m * 1)
      BY <1>1, <2>1, FittingRead
    <2>3. m * 1 = m BY <2>2
    <2> QED BY <2>1, <2>2, <2>3
  <1>3. PICK fields : fields = Records(<<Slice(0, 16)>>, from, 16, m)
    OBVIOUS
  <1>4. Reads(fields, 0, Len(p), m)
    BY <1>2, <1>3, ReadsMore
  <1>5. SlotsIn(msg, from, n, p) = Decoded(msg, 0, fields, p)
    BY <1>2, <1>3 DEF SlotsIn
  <1>6. Sound(SlotsIn(msg, from, n, p))
    BY <1>4, <1>5, ReadsSound
  <1>7. Len(SlotsIn(msg, from, n, p).val) = m
    <2>1. AllRead(Decoded(msg, 0, fields, p), msg, fields, p, m)
      BY <1>4, DecodedIs DEF Reads
    <2> QED BY <1>5, <2>1 DEF AllRead
  <1>8. from + (16 * n) <= Len(p) => m = n
    BY <1>2, FittingFits
  <1> QED BY <1>6, <1>7, <1>8 DEF SlotsRead

LEMMA DevInfoSound ==
  ASSUME NEW p \in Seq(Byte)
  PROVE  /\ Sound(DevInfoResp(p))
         /\ Len(p) \in {75, 76} => Len(DevInfoResp(p).val) = 3
  <1>1. Len(p) >= 76 => SlotsRead(DevInfoResp(p), 76, 3, p)
    BY SlotsSound DEF DevInfoResp
  <1>2. ~(Len(p) >= 76) => SlotsRead(DevInfoResp(p), 75, 3, p)
    BY SlotsSound DEF DevInfoResp
  <1>3. Sound(DevInfoResp(p))
    BY <1>1, <1>2 DEF SlotsRead
  <1>4. Len(p) \in {75, 76} => Len(DevInfoResp(p).val) = 3
    <2>1. CASE Len(p) = 75 BY <1>2, <2>1 DEF SlotsRead
    <2>2. CASE Len(p) = 76 BY <1>1, <2>2 DEF SlotsRead
    <2> QED BY <2>1, <2>2
  <1> QED BY <1>3, <1>4

LEMMA NetConfigSound ==
  ASSUME NEW p \in Seq(Byte)
  PROVE  /\ Sound(NetConfigResp(p))
         /\ Len(p) = 54 => Len(NetConfigResp(p).val) = 2
  <1>1. SlotsRead(NetConfigResp(p), 53, 2, p)
    BY SlotsSound DEF NetConfigResp
  <1>2. Sound(NetConfigResp(p))
    BY <1>1 DEF SlotsRead
  <1>3. Len(p) = 54 => Len(NetConfigResp(p).val) = 2
    BY <1>1 DEF SlotsRead
  <1> QED BY <1>2, <1>3

LEMMA HandshakeSound ==
  ASSUME NEW p \in Seq(Byte)
  PROVE  Sound(DspQueryResp(p)) /\ Sound(ProdInfoReq(p)) /\ Sound(NetConfigReq(p)) /\ Sound(TimeSync(p))
  <1>1. /\ Reads(<<U8(0), U8(1), U8(2)>>, 0, 3, 3) /\ Reads(<<U8(1)>>, 0, 2, 1) /\ Reads(<<Flag(1, 8)>>, 0, 2, 1)
        /\ Reads(<<U32(2), U8(6), U8(7), U8(8)>>, 0, 9, 4)
    BY DEF Reads, Within, Apart, U8, Flag, U32, Field, FieldSet, Kinds, Checked, Overlap
  <1> QED BY <1>1, LayoutSound DEF DspQueryResp, ProdInfoReq, NetConfigReq, TimeSync, SoundWith

LEMMA ProdInfoSound == ASSUME NEW p \in Seq(Byte) PROVE Sound(ProdInfoResp(p))
  <1>1. PICK n \in Nat : n = Len(Cstr(p)) /\ n <= Len(p)
    BY CstrLen
  <1>2. Reads(<<Slice(0, n)>>, 0, Len(p), 1)
    BY <1>1 DEF Reads, Within, Apart, Slice, Field, FieldSet, Kinds, Overlap
  <1> QED BY <1>1, <1>2, ReadsSound DEF ProdInfoResp

LEMMA CalDataReqSound == ASSUME NEW p \in Seq(Byte) PROVE Sound(CalDataReq(p))
  <1> DEFINE fields == <<U8(3), Slice(0, Len(p))>>
  <1>1. Len(p) >= 4 => Within(fields, 0, Len(p), 2)
    BY DEF Within, U8, Slice, Field, FieldSet, Kinds, Checked
  <1>2. CalDataReq(p) = Decoded("CalDataReq", 4, fields, p)
    BY DEF CalDataReq
  <1> HIDE DEF fields
  <1>3. CASE Len(p) < 4
    BY <1>2, <1>3, RefusedSound DEF Decoded
  <1>4. CASE Len(p) >= 4
    <2>1. AllRead(Decoded("CalDataReq", 4, fields, p), "CalDataReq", fields, p, 2)
      BY <1>1, <1>4, DecodedIs
    <2> QED BY <1>2, <2>1 DEF AllRead, Sound, Once
  <1> QED BY <1>3, <1>4

\* camera.rs

LEMMA CamStateSound == ASSUME NEW p \in Seq(Byte) PROVE Sound(CamState(p))
  <1>1. Reads(<<U8(1)>>, 0, 2, 1)
    BY DEF Reads, Within, Apart, U8, Field, FieldSet, Kinds, Checked, Overlap
  <1> QED BY <1>1, LayoutSound DEF CamState, SoundWith

LEMMA StubSound ==
  ASSUME NEW msg, msg # "panic", NEW p \in Seq(Byte)
  PROVE  Sound(Decoded(msg, 0, IF Len(p) > 1 THEN <<U8(1)>> ELSE <<>>, p))
  <1>1. PICK n \in Nat : n = IF Len(p) > 1 THEN 1 ELSE 0
    OBVIOUS
  <1>2. Reads(IF Len(p) > 1 THEN <<U8(1)>> ELSE <<>>, 0, Len(p), n)
    <2>1. Len(p) > 1 => Reads(<<U8(1)>>, 0, Len(p), 1)
      BY DEF Reads, Within, Apart, U8, Field, FieldSet, Kinds, Checked, Overlap
    <2>2. Reads(<<>>, 0, Len(p), 0)
      BY DEF Reads, Within, Apart
    <2>3. CASE Len(p) > 1 BY <1>1, <2>1, <2>3
    <2>4. CASE ~(Len(p) > 1) BY <1>1, <2>2, <2>4
    <2> QED BY <2>3, <2>4
  <1> QED BY <1>2, ReadsSound

LEMMA CamImageAvailSound == ASSUME NEW p \in Seq(Byte) PROVE Sound(CamImageAvail(p))
  <1>1. Reads(<<U8(1), U8(2), Slice(3, 32), Slice(35, 32)>>, 0, 67, 4)
    BY DEF Reads, Within, Apart, U8, Slice, Field, FieldSet, Kinds, Checked, Overlap
  <1>2. Sound(Decoded("CamImageAvail", 67, <<U8(1), U8(2), Slice(3, 32), Slice(35, 32)>>, p))
    BY <1>1, LayoutSound DEF SoundWith
  <1>3. Sound(Decoded("CamImageAvail", 0, IF Len(p) > 1 THEN <<U8(1)>> ELSE <<>>, p))
    BY StubSound
  <1> QED BY <1>2, <1>3, RefusedSound DEF CamImageAvail

\* shot.rs

LEMMA FlightResultSound == ASSUME NEW p \in Seq(Byte) PROVE SoundWith(FlightResult(p), p, 157, 52)
  <1>1. Reads(<<I24(109)>>, 109, 112, 1)
    BY DEF Reads, Within, Apart, I24, Field, FieldSet, Kinds, Checked, Overlap
  <1>2. Reads(I24s(112, 15), 112, 157, 15)
    BY I24sRead
  <1>3. Reads(I24s(1, 36), 1, 109, 36)
    BY I24sRead
  <1>4. Reads(<<I24(109)>> \o I24s(112, 15), 109, 157, 16)
    BY <1>1, <1>2, ThenRead
  <1>5. Reads(<<I24(109)>> \o I24s(112, 15) \o I24s(1, 36), 1, 157, 52)
    BY <1>3, <1>4, BeforeRead
  <1>6. Reads(<<I24(109)>> \o I24s(112, 15) \o I24s(1, 36), 0, 157, 52)
    BY <1>5, ReadsMore
  <1> QED BY <1>6, LayoutSound DEF FlightResult

LEMMA FlightResultV1Sound == ASSUME NEW p \in Seq(Byte) PROVE SoundWith(FlightResultV1(p), p, 94, 31)
  <1>1. Reads(<<I24(46)>>, 46, 49, 1)
    BY DEF Reads, Within, Apart, I24, Field, FieldSet, Kinds, Checked, Overlap
  <1>2. Reads(I24s(49, 15), 49, 94, 15)
    BY I24sRead
  <1>3. Reads(I24s(1, 15), 1, 46, 15)
    BY I24sRead
  <1>4. Reads(<<I24(46)>> \o I24s(49, 15), 46, 94, 16)
    BY <1>1, <1>2, ThenRead
  <1>5. Reads(<<I24(46)>> \o I24s(49, 15) \o I24s(1, 15), 1, 94, 31)
    BY <1>3, <1>4, BeforeRead
  <1>6. Reads(<<I24(46)>> \o I24s(49, 15) \o I24s(1, 15), 0, 94, 31)
    BY <1>5, ReadsMore
  <1> QED BY <1>6, LayoutSound DEF FlightResultV1

LEMMA Regrouped ==
  ASSUME NEW s \in Seq(FieldSet), NEW t \in Seq(FieldSet), NEW u \in Seq(FieldSet)
  PROVE  (s \o t) \o u = s \o (t \o u)
  BY ConcatAssociative

LEMMA ClubResultSound == ASSUME NEW p \in Seq(Byte) PROVE SoundWith(ClubResult(p), p, 167, 56)
  <1> DEFINE a == <<I24(47)>>
             b == I24s(50, 36)
             c == <<U8(1)>>
             d == I24s(2, 15)
             e == I24s(158, 3)
  <1>1. Reads(a, 47, 50, 1) /\ Reads(c, 1, 2, 1)
    BY DEF Reads, Within, Apart, I24, U8, Field, FieldSet, Kinds, Checked, Overlap
  <1>2. Reads(b, 50, 158, 36)
    BY I24sRead
  <1>3. Reads(d, 2, 47, 15)
    BY I24sRead
  <1>4. Reads(e, 158, 167, 3)
    BY I24sRead
  <1>5. ClubResult(p) = Decoded("ClubResult", 167, a \o b \o c \o d \o e, p)
    BY DEF ClubResult
  <1> HIDE DEF a, b, c, d, e
  <1>6. Reads(a \o b, 47, 158, 37)
    BY <1>1, <1>2, ThenRead
  <1>7. Reads(c \o d, 1, 47, 16)
    BY <1>1, <1>3, ThenRead
  <1>8. Reads((a \o b) \o (c \o d), 1, 158, 53)
    <2> DEFINE ab == a \o b
               cd == c \o d
    <2> HIDE DEF ab, cd
    <2>1. Reads(ab \o cd, 1, 158, 53)
      BY <1>6, <1>7, BeforeRead DEF ab, cd
    <2> QED BY <2>1 DEF ab, cd
  <1>9. (a \o b) \o (c \o d) = a \o b \o c \o d
    <2>1. (a \o b) \in Seq(FieldSet) /\ c \in Seq(FieldSet) /\ d \in Seq(FieldSet)
      BY <1>1, <1>3, <1>6 DEF Reads, Within
    <2>2. PICK ab \in Seq(FieldSet) : ab = a \o b
      BY <2>1
    <2>3. (ab \o c) \o d = ab \o (c \o d)
      BY <2>1, ConcatAssociative
    <2> QED BY <2>2, <2>3
  <1>10. Reads(a \o b \o c \o d \o e, 1, 167, 56)
    <2> DEFINE abcd == a \o b \o c \o d
    <2>1. Reads(abcd, 1, 158, 53)
      BY <1>8, <1>9
    <2> HIDE DEF abcd
    <2>2. Reads(abcd \o e, 1, 167, 56)
      BY <1>4, <2>1, ThenRead
    <2> QED BY <2>2 DEF abcd
  <1>11. Reads(a \o b \o c \o d \o e, 0, 167, 56)
    BY <1>10, ReadsMore
  <1> QED BY <1>5, <1>11, LayoutSound

LEMMA SpinResultSound == ASSUME NEW p \in Seq(Byte) PROVE SoundWith(SpinResult(p), p, 138, 62)
  <1> DEFINE a == <<U8(0)>>
             b == Records(AntennaElement, 1, 7, 15)
             c == I16s(106, 8)
             d == <<U8(122), I24(123)>>
             e == I16s(126, 6)
  <1>1. Reads(a, 0, 1, 1) /\ Reads(d, 122, 126, 2)
    BY DEF Reads, Within, Apart, I24, U8, Field, FieldSet, Kinds, Checked, Overlap
  <1>2. Reads(AntennaElement, 0, 7, 3)
    BY DEF AntennaElement, Reads, Within, Apart, I24, I16, Field, FieldSet, Kinds, Checked, Overlap
  <1>3. Reads(b, 1, 106, 45)
    <2>1. 106 = 1 + (7 * 15) /\ 45 = 15 * 3
      OBVIOUS
    <2>2. Reads(Records(AntennaElement, 1, 7, 15), 1, 1 + (7 * 15), 15 * 3)
      <3>1. 1 \in Nat /\ 7 \in Nat /\ 15 \in Nat /\ 3 \in Nat /\ 3 # 0
        OBVIOUS
      <3> QED BY <1>2, <3>1, RecordsRead, Zenon
    <2> QED BY <2>1, <2>2
  <1>4. Reads(c, 106, 122, 8)
    BY I16sRead
  <1>5. Reads(e, 126, 138, 6)
    BY I16sRead
  <1>6. SpinResult(p) = Decoded("SpinResult", 138, a \o b \o c \o d \o e, p)
    BY DEF SpinResult
  <1> HIDE DEF a, b, c, d, e
  <1>7. Reads(a \o b, 0, 106, 46)
    BY <1>1, <1>3, ThenRead
  <1>8. Reads(a \o b \o c, 0, 122, 54)
    BY <1>4, <1>7, ThenRead
  <1>9. Reads(a \o b \o c \o d, 0, 126, 56)
    BY <1>1, <1>8, ThenRead
  <1>10. Reads(a \o b \o c \o d \o e, 0, 138, 62)
    BY <1>5, <1>9, ThenRead
  <1> QED BY <1>6, <1>10, LayoutSound

LEMMA SpeedProfileSound ==
  ASSUME NEW p \in Seq(Byte)
  PROVE  /\ Sound(SpeedProfile(p))
         /\ Len(p) = 172 => Len(SpeedProfile(p).val) = 85
  <1>1. CASE Len(p) < 12
    <2>1. Sound(Decoded("SpeedProfile", 0, IF Len(p) > 1 THEN <<U8(1)>> ELSE <<>>, p))
      BY StubSound
    <2>2. Sound(SpeedProfile(p))
      BY <1>1, <2>1 DEF SpeedProfile
    <2>3. Len(p) # 172
      <3>1. PICK l \in Nat : l = Len(p) OBVIOUS
      <3>2. l < 12 BY <1>1, <3>1
      <3>3. l # 172 BY <3>2
      <3> QED BY <3>1, <3>3
    <2> QED BY <2>2, <2>3
  <1>2. CASE ~(Len(p) < 12)
    <2> DEFINE a == <<U8(1), U8(2), U8(3), I24(4), F40(7)>>
    <2>1. PICK l \in Nat : l = Len(p)
      OBVIOUS
    <2>2. PICK n \in Nat : n = (l - 12) \div 2
      BY <1>2, <2>1
    <2>3. PICK end \in Nat : end = 12 + (2 * n)
      OBVIOUS
    <2>4. end <= l /\ (l = 172 => n = 80)
      <3>1. PICK rest \in Nat : rest = l - 12
        BY <1>2, <2>1
      <3>2. n = rest \div 2
        BY <2>2, <3>1
      <3>3. 2 * n <= rest /\ rest <= (2 * n) + 1
        BY <3>2
      <3> QED BY <2>3, <3>1, <3>3
    <2>5. Reads(a, 0, 12, 5)
      BY DEF Reads, Within, Apart, I24, U8, F40, Field, FieldSet, Kinds, Checked, Overlap
    <2>6. SpeedProfile(p) = Decoded("SpeedProfile", 12, a \o I16s(12, n), p)
      BY <1>2, <2>1, <2>2 DEF SpeedProfile
    <2> HIDE DEF a
    <2>7. Reads(I16s(12, n), 12, end, n)
      BY <2>3, I16sRead
    <2>8. PICK m \in Nat : m = 5 + n
      OBVIOUS
    <2>9. Reads(a \o I16s(12, n), 0, end, m)
      BY <2>3, <2>5, <2>7, <2>8, ThenRead
    <2>10. PICK fields : fields = a \o I16s(12, n)
      OBVIOUS
    <2>11. Reads(fields, 0, Len(p), m)
      BY <2>1, <2>4, <2>9, <2>10, ReadsMore
    <2>12. Sound(SpeedProfile(p))
      BY <2>6, <2>10, <2>11, ReadsSound
    <2>13. AllRead(SpeedProfile(p), "SpeedProfile", fields, p, m)
      <3>1. Within(fields, 0, Len(p), m) BY <2>11 DEF Reads
      <3> QED BY <1>2, <2>6, <2>10, <3>1, DecodedIs
    <2>14. Len(p) = 172 => m = 85
      BY <2>1, <2>4, <2>8
    <2> QED BY <2>12, <2>13, <2>14 DEF AllRead
  <1> QED BY <1>1, <1>2

LEMMA TrackingStatusLayout ==
  Reads(<<U8(1), U8(2), U24(22), U24(25), U24(28), U24(32), U24(35), U16(38), U8(47), U8(48),
          U8(51), U8(54), U16(56), U8(59), U16(62), I24(67), I24(70), I24(73), I24(76), U16(80)>>, 0, 82, 20)
  BY DEF Reads, Within, Apart, U8, U16, U24, I24, Field, FieldSet, Kinds, Checked, Overlap

LEMMA TrackingStatusSound == ASSUME NEW p \in Seq(Byte) PROVE SoundWith(TrackingStatus(p), p, 82, 20)
  BY TrackingStatusLayout, LayoutSound DEF TrackingStatus

LEMMA PrcPointRead == Reads(PrcPoint, 0, 60, 24)
  <1> DEFINE a == I24s(42, 6)
             b == <<I16(0), I16(2), I24(4), I16(7), U8(9), I24(10), I24(13), I16(16), I16(18), I24(20),
                    I24(23), I24(26), I24(29)>>
             c == I16s(32, 5)
  <1>1. Reads(a, 42, 60, 6)
    BY I24sRead
  <1>2. Reads(b, 0, 32, 13)
    BY DEF Reads, Within, Apart, U8, I16, I24, Field, FieldSet, Kinds, Checked, Overlap
  <1>3. Reads(c, 32, 42, 5)
    BY I16sRead
  <1>4. PrcPoint = a \o b \o c
    BY DEF PrcPoint
  <1> HIDE DEF a, b, c
  <1>5. PICK bc : bc = b \o c
    OBVIOUS
  <1>6. Reads(bc, 0, 42, 18)
    BY <1>2, <1>3, <1>5, ThenRead
  <1>7. Reads(a \o bc, 0, 60, 24)
    BY <1>1, <1>6, BeforeRead
  <1>8. a \o b \o c = a \o bc
    BY <1>1, <1>2, <1>3, <1>5, Regrouped DEF Reads, Within
  <1> QED BY <1>4, <1>7, <1>8

LEMMA BytesAreNat == \A b \in Byte : b \in Nat
  BY DEF Byte

LEMMA RegroupedAs ==
  ASSUME NEW s \in Seq(FieldSet), NEW t \in Seq(FieldSet), NEW u \in Seq(FieldSet), NEW tu, tu = t \o u
  PROVE  (s \o t) \o u = s \o tu
  BY Regrouped

LEMMA ClubPrcPointRead == Reads(ClubPrcPoint, 0, 76, 29)
  <1> DEFINE a == I24s(58, 6)
             b == <<I16(0), I16(2), I16(4), I24(6), I16(9), I24(11), I24(14), I16(17), I16(19)>>
             c == I24s(21, 5)
             d == <<U8(38), I24(39), I24(42), I24(45)>>
             e == I16s(48, 5)
  <1>1. Reads(a, 58, 76, 6)
    BY I24sRead
  <1>2. Reads(b, 0, 21, 9)
    BY DEF Reads, Within, Apart, I16, I24, Field, FieldSet, Kinds, Checked, Overlap
  <1>3. Reads(c, 21, 36, 5)
    BY I24sRead
  <1>4. Reads(d, 38, 48, 4)
    BY DEF Reads, Within, Apart, U8, I24, Field, FieldSet, Kinds, Checked, Overlap
  <1>5. Reads(e, 48, 58, 5)
    BY I16sRead
  <1>6. ClubPrcPoint = a \o b \o c \o d \o e
    BY DEF ClubPrcPoint
  <1> HIDE DEF a, b, c, d, e
  <1>7. PICK bc : bc = b \o c
    OBVIOUS
  <1>8. Reads(bc, 0, 36, 14)
    BY <1>2, <1>3, <1>7, ThenRead
  <1>9. PICK bcd : bcd = bc \o d
    OBVIOUS
  <1>10. Reads(bcd, 0, 48, 18)
    BY <1>4, <1>8, <1>9, ThenRead
  <1>11. PICK bcde : bcde = bcd \o e
    OBVIOUS
  <1>12. Reads(bcde, 0, 58, 23)
    BY <1>5, <1>10, <1>11, ThenRead
  <1>13. Reads(a \o bcde, 0, 76, 29)
    BY <1>1, <1>12, BeforeRead
  <1>14. a \o b \o c \o d \o e = a \o bcde
    <2>1. /\ a \in Seq(FieldSet) /\ b \in Seq(FieldSet) /\ c \in Seq(FieldSet) /\ d \in Seq(FieldSet)
          /\ e \in Seq(FieldSet) /\ bc \in Seq(FieldSet) /\ bcd \in Seq(FieldSet)
      BY <1>1, <1>2, <1>3, <1>4, <1>5, <1>8, <1>10 DEF Reads, Within
    <2>2. a \o b \o c = a \o bc
      BY <1>7, <2>1, RegroupedAs
    <2>3. (a \o bc) \o d = a \o bcd
      BY <1>9, <2>1, RegroupedAs
    <2>4. (a \o bcd) \o e = a \o bcde
      BY <1>11, <2>1, RegroupedAs
    <2>5. (a \o b \o c) \o d = a \o bcd
      BY <2>2, <2>3, Zenon
    <2> QED BY <2>4, <2>5, Zenon
  <1> QED BY <1>6, <1>13, <1>14

LEMMA PrcDataSound ==
  ASSUME NEW p \in Seq(Byte)
  PROVE  /\ Sound(PrcData(p))
         /\ \A points \in Nat : Len(p) >= 4 /\ ByteAt(p, 3) = points /\ Len(p) = 4 + (60 * points)
                                  /\ ByteAt(p, 0) = 3 + (60 * points) => Len(PrcData(p).val) = 3 + (24 * points)
  <1>1. CASE Len(p) < 4
    <2>1. PrcData(p) = Refused
      BY <1>1 DEF PrcData
    <2>2. ~(Len(p) >= 4)
      BY <1>1
    <2> QED BY <2>1, <2>2, RefusedSound
  <1>2. CASE ~(Len(p) < 4)
    <2> DEFINE header == ByteAt(p, 0)
               batch == header >= 3 /\ (header - 3) % 60 = 0
               points == IF batch THEN Records(PrcPoint, 4, 60, Fitting(ByteAt(p, 3), 4, 60, p)) ELSE <<>>
               a == <<U8(0), I16(1), U8(3)>>
    <2>1. PICK l \in Nat : l = Len(p) /\ l >= 4
      BY <1>2
    <2>2. header \in Nat /\ ByteAt(p, 3) \in Nat
      <3>1. 1 \in 1..Len(p) /\ 4 \in 1..Len(p) BY <2>1
      <3>2. p[1] \in Byte /\ p[4] \in Byte BY <3>1, ElementOfSeq
      <3>3. p[1] \in Nat /\ p[4] \in Nat BY <3>2, BytesAreNat
      <3> QED BY <3>3 DEF ByteAt
    <2>3. PrcData(p) = Decoded("PrcData", 4, a \o points, p)
      BY <1>2 DEF PrcData
    <2>4. PICK n \in Nat : n = ByteAt(p, 3)
      BY <2>2
    <2>5. PICK fit \in Nat : fit = Fitting(n, 4, 60, p) /\ Reads(Records(PrcPoint, 4, 60, fit), 4, l, fit * 24)
      <3>1. 4 \in Nat /\ 60 \in Nat /\ 60 # 0 /\ 24 \in Nat /\ 24 # 0 OBVIOUS
      <3>2. /\ Fitting(n, 4, 60, p) \in Nat
            /\ Reads(Records(PrcPoint, 4, 60, Fitting(n, 4, 60, p)), 4, Len(p), Fitting(n, 4, 60, p) * 24)
        BY <3>1, PrcPointRead, FittingRead, Zenon
      <3>3. PICK fit : fit = Fitting(n, 4, 60, p) OBVIOUS
      <3>4. fit \in Nat /\ Reads(Records(PrcPoint, 4, 60, fit), 4, Len(p), fit * 24)
        BY <3>2, <3>3, Zenon
      <3> QED BY <2>1, <3>3, <3>4, Zenon
    <2>6. PICK m \in Nat : m = IF batch THEN fit * 24 ELSE 0
      BY <2>5
    <2>7. Reads(points, 4, l, m)
      <3>1. CASE batch
        BY <2>4, <2>5, <2>6, <3>1
      <3>2. CASE ~batch
        BY <2>6, <3>2 DEF Reads, Within, Apart
      <3> QED BY <3>1, <3>2
    <2>8. Reads(a, 0, 4, 3)
      BY DEF Reads, Within, Apart, U8, I16, Field, FieldSet, Kinds, Checked, Overlap
    <2>9. PICK k \in Nat : k = 3 + m
      OBVIOUS
    <2> HIDE DEF points, a
    <2>10. PICK fields : fields = a \o points
      OBVIOUS
    <2>11. Reads(fields, 0, l, k)
      BY <2>1, <2>7, <2>8, <2>9, <2>10, ThenRead
    <2>12. Sound(PrcData(p))
      BY <2>1, <2>3, <2>10, <2>11, ReadsSound
    <2>13. AllRead(PrcData(p), "PrcData", fields, p, k)
      <3>1. Within(fields, 0, Len(p), k) BY <2>1, <2>11 DEF Reads
      <3> QED BY <2>1, <2>3, <2>10, <3>1, DecodedIs
    <2>14. ASSUME NEW q \in Nat, n = q, l = 4 + (60 * q), header = 3 + (60 * q)
           PROVE  k = 3 + (24 * q)
      <3>1. batch
        <4>1. header >= 3 BY <2>2, <2>14
        <4>2. (header - 3) % 60 = 0
          <5>1. header - 3 = 60 * q BY <2>14
          <5>2. (60 * q) % 60 = 0 OBVIOUS
          <5> QED BY <5>1, <5>2
        <4> QED BY <4>1, <4>2
      <3>2. fit = n
        <4>1. 4 + (60 * n) <= Len(p) BY <2>1, <2>14
        <4> QED BY <2>5, <4>1, FittingFits
      <3> QED BY <2>6, <2>9, <2>14, <3>1, <3>2
    <2>15. \A q \in Nat : Len(p) >= 4 /\ ByteAt(p, 3) = q /\ Len(p) = 4 + (60 * q)
                            /\ ByteAt(p, 0) = 3 + (60 * q) => Len(PrcData(p).val) = 3 + (24 * q)
      BY <2>1, <2>4, <2>13, <2>14 DEF AllRead
    <2> QED BY <2>12, <2>15
  <1> QED BY <1>1, <1>2

LEMMA ClubPrcSound ==
  ASSUME NEW p \in Seq(Byte)
  PROVE  /\ Sound(ClubPrc(p))
         /\ \A pages \in Nat : Len(p) >= 1 /\ ByteAt(p, 0) \div 76 = pages /\ Len(p) = 1 + (76 * pages)
                                  => Len(ClubPrc(p).val) = 1 + (29 * pages)
  <1>1. CASE p = <<>>
    <2>1. Reads(<<>>, 0, 0, 0)
      BY DEF Reads, Within, Apart
    <2>2. Sound(ClubPrc(p))
      BY <1>1, <2>1, LayoutSound DEF ClubPrc, SoundWith
    <2>3. ~(Len(p) >= 1)
      BY <1>1
    <2> QED BY <2>2, <2>3
  <1>2. CASE p # <<>>
    <2>1. PICK l \in Nat : l = Len(p) /\ l >= 1
      BY <1>2, EmptySeq
    <2>2. PICK n \in Nat : n = ByteAt(p, 0) \div 76
      <3>1. 1 \in 1..Len(p) BY <2>1
      <3>2. p[1] \in Nat BY <3>1, ElementOfSeq, BytesAreNat
      <3>3. PICK b \in Nat : b = ByteAt(p, 0) BY <3>2 DEF ByteAt
      <3>4. (b \div 76) \in Nat BY <3>3
      <3> QED BY <3>3, <3>4
    <2>3. PICK fit \in Nat : fit = Fitting(n, 1, 76, p) /\ Reads(Records(ClubPrcPoint, 1, 76, fit), 1, l, fit * 29)
      <3>1. 1 \in Nat /\ 76 \in Nat /\ 76 # 0 /\ 29 \in Nat /\ 29 # 0 OBVIOUS
      <3>2. /\ Fitting(n, 1, 76, p) \in Nat
            /\ Reads(Records(ClubPrcPoint, 1, 76, Fitting(n, 1, 76, p)), 1, Len(p), Fitting(n, 1, 76, p) * 29)
        BY <3>1, ClubPrcPointRead, FittingRead, Zenon
      <3>3. PICK fit : fit = Fitting(n, 1, 76, p) OBVIOUS
      <3>4. fit \in Nat /\ Reads(Records(ClubPrcPoint, 1, 76, fit), 1, Len(p), fit * 29)
        BY <3>2, <3>3, Zenon
      <3> QED BY <2>1, <3>3, <3>4, Zenon
    <2> DEFINE points == Records(ClubPrcPoint, 1, 76, fit)
               a == <<U8(0)>>
    <2>4. ClubPrc(p) = Decoded("ClubPrc", 1, a \o points, p)
      BY <1>2, <2>2, <2>3 DEF ClubPrc
    <2>5. Reads(a, 0, 1, 1)
      BY DEF Reads, Within, Apart, U8, Field, FieldSet, Kinds, Checked, Overlap
    <2>6. PICK m \in Nat : m = fit * 29
      OBVIOUS
    <2>7. Reads(points, 1, l, m)
      BY <2>3, <2>6
    <2>8. PICK k \in Nat : k = 1 + m
      OBVIOUS
    <2> HIDE DEF points, a
    <2>9. PICK fields : fields = a \o points
      OBVIOUS
    <2>10. Reads(fields, 0, l, k)
      BY <2>1, <2>5, <2>7, <2>8, <2>9, ThenRead
    <2>11. Sound(ClubPrc(p))
      BY <2>1, <2>4, <2>9, <2>10, ReadsSound
    <2>12. AllRead(ClubPrc(p), "ClubPrc", fields, p, k)
      <3>1. Within(fields, 0, Len(p), k) BY <2>1, <2>10 DEF Reads
      <3> QED BY <2>1, <2>4, <2>9, <3>1, DecodedIs
    <2>13. ASSUME NEW q \in Nat, n = q, l = 1 + (76 * q)
           PROVE  k = 1 + (29 * q)
      <3>1. fit = n
        <4>1. 1 + (76 * n) <= Len(p) BY <2>1, <2>13
        <4> QED BY <2>3, <4>1, FittingFits
      <3> QED BY <2>6, <2>8, <2>13, <3>1
    <2>14. \A q \in Nat : Len(p) >= 1 /\ ByteAt(p, 0) \div 76 = q /\ Len(p) = 1 + (76 * q)
                            => Len(ClubPrc(p).val) = 1 + (29 * q)
      BY <2>1, <2>2, <2>12, <2>13 DEF AllRead
    <2> QED BY <2>11, <2>14
  <1> QED BY <1>1, <1>2

\* Whatever its type, a frame is decoded or refused.
LEMMA MessageSound ==
  ASSUME NEW f, f.payload \in Seq(Byte), f.src \in {"Avr", "Dsp", "Pi", "App"}
  PROVE  Sound(DecodeMessage(f))
  <1> DEFINE p == f.payload
  <1>1. Sound(Status(f.src, p))
    BY StatusSound
  <1>2. Sound(ConfigAck("ConfigAck", p)) /\ Sound(ConfigAck("ConfigNack", p)) /\ Sound(ModeAck(p))
    BY AckSound
  <1>3. \A msg : msg # "panic" => Sound(Raw(msg, p)) /\ Sound(Stripped(msg, p))
    BY RawSound, StrippedSound
  <1>4. Sound(ModeSet(p)) /\ Sound(ParamValue(p)) /\ Sound(RadarCal(p))
    BY ModeSetSound, ParamValueSound, RadarCalSound
  <1>5. Sound(ConfigResp(p)) /\ Sound(CamConfig(p)) /\ Sound(FlightResult(p)) /\ Sound(FlightResultV1(p))
        /\ Sound(ClubResult(p)) /\ Sound(SpinResult(p)) /\ Sound(TrackingStatus(p))
    BY ConfigRespSound, CamConfigSound, FlightResultSound, FlightResultV1Sound, ClubResultSound,
       SpinResultSound, TrackingStatusSound DEF SoundWith
  <1>6. Sound(DspQueryResp(p)) /\ Sound(DevInfoResp(p)) /\ Sound(ProdInfoResp(p)) /\ Sound(NetConfigResp(p))
        /\ Sound(TimeSync(p))
    BY HandshakeSound, DevInfoSound, ProdInfoSound, NetConfigSound
  <1>7. Sound(CamState(p)) /\ Sound(CamImageAvail(p))
    BY CamStateSound, CamImageAvailSound
  <1>8. Sound(SpeedProfile(p)) /\ Sound(PrcData(p)) /\ Sound(ClubPrc(p))
    BY SpeedProfileSound, PrcDataSound, ClubPrcSound
  <1> HIDE DEF p
  <1> QED BY <1>1, <1>2, <1>3, <1>4, <1>5, <1>6, <1>7, <1>8 DEF DecodeMessage, p

LEMMA DocumentedRead ==
  ASSUME NEW f, f.payload \in Seq(Byte), f.src \in {"Avr", "Dsp", "Pi", "App"}
  PROVE  Documented(f) > 0 => Len(DecodeMessage(f).val) = Documented(f)
  <1> SUFFICES ASSUME Documented(f) > 0 PROVE Len(DecodeMessage(f).val) = Documented(f)
    OBVIOUS
  <1>1. PICK p \in Seq(Byte) : p = f.payload
    OBVIOUS
  <1>2. PICK n \in Nat : n = Len(p)
    OBVIOUS
  <1>3. CASE f.type = "FLIGHT_RESULT"
    <2>1. Documented(f) = IF n = 158 THEN 52 ELSE 0
      BY <1>1, <1>2, <1>3 DEF Documented
    <2>2. DecodeMessage(f) = FlightResult(p)
      BY <1>1, <1>3 DEF DecodeMessage
    <2>3. n = 158
      BY <2>1
    <2>4. Len(FlightResult(p).val) = 52
      <3>1. Len(p) >= 157 BY <1>2, <2>3
      <3>2. SoundWith(FlightResult(p), p, 157, 52) BY FlightResultSound
      <3> QED BY <3>1, <3>2, Zenon DEF SoundWith
    <2> QED BY <2>1, <2>2, <2>3, <2>4
  <1>4. CASE f.type = "FLIGHT_RESULT_V1"
    <2>1. Documented(f) = IF n = 94 THEN 31 ELSE 0
      BY <1>1, <1>2, <1>4 DEF Documented
    <2>2. DecodeMessage(f) = FlightResultV1(p)
      BY <1>1, <1>4 DEF DecodeMessage
    <2>3. n = 94
      BY <2>1
    <2>4. Len(FlightResultV1(p).val) = 31
      <3>1. Len(p) >= 94 BY <1>2, <2>3
      <3>2. SoundWith(FlightResultV1(p), p, 94, 31) BY FlightResultV1Sound
      <3> QED BY <3>1, <3>2, Zenon DEF SoundWith
    <2> QED BY <2>1, <2>2, <2>3, <2>4
  <1>5. CASE f.type = "CLUB_RESULT"
    <2>1. Documented(f) = IF n \in 167..172 THEN 56 ELSE 0
      BY <1>1, <1>2, <1>5 DEF Documented
    <2>2. DecodeMessage(f) = ClubResult(p)
      BY <1>1, <1>5 DEF DecodeMessage
    <2>3. n \in 167..172
      BY <2>1
    <2>4. Len(ClubResult(p).val) = 56
      <3>1. Len(p) >= 167 BY <1>2, <2>3
      <3>2. SoundWith(ClubResult(p), p, 167, 56) BY ClubResultSound
      <3> QED BY <3>1, <3>2, Zenon DEF SoundWith
    <2> QED BY <2>1, <2>2, <2>3, <2>4
  <1>6. CASE f.type = "SPIN_RESULT"
    <2>1. Documented(f) = IF n = 138 THEN 62 ELSE 0
      BY <1>1, <1>2, <1>6 DEF Documented
    <2>2. DecodeMessage(f) = SpinResult(p)
      BY <1>1, <1>6 DEF DecodeMessage
    <2>3. n = 138
      BY <2>1
    <2>4. Len(SpinResult(p).val) = 62
      <3>1. Len(p) >= 138 BY <1>2, <2>3
      <3>2. SoundWith(SpinResult(p), p, 138, 62) BY SpinResultSound
      <3> QED BY <3>1, <3>2, Zenon DEF SoundWith
    <2> QED BY <2>1, <2>2, <2>3, <2>4
  <1>7. CASE f.type = "SPEED_PROFILE"
    <2>1. Documented(f) = IF n = 172 THEN 85 ELSE 0
      BY <1>1, <1>2, <1>7 DEF Documented
    <2>2. DecodeMessage(f) = SpeedProfile(p)
      BY <1>1, <1>7 DEF DecodeMessage
    <2>3. n = 172
      BY <2>1
    <2>4. Len(SpeedProfile(p).val) = 85
      <3>1. Len(p) = 172 BY <1>2, <2>3
      <3> QED BY <3>1, SpeedProfileSound, Zenon
    <2> QED BY <2>1, <2>2, <2>3, <2>4
  <1>8. CASE f.type = "TRACKING_STATUS"
    <2>1. Documented(f) = IF n = 82 THEN 20 ELSE 0
      BY <1>1, <1>2, <1>8 DEF Documented
    <2>2. DecodeMessage(f) = TrackingStatus(p)
      BY <1>1, <1>8 DEF DecodeMessage
    <2>3. n = 82
      BY <2>1
    <2>4. Len(TrackingStatus(p).val) = 20
      <3>1. Len(p) >= 82 BY <1>2, <2>3
      <3>2. SoundWith(TrackingStatus(p), p, 82, 20) BY TrackingStatusSound
      <3> QED BY <3>1, <3>2, Zenon DEF SoundWith
    <2> QED BY <2>1, <2>2, <2>3, <2>4
  <1>9. CASE f.type = "DEV_INFO_RESP"
    <2>1. Documented(f) = IF n \in {75, 76} THEN 3 ELSE 0
      BY <1>1, <1>2, <1>9 DEF Documented
    <2>2. DecodeMessage(f) = DevInfoResp(p)
      BY <1>1, <1>9 DEF DecodeMessage
    <2>3. n \in {75, 76}
      BY <2>1
    <2>4. Len(DevInfoResp(p).val) = 3
      BY <1>2, <2>3, DevInfoSound
    <2> QED BY <2>1, <2>2, <2>3, <2>4
  <1>10. CASE f.type = "NET_CONFIG"
    <2>1. Documented(f) = IF n = 54 THEN 2 ELSE 0
      BY <1>1, <1>2, <1>10 DEF Documented
    <2>2. DecodeMessage(f) = NetConfigResp(p)
      BY <1>1, <1>10 DEF DecodeMessage
    <2>3. n = 54
      BY <2>1
    <2>4. Len(NetConfigResp(p).val) = 2
      BY <1>2, <2>3, NetConfigSound
    <2> QED BY <2>1, <2>2, <2>3, <2>4
  <1>11. CASE f.type = "CONFIG_RESP"
    <2>1. Documented(f) = IF n = 69 THEN 34 ELSE 0
      BY <1>1, <1>2, <1>11 DEF Documented
    <2>2. DecodeMessage(f) = ConfigResp(p)
      BY <1>1, <1>11 DEF DecodeMessage
    <2>3. n = 69
      BY <2>1
    <2>4. Len(ConfigResp(p).val) = 34
      <3>1. Len(p) >= 69 BY <1>2, <2>3
      <3>2. SoundWith(ConfigResp(p), p, 69, 34) BY ConfigRespSound
      <3> QED BY <3>1, <3>2, Zenon DEF SoundWith
    <2> QED BY <2>1, <2>2, <2>3, <2>4
  <1>12. CASE f.type = "STATUS"
    <2>1. DecodeMessage(f) = Status(f.src, p)
      BY <1>1, <1>12 DEF DecodeMessage
    <2>2. CASE f.src = "Avr"
      <3>1. Documented(f) = IF n = 25 THEN 8 ELSE 0
        BY <1>1, <1>2, <1>12, <2>2 DEF Documented
      <3>2. n = 25
        BY <3>1
      <3>3. Len(AvrStatus(p).val) = 8
        <4>1. Len(p) >= 25 BY <1>2, <3>2
        <4> QED BY <4>1, AvrStatusSound, Zenon
      <3> QED BY <2>1, <2>2, <3>1, <3>2, <3>3 DEF Status
    <2>3. CASE f.src = "Dsp"
      <3>1. Documented(f) = IF n = 129 /\ ByteAt(p, 0) = 128 THEN 9 ELSE 0
        BY <1>1, <1>2, <1>12, <2>3 DEF Documented
      <3>2. n = 129 /\ ByteAt(p, 0) = 128
        BY <3>1
      <3>3. Len(DspStatus(p).val) = 9
        <4>1. Len(p) >= 64 /\ ByteAt(p, 0) = 128 BY <1>2, <3>2
        <4> QED BY <4>1, DspStatusSound, Zenon
      <3> QED BY <2>1, <2>3, <3>1, <3>2, <3>3 DEF Status
    <2>4. CASE f.src \in {"Pi", "App"}
      BY <1>12, <2>4 DEF Documented
    <2> QED BY <2>2, <2>3, <2>4
  <1>13. CASE f.type = "PRC_DATA"
    <2>1. PICK points \in Nat : points = ByteAt(p, 3)
      <3>1. Documented(f) = IF n >= 4 /\ n = 4 + 60 * ByteAt(p, 3) /\ ByteAt(p, 0) = 3 + 60 * ByteAt(p, 3)
                            THEN 3 + 24 * ByteAt(p, 3) ELSE 0
        BY <1>1, <1>2, <1>13 DEF Documented
      <3>2. n >= 4 BY <3>1
      <3>3. 4 \in 1..Len(p) BY <1>2, <3>2
      <3> QED BY <3>3, ElementOfSeq, BytesAreNat DEF ByteAt
    <2>2. Documented(f) = IF n >= 4 /\ n = 4 + 60 * points /\ ByteAt(p, 0) = 3 + 60 * points THEN 3 + 24 * points ELSE 0
      BY <1>1, <1>2, <1>13, <2>1 DEF Documented
    <2>3. DecodeMessage(f) = PrcData(p)
      BY <1>1, <1>13 DEF DecodeMessage
    <2>4. n >= 4 /\ n = 4 + 60 * points /\ ByteAt(p, 0) = 3 + 60 * points
      BY <2>2
    <2>5. Len(PrcData(p).val) = 3 + (24 * points)
      BY <1>2, <2>1, <2>4, PrcDataSound
    <2> QED BY <2>2, <2>3, <2>4, <2>5
  <1>14. CASE f.type = "CLUB_PRC"
    <2>1. PICK pages : pages = ByteAt(p, 0) \div 76
      OBVIOUS
    <2>2. Documented(f) = IF n >= 1 /\ n = 1 + 76 * pages THEN 1 + 29 * pages ELSE 0
      BY <1>1, <1>2, <1>14, <2>1 DEF Documented
    <2>3. DecodeMessage(f) = ClubPrc(p)
      BY <1>1, <1>14 DEF DecodeMessage
    <2>4. n >= 1 /\ n = 1 + 76 * pages
      BY <2>2
    <2>5. pages \in Nat
      <3>1. 1 \in 1..Len(p) BY <1>2, <2>4
      <3>2. p[1] \in Nat BY <3>1, ElementOfSeq, BytesAreNat
      <3>3. PICK b \in Nat : b = ByteAt(p, 0) BY <3>2 DEF ByteAt
      <3>4. (b \div 76) \in Nat BY <3>3
      <3> QED BY <2>1, <3>3, <3>4
    <2>6. Len(ClubPrc(p).val) = 1 + (29 * pages)
      BY <1>2, <2>1, <2>4, <2>5, ClubPrcSound
    <2> QED BY <2>2, <2>3, <2>4, <2>6
  <1>15. CASE f.type \notin {"STATUS", "PRC_DATA", "CLUB_PRC", "FLIGHT_RESULT", "FLIGHT_RESULT_V1", "CLUB_RESULT",
                        "SPIN_RESULT", "SPEED_PROFILE", "TRACKING_STATUS", "DEV_INFO_RESP", "NET_CONFIG", "CONFIG_RESP"}
    BY <1>15 DEF Documented
  <1> QED BY <1>3, <1>4, <1>5, <1>6, <1>7, <1>8, <1>9, <1>10, <1>11, <1>12, <1>13, <1>14, <1>15

-----------------------------------------------------------------------------
(* Commands.                                                               *)

\* What a write puts down as bytes, and what a read takes them for.
LEMMA Code16 ==
  ASSUME NEW v, Fits16(v)
  PROVE  \E a, b \in Byte : Write16(v) = <<a, b>> /\ ReadInt16(<<a, b>>, 0) = v
  <1>2. ReadInt16(Write16(v), 0) = v BY Int16RoundTrip, Zenon
  <1>3. (v \div 256) % 256 \in Byte /\ v % 256 \in Byte BY Bytes16, SMT
  <1> QED BY <1>2, <1>3, Zenon DEF Write16

LEMMA CodeWord ==
  ASSUME NEW w, FitsU16(w)
  PROVE  \E a, b \in Byte : Write16(w) = <<a, b>> /\ ReadUint16(<<a, b>>, 0) = w
  <1> DEFINE q == w \div 256
             r == w % 256
             h == q % 256
  <1>1. w \in Int /\ 0 <= w /\ w <= 65535
    BY SMT DEF FitsU16
  <1>2. q \in Int /\ r \in Int /\ 0 <= r /\ r <= 255 /\ w = (256 * q) + r
    BY <1>1, Division, SMT
  <1>3. Write16(w) = <<h, r>>
    BY Zenon DEF Write16
  <1> HIDE DEF q, r
  <1>4. 0 <= q /\ q <= 255
    BY <1>1, <1>2, SMT
  <1>5. h = q
    BY <1>2, <1>4, SMT
  <1>6. q \in Byte /\ r \in Byte
    BY <1>2, <1>4, SMT DEF Byte
  <1>7. ReadUint16(<<q, r>>, 0) = w
    <2>1. ReadUint16(<<q, r>>, 0) = (q * 256) + r BY <1>6, ReadsTwo, SMT
    <2> QED BY <1>2, <2>1, SMT
  <1> QED BY <1>3, <1>5, <1>6, <1>7, Zenon

LEMMA Code24 ==
  ASSUME NEW v, Fits24(v)
  PROVE  \E a, b, c \in Byte : Write24(v) = <<a, b, c>> /\ ReadInt24(<<a, b, c>>, 0) = v
  <1> DEFINE a == (v \div 65536) % 256
             b == (v \div 256) % 256
             c == v % 256
  <1>1. Write24(v) = <<a, b, c>> BY SMT DEF Write24
  <1>2. a \in Byte /\ b \in Byte /\ c \in Byte BY Bytes24, SMT
  <1> HIDE DEF a, b, c
  <1>3. ReadInt24(<<a, b, c>>, 0) = v
    <2>1. ReadInt24(Write24(v), 0) = v BY Int24RoundTrip, Zenon
    <2> QED BY <1>1, <2>1, Zenon
  <1> QED BY <1>1, <1>2, <1>3, Zenon

LEMMA TwoAndThree ==
  ASSUME NEW a, NEW b, NEW c, NEW d, NEW e
  PROVE  <<a, b>> \o <<c, d, e>> = <<a, b, c, d, e>>
  <1> DEFINE s == <<a, b>>
             t == <<c, d, e>>
             u == <<a, b, c, d, e>>
             S == {a, b, c, d, e}
  <1>1. /\ s \in Seq(S) /\ Len(s) = 2 /\ s[1] = a /\ s[2] = b
        /\ t \in Seq(S) /\ Len(t) = 3 /\ t[1] = c /\ t[2] = d /\ t[3] = e
        /\ u \in Seq(S) /\ Len(u) = 5 /\ u[1] = a /\ u[2] = b /\ u[3] = c /\ u[4] = d /\ u[5] = e
    OBVIOUS
  <1> HIDE DEF s, t, u, S
  <1>2. /\ s \o t \in Seq(S) /\ Len(s \o t) = 5
        /\ \A i \in 1..5 : (s \o t)[i] = IF i <= 2 THEN s[i] ELSE t[i - 2]
    <2>1. /\ s \o t \in Seq(S) /\ Len(s \o t) = Len(s) + Len(t)
          /\ \A i \in 1..Len(s) + Len(t) : (s \o t)[i] = IF i <= Len(s) THEN s[i] ELSE t[i - Len(s)]
      BY <1>1, ConcatProperties, Zenon
    <2>2. 2 + 3 = 5
      OBVIOUS
    <2> QED BY <1>1, <2>1, <2>2, Zenon
  <1>3. \A i \in 1..5 : (s \o t)[i] = u[i]
    BY <1>1, <1>2
  <1>4. s \o t = u
    BY <1>1, <1>2, <1>3, SeqEqual
  <1> QED BY <1>4 DEF s, t, u

LEMMA CodeFloat ==
  ASSUME NEW x, Float(x)
  PROVE  \E a, b, c, d, e \in Byte :
           WriteFloat40(x) = <<a, b, c, d, e>> /\ ReadFloat40(<<a, b, c, d, e>>, 0) = Truncated(x)
  <1>1. CASE x = Zero
    <2>1. 0 \in Byte BY DEF Byte
    <2>2. WriteFloat40(x) = <<0, 0, 0, 0, 0>> BY <1>1, SMT DEF WriteFloat40
    <2>3. ReadFloat40(<<0, 0, 0, 0, 0>>, 0) = Zero
      BY SMT DEF ReadFloat40, ReadInt24, ReadUint24, ByteAt
    <2>4. Truncated(x) = Zero BY <1>1 DEF Truncated, Zero
    <2> QED BY <2>1, <2>2, <2>3, <2>4, Zenon
  <1>2. CASE x # Zero
    <2>1. Normal(x) BY <1>2 DEF Float
    <2>2. ReadFloat40(WriteFloat40(x), 0) = Truncated(x) BY <2>1, Float40RoundTrip
    <2>3. PICK v, w : v = x.exp - 1022 /\ w = IF x.neg THEN -(4194304 + x.mant) ELSE 4194304 + x.mant
      BY SMT
    <2>4. WriteFloat40(x) = Write16(v) \o Write24(w)
      BY <1>2, <2>3, SMT DEF WriteFloat40
    <2>5. Fits16(v) /\ Fits24(w)
      <3>1. PICK exp \in Int, m \in Nat : exp = x.exp /\ m = x.mant
        BY <2>1, SMT DEF Normal, Floats
      <3>2. m < 4194304 /\ 1 <= exp /\ exp <= 2046
        BY <2>1, <3>1, SMT DEF Normal
      <3>3. v = exp - 1022
        BY <2>3, <3>1, SMT
      <3>4. w = -(4194304 + m) \/ w = 4194304 + m
        BY <2>3, <3>1, SMT
      <3>5. Fits24(w)
        BY <3>2, <3>4, SMT DEF Fits24
      <3> QED BY <3>2, <3>3, <3>5, SMT DEF Fits16
    <2>6. PICK a \in Byte, b \in Byte : Write16(v) = <<a, b>>
      BY <2>5, Code16, Zenon
    <2>7. PICK c \in Byte, d \in Byte, e \in Byte : Write24(w) = <<c, d, e>>
      BY <2>5, Code24, Zenon
    <2>8. <<a, b>> \o <<c, d, e>> = <<a, b, c, d, e>>
      BY TwoAndThree, Zenon
    <2>9. WriteFloat40(x) = <<a, b, c, d, e>>
      BY <2>4, <2>6, <2>7, <2>8, Zenon
    <2> QED BY <2>2, <2>9, Zenon
  <1> QED BY <1>1, <1>2

\* A read sees no more than its bytes, wherever they lie.
LEMMA Read16At ==
  ASSUME NEW p, NEW at \in Nat, NEW a \in Byte, NEW b \in Byte, p[at + 1] = a, p[at + 2] = b
  PROVE  ReadInt16(p, at) = ReadInt16(<<a, b>>, 0) /\ ReadUint16(p, at) = ReadUint16(<<a, b>>, 0)
  <1>1. at + 1 + 1 = at + 2 OBVIOUS
  <1>2. ReadUint16(p, at) = ReadUint16(<<a, b>>, 0)
    <2>1. ReadUint16(p, at) = (a * 256) + b BY <1>1, SMT DEF ReadUint16, ByteAt
    <2>2. ReadUint16(<<a, b>>, 0) = (a * 256) + b BY ReadsTwo, SMT
    <2> QED BY <2>1, <2>2, SMT
  <1> QED BY <1>2, SMT DEF ReadInt16

LEMMA Read24At ==
  ASSUME NEW p, NEW at \in Nat, NEW a \in Byte, NEW b \in Byte, NEW c \in Byte,
         p[at + 1] = a, p[at + 2] = b, p[at + 3] = c
  PROVE  ReadInt24(p, at) = ReadInt24(<<a, b, c>>, 0)
  <1>1. at + 1 + 1 = at + 2 /\ at + 2 + 1 = at + 3 OBVIOUS
  <1>2. ReadUint24(p, at) = ReadUint24(<<a, b, c>>, 0)
    <2>1. ReadUint24(p, at) = (a * 65536) + (b * 256) + c
      BY <1>1, SMT DEF ReadUint24, ByteAt
    <2>2. ReadUint24(<<a, b, c>>, 0) = (a * 65536) + (b * 256) + c
      BY ReadsThree, SMT
    <2> QED BY <2>1, <2>2, SMT
  <1> QED BY <1>2, SMT DEF ReadInt24

LEMMA Read40At ==
  ASSUME NEW p, NEW at \in Nat, NEW a \in Byte, NEW b \in Byte, NEW c \in Byte, NEW d \in Byte, NEW e \in Byte,
         p[at + 1] = a, p[at + 2] = b, p[at + 3] = c, p[at + 4] = d, p[at + 5] = e
  PROVE  ReadFloat40(p, at) = ReadFloat40(<<a, b, c, d, e>>, 0)
  <1>1. /\ at + 2 + 1 = at + 3 /\ at + 2 + 2 = at + 4 /\ at + 2 + 3 = at + 5
        /\ at + 2 \in Nat /\ 0 + 2 \in Nat /\ 0 \in Nat
    OBVIOUS
  <1> DEFINE s == <<a, b, c, d, e>>
  <1>2. s[0 + 1] = a /\ s[0 + 2] = b /\ s[2 + 1] = c /\ s[2 + 2] = d /\ s[2 + 3] = e
    OBVIOUS
  <1> HIDE DEF s
  <1>3. ReadInt16(p, at) = ReadInt16(<<a, b>>, 0)
    BY Read16At, SMT
  <1>4. ReadInt16(s, 0) = ReadInt16(<<a, b>>, 0)
    BY <1>1, <1>2, Read16At, Zenon
  <1>5. ReadInt24(p, at + 2) = ReadInt24(<<c, d, e>>, 0)
    BY <1>1, Read24At
  <1>6. ReadInt24(s, 2) = ReadInt24(<<c, d, e>>, 0)
    BY <1>2, Read24At
  <1>7. 0 + 2 = 2 OBVIOUS
  <1>8. ReadFloat40(p, at) = ReadFloat40(s, 0)
    <2>1. PICK m : m = ReadInt24(<<c, d, e>>, 0)
      OBVIOUS
    <2>2. PICK x : x = ReadInt16(<<a, b>>, 0)
      OBVIOUS
    <2>3. PICK y : y = at + 2
      OBVIOUS
    <2>4. ReadInt24(p, y) = m /\ ReadInt16(p, at) = x
      BY <1>3, <1>5, <2>1, <2>2, <2>3, Zenon
    <2>5. ReadInt24(s, 2) = m /\ ReadInt16(s, 0) = x
      BY <1>4, <1>6, <2>1, <2>2, Zenon
    <2>6. ReadFloat40(p, at) = IF m = 0 THEN Zero ELSE Scaled(m, x)
      BY <2>3, <2>4, Zenon DEF ReadFloat40
    <2>7. ReadFloat40(s, 0) = IF m = 0 THEN Zero ELSE Scaled(m, x)
      BY <1>7, <2>5, Zenon DEF ReadFloat40
    <2> QED BY <2>6, <2>7, SMT
  <1> QED BY <1>8 DEF s

\* A fixed layout that finds room is read.
LEMMA LayoutRead ==
  ASSUME NEW msg, NEW need \in Nat, NEW fields, NEW n \in Nat, Reads(fields, 0, need, n),
         NEW p \in Seq(Byte), Len(p) >= need
  PROVE  AllRead(Decoded(msg, need, fields, p), msg, fields, p, n)
  <1>1. Len(p) \in Nat OBVIOUS
  <1>2. need <= Len(p) BY <1>1
  <1>3. Reads(fields, 0, Len(p), n) BY <1>1, <1>2, ReadsMore
  <1> QED BY <1>3, DecodedIs DEF Reads

\* A decoder gives back what a command holds.
Returned(c, o) ==
  /\ o.msg = c.cmd
  /\ \A i \in DOMAIN c.val : o.val[i] = Kept(c.val[i], o.fields[i])

\* Two sequences put together, element by element.
LEMMA Joined ==
  ASSUME NEW s \in Seq(Byte), NEW t \in Seq(Byte)
  PROVE  /\ s \o t \in Seq(Byte) /\ Len(s \o t) = Len(s) + Len(t)
         /\ \A i \in 1..Len(s) : (s \o t)[i] = s[i]
         /\ \A i \in 1..Len(t) : (s \o t)[Len(s) + i] = t[i]
  <1> DEFINE st == s \o t
             m == Len(s)
             n == Len(t)
  <1>0. m \in Nat /\ n \in Nat OBVIOUS
  <1>1. /\ st \in Seq(Byte) /\ Len(st) = m + n
        /\ \A i \in 1..(m + n) : st[i] = IF i <= m THEN s[i] ELSE t[i - m]
    BY ConcatProperties
  <1> HIDE DEF st, m, n
  <1>2. \A i \in 1..m : i \in 1..(m + n) /\ i <= m
    BY <1>0
  <1>3. \A i \in 1..n : m + i \in 1..(m + n) /\ ~(m + i <= m) /\ (m + i) - m = i
    BY <1>0
  <1>4. \A i \in 1..m : st[i] = s[i]
    BY <1>1, <1>2
  <1>5. \A i \in 1..n : st[m + i] = t[i]
    BY <1>1, <1>3
  <1> QED BY <1>1, <1>4, <1>5 DEF st, m, n

LEMMA ValueIs ==
  ASSUME NEW p, NEW at \in Nat
  PROVE  /\ Value(p, U8(at)) = p[at + 1]
         /\ Value(p, I16(at)) = ReadInt16(p, at)
         /\ Value(p, U16(at)) = ReadUint16(p, at)
         /\ Value(p, I24(at)) = ReadInt24(p, at)
         /\ Value(p, U32(at)) = ReadUint32(p, at)
         /\ Value(p, F40(at)) = ReadFloat40(p, at)
         /\ \A width : Value(p, Slice(at, width)) = SubSeq(p, at + 1, at + width)
  BY DEF Value, U8, I16, U16, I24, U32, F40, Slice, Field, ByteAt

\* A Boolean is read as it is written.
LEMMA FlagIs ==
  ASSUME NEW p, NEW at \in Nat, NEW is \in Nat, NEW b \in BOOLEAN,
         b => p[at + 1] = is, ~b => p[at + 1] # is
  PROVE  Value(p, Flag(at, is)) = b
  <1>1. CASE b
    BY <1>1 DEF Value, Flag, Field, ByteAt
  <1>2. CASE ~b
    BY <1>2 DEF Value, Flag, Field, ByteAt
  <1> QED BY <1>1, <1>2

LEMMA NonZeroIs ==
  ASSUME NEW p, NEW at \in Nat, NEW b \in BOOLEAN, p[at + 1] = IF b THEN 1 ELSE 0
  PROVE  Value(p, NonZero(at)) = b
  <1>1. (b => p[at + 1] # 0) /\ (~b => p[at + 1] = 0)
    OBVIOUS
  <1>2. Value(p, NonZero(at)) = (p[at + 1] # 0)
    BY DEF Value, NonZero, Field, ByteAt
  <1> QED BY <1>1, <1>2, Zenon

LEMMA KeptIs ==
  ASSUME NEW x
  PROVE  /\ \A at : /\ Kept(x, U8(at)) = x /\ Kept(x, I16(at)) = x /\ Kept(x, U16(at)) = x
                    /\ Kept(x, I24(at)) = x /\ Kept(x, U32(at)) = x /\ Kept(x, NonZero(at)) = x
                    /\ Kept(x, F40(at)) = Truncated(x)
         /\ \A at, y : Kept(x, Flag(at, y)) = x /\ Kept(x, Slice(at, y)) = x
  <1>1. /\ \A at : /\ U8(at).kind # "float40" /\ I16(at).kind # "float40" /\ U16(at).kind # "float40"
                 /\ I24(at).kind # "float40" /\ U32(at).kind # "float40" /\ NonZero(at).kind # "float40"
                 /\ F40(at).kind = "float40"
        /\ \A at, y : Flag(at, y).kind # "float40" /\ Slice(at, y).kind # "float40"
    BY DEF U8, I16, U16, I24, U32, NonZero, F40, Flag, Slice, Field
  <1> QED BY <1>1, Zenon DEF Kept

LEMMA OneAndOne ==
  ASSUME NEW a \in Byte, NEW b \in Byte
  PROVE  <<a>> \o <<b>> = <<a, b>>
  <1> DEFINE s == <<a>>
             t == <<b>>
             u == <<a, b>>
  <1>1. /\ s \in Seq(Byte) /\ Len(s) = 1 /\ s[1] = a
        /\ t \in Seq(Byte) /\ Len(t) = 1 /\ t[1] = b
        /\ u \in Seq(Byte) /\ Len(u) = 2 /\ u[1] = a /\ u[2] = b
    OBVIOUS
  <1> HIDE DEF s, t, u
  <1>2. /\ s \o t \in Seq(Byte) /\ Len(s \o t) = 1 + 1
        /\ \A i \in 1..1 : (s \o t)[i] = s[i]
        /\ \A i \in 1..1 : (s \o t)[1 + i] = t[i]
    <2>1. /\ s \o t \in Seq(Byte) /\ Len(s \o t) = Len(s) + Len(t)
          /\ \A i \in 1..Len(s) : (s \o t)[i] = s[i]
          /\ \A i \in 1..Len(t) : (s \o t)[Len(s) + i] = t[i]
      BY <1>1, Joined
    <2> QED BY <1>1, <2>1, Zenon
  <1>3. \A i \in 1..2 : (s \o t)[i] = u[i]
    BY <1>1, <1>2
  <1>4. s \o t = u
    BY <1>1, <1>2, <1>3, SeqEqual
  <1> QED BY <1>4 DEF s, t, u

-----------------------------------------------------------------------------

\* A decoder of one, two or four fields.
LEMMA OneReturned ==
  ASSUME NEW c, NEW x, c.val = <<x>>, NEW f, NEW need \in Nat, Reads(<<f>>, 0, need, 1),
         NEW p \in Seq(Byte), Len(p) >= need, Value(p, f) = Kept(x, f),
         NEW o, o = Decoded(c.cmd, need, <<f>>, p)
  PROVE  Returned(c, o)
  <1> DEFINE fields == <<f>>
  <1>1. fields[1] = f /\ c.val[1] = x /\ DOMAIN c.val = 1..1 /\ \A i \in 1..1 : i = 1
    OBVIOUS
  <1>2. AllRead(o, c.cmd, fields, p, 1)
    BY LayoutRead
  <1> HIDE DEF fields
  <1>3. \A i \in 1..1 : Value(p, fields[i]) = Kept(c.val[i], fields[i])
    BY <1>1, Zenon
  <1> QED BY <1>1, <1>2, <1>3 DEF AllRead, Returned

LEMMA TwoReturned ==
  ASSUME NEW c, NEW x, NEW y, c.val = <<x, y>>, NEW f, NEW g, NEW need \in Nat, Reads(<<f, g>>, 0, need, 2),
         NEW p \in Seq(Byte), Len(p) >= need, Value(p, f) = Kept(x, f), Value(p, g) = Kept(y, g),
         NEW o, o = Decoded(c.cmd, need, <<f, g>>, p)
  PROVE  Returned(c, o)
  <1> DEFINE fields == <<f, g>>
  <1>1. /\ fields[1] = f /\ c.val[1] = x /\ fields[2] = g /\ c.val[2] = y
        /\ DOMAIN c.val = 1..2 /\ \A i \in 1..2 : i = 1 \/ i = 2
    OBVIOUS
  <1>2. AllRead(o, c.cmd, fields, p, 2)
    BY LayoutRead
  <1> HIDE DEF fields
  <1>3. \A i \in 1..2 : Value(p, fields[i]) = Kept(c.val[i], fields[i])
    BY <1>1, Zenon
  <1> QED BY <1>1, <1>2, <1>3 DEF AllRead, Returned

LEMMA FourReturned ==
  ASSUME NEW c, NEW x, NEW y, NEW z, NEW w, c.val = <<x, y, z, w>>, NEW f, NEW g, NEW h, NEW k,
         NEW need \in Nat, Reads(<<f, g, h, k>>, 0, need, 4), NEW p \in Seq(Byte), Len(p) >= need,
         Value(p, f) = Kept(x, f), Value(p, g) = Kept(y, g), Value(p, h) = Kept(z, h), Value(p, k) = Kept(w, k),
         NEW o, o = Decoded(c.cmd, need, <<f, g, h, k>>, p)
  PROVE  Returned(c, o)
  <1> DEFINE fields == <<f, g, h, k>>
  <1>1. /\ fields[1] = f /\ c.val[1] = x /\ fields[2] = g /\ c.val[2] = y
        /\ fields[3] = h /\ c.val[3] = z /\ fields[4] = k /\ c.val[4] = w
        /\ DOMAIN c.val = 1..4 /\ \A i \in 1..4 : i = 1 \/ i = 2 \/ i = 3 \/ i = 4
    OBVIOUS
  <1>2. AllRead(o, c.cmd, fields, p, 4)
    BY LayoutRead
  <1> HIDE DEF fields
  <1>3. \A i \in 1..4 : Value(p, fields[i]) = Kept(c.val[i], fields[i])
    BY <1>1, Zenon
  <1> QED BY <1>1, <1>2, <1>3 DEF AllRead, Returned

\* Commands of one Boolean.
LEMMA BoolBody ==
  ASSUME NEW b \in BOOLEAN, NEW c, c.val = <<b>>, NEW is \in {1, 3, 8}, NEW no \in {0, 1}, is # no,
         NEW p, p = <<1, IF b THEN is ELSE no>>, NEW o, o = Decoded(c.cmd, 2, <<Flag(1, is)>>, p)
  PROVE  p \in Seq(Byte) /\ Returned(c, o)
  <1>1. 1 \in Byte /\ is \in Byte /\ no \in Byte
    BY DEF Byte
  <1>2. p \in Seq(Byte) /\ Len(p) = 2 /\ p[2] = IF b THEN is ELSE no
    BY <1>1
  <1>3. Reads(<<Flag(1, is)>>, 0, 2, 1)
    BY DEF Reads, Within, Apart, Flag, Field, FieldSet, Kinds, Checked, Overlap
  <1>4. Value(p, Flag(1, is)) = b
    BY <1>2, FlagIs
  <1>5. Kept(b, Flag(1, is)) = b
    BY KeptIs
  <1>6. Returned(c, o)
    <2>1. Value(p, Flag(1, is)) = Kept(b, Flag(1, is))
      BY <1>4, <1>5, Zenon
    <2>2. 2 \in Nat /\ Len(p) >= 2
      BY <1>2
    <2> QED BY <1>2, <1>3, <2>1, <2>2, OneReturned
  <1> QED BY <1>2, <1>6

LEMMA BoolCommand ==
  ASSUME NEW c, c.cmd \in {"StatusPoll", "AvrConfigCmd", "NetConfigReq"}, NEW b \in BOOLEAN, c.val = <<b>>
  PROVE  Body(c) \in Seq(Byte) /\ Returned(c, DecodeCommand(c, Body(c)))
  <1>1. CASE c.cmd = "StatusPoll"
    <2>1. Body(c) = <<1, IF b THEN 3 ELSE 1>> BY <1>1 DEF Body
    <2>2. DecodeCommand(c, Body(c)) = Decoded(c.cmd, 2, <<Flag(1, 3)>>, Body(c))
      BY <1>1 DEF DecodeCommand, StatusPoll
    <2>3. 3 \in {1, 3, 8} /\ 1 \in {0, 1} /\ 3 # 1 OBVIOUS
    <2> QED BY <2>1, <2>2, <2>3, BoolBody
  <1>2. CASE c.cmd = "AvrConfigCmd"
    <2>1. Body(c) = <<1, IF b THEN 1 ELSE 0>> 
      <3>1. Body(c) = <<1>> \o <<IF b THEN 1 ELSE 0>> BY <1>2 DEF Body, Bool
      <3>2. 1 \in Byte /\ (IF b THEN 1 ELSE 0) \in Byte BY DEF Byte
      <3> QED BY <3>1, <3>2, OneAndOne
    <2>2. DecodeCommand(c, Body(c)) = Decoded(c.cmd, 2, <<Flag(1, 1)>>, Body(c))
      BY <1>2 DEF DecodeCommand, AvrConfigCmd
    <2>3. 1 \in {1, 3, 8} /\ 0 \in {0, 1} /\ 1 # 0 OBVIOUS
    <2> QED BY <2>1, <2>2, <2>3, BoolBody
  <1>3. CASE c.cmd = "NetConfigReq"
    <2>1. Body(c) = <<1, IF b THEN 8 ELSE 0>> BY <1>3 DEF Body
    <2>2. DecodeCommand(c, Body(c)) = Decoded(c.cmd, 2, <<Flag(1, 8)>>, Body(c))
      BY <1>3 DEF DecodeCommand, NetConfigReq
    <2>3. 8 \in {1, 3, 8} /\ 0 \in {0, 1} /\ 8 # 0 OBVIOUS
    <2> QED BY <2>1, <2>2, <2>3, BoolBody
  <1> QED BY <1>1, <1>2, <1>3

-----------------------------------------------------------------------------

\* Which decoder a command sent back meets.
LEMMA EchoIs ==
  ASSUME NEW c, NEW p
  PROVE  /\ c.cmd = "ModeSet" => DecodeCommand(c, p) = ModeSet(p)
         /\ c.cmd \in {"ParamValue(INT24)", "ParamValue(FLOAT40)"} => DecodeCommand(c, p) = ParamValue(p)
         /\ c.cmd = "RadarCal" => DecodeCommand(c, p) = RadarCal(p)
         /\ c.cmd = "TimeSync" => DecodeCommand(c, p) = TimeSync(p)
         /\ c.cmd = "CamState" => DecodeCommand(c, p) = CamState(p)
         /\ c.cmd = "CamConfig" => DecodeCommand(c, p) = CamConfig(p)
  <1>1. c.cmd = "ModeSet" => DecodeCommand(c, p) = ModeSet(p)
    BY DEF DecodeCommand, EchoType, DecodeMessage
  <1>2. c.cmd \in {"ParamValue(INT24)", "ParamValue(FLOAT40)"} => DecodeCommand(c, p) = ParamValue(p)
    BY DEF DecodeCommand, EchoType, DecodeMessage
  <1>3. c.cmd = "RadarCal" => DecodeCommand(c, p) = RadarCal(p)
    BY DEF DecodeCommand, EchoType, DecodeMessage
  <1>4. c.cmd = "TimeSync" => DecodeCommand(c, p) = TimeSync(p)
    BY DEF DecodeCommand, EchoType, DecodeMessage
  <1>5. c.cmd = "CamState" => DecodeCommand(c, p) = CamState(p)
    BY DEF DecodeCommand, EchoType, DecodeMessage
  <1>6. c.cmd = "CamConfig" => DecodeCommand(c, p) = CamConfig(p)
    BY DEF DecodeCommand, EchoType, DecodeMessage
  <1> QED BY <1>1, <1>2, <1>3, <1>4, <1>5, <1>6

\* Commands of one number.
LEMMA NumberBody ==
  ASSUME NEW n \in Byte, NEW c, c.val = <<n>>, NEW at \in {1, 2, 3}, NEW p \in Seq(Byte), Len(p) = at + 1,
         p[at + 1] = n, NEW need \in {2, 3, 4}, need = at + 1, NEW o, o = Decoded(c.cmd, need, <<U8(at)>>, p)
  PROVE  Returned(c, o)
  <1>1. Reads(<<U8(at)>>, 0, need, 1)
    BY DEF Reads, Within, Apart, U8, Field, FieldSet, Kinds, Checked, Overlap
  <1>2. Value(p, U8(at)) = n
    BY ValueIs
  <1>3. Kept(n, U8(at)) = n
    BY KeptIs
  <1> QED BY <1>1, <1>2, <1>3, OneReturned

LEMMA NumberCommand ==
  ASSUME NEW c, c.cmd \in {"ModeSet", "ParamReadReq", "ProdInfoReq", "CamState"}, NEW n \in Byte, c.val = <<n>>
  PROVE  Body(c) \in Seq(Byte) /\ Returned(c, DecodeCommand(c, Body(c)))
  <1>0. 0 \in Byte /\ 1 \in Byte /\ 2 \in Byte /\ 3 \in Byte BY DEF Byte
  <1>1. CASE c.cmd = "ModeSet"
    <2>1. Body(c) = <<2, 0, n>> BY <1>1 DEF Body
    <2>2. Body(c) \in Seq(Byte) /\ Len(Body(c)) = 2 + 1 /\ Body(c)[2 + 1] = n BY <1>0, <2>1
    <2>3. DecodeCommand(c, Body(c)) = Decoded(c.cmd, 3, <<U8(2)>>, Body(c))
      BY <1>1, EchoIs DEF ModeSet
    <2>4. 2 \in {1, 2, 3} /\ 3 \in {2, 3, 4} /\ 3 = 2 + 1 OBVIOUS
    <2>5. Returned(c, DecodeCommand(c, Body(c)))
      BY <2>2, <2>3, <2>4, NumberBody, Zenon
    <2> QED BY <2>2, <2>5
  <1>2. CASE c.cmd = "ParamReadReq"
    <2>1. Body(c) = <<3, 0, 0, n>> BY <1>2 DEF Body
    <2>2. Body(c) \in Seq(Byte) /\ Len(Body(c)) = 3 + 1 /\ Body(c)[3 + 1] = n BY <1>0, <2>1
    <2>3. DecodeCommand(c, Body(c)) = Decoded(c.cmd, 4, <<U8(3)>>, Body(c))
      BY <1>2 DEF DecodeCommand, ParamReadReq
    <2>4. 3 \in {1, 2, 3} /\ 4 \in {2, 3, 4} /\ 4 = 3 + 1 OBVIOUS
    <2>5. Returned(c, DecodeCommand(c, Body(c)))
      BY <2>2, <2>3, <2>4, NumberBody, Zenon
    <2> QED BY <2>2, <2>5
  <1>3. CASE c.cmd = "ProdInfoReq"
    <2>1. Body(c) = <<1, n>> BY <1>3 DEF Body
    <2>2. Body(c) \in Seq(Byte) /\ Len(Body(c)) = 1 + 1 /\ Body(c)[1 + 1] = n BY <1>0, <2>1
    <2>3. DecodeCommand(c, Body(c)) = Decoded(c.cmd, 2, <<U8(1)>>, Body(c))
      BY <1>3 DEF DecodeCommand, ProdInfoReq
    <2>4. 1 \in {1, 2, 3} /\ 2 \in {2, 3, 4} /\ 2 = 1 + 1 OBVIOUS
    <2>5. Returned(c, DecodeCommand(c, Body(c)))
      BY <2>2, <2>3, <2>4, NumberBody, Zenon
    <2> QED BY <2>2, <2>5
  <1>4. CASE c.cmd = "CamState"
    <2>1. Body(c) = <<1, n>> BY <1>4 DEF Body
    <2>2. Body(c) \in Seq(Byte) /\ Len(Body(c)) = 1 + 1 /\ Body(c)[1 + 1] = n BY <1>0, <2>1
    <2>3. DecodeCommand(c, Body(c)) = Decoded(c.cmd, 2, <<U8(1)>>, Body(c))
      BY <1>4, EchoIs DEF CamState
    <2>4. 1 \in {1, 2, 3} /\ 2 \in {2, 3, 4} /\ 2 = 1 + 1 OBVIOUS
    <2>5. Returned(c, DecodeCommand(c, Body(c)))
      BY <2>2, <2>3, <2>4, NumberBody, Zenon
    <2> QED BY <2>2, <2>5
  <1> QED BY <1>1, <1>2, <1>3, <1>4

-----------------------------------------------------------------------------

\* The parameter: four bytes and the number.
Headed(p, k, n, t) ==
  /\ p \in Seq(Byte) /\ Len(p) = 4 + Len(t) /\ p[1] = k /\ p[3 + 1] = n
  /\ \A i \in 1..Len(t) : p[4 + i] = t[i]

LEMMA ParamBody ==
  ASSUME NEW k \in Byte, NEW n \in Byte, NEW t \in Seq(Byte)
  PROVE  Headed(<<k, 0, 0, n>> \o t, k, n, t)
  <1> DEFINE s == <<k, 0, 0, n>>
             p == s \o t
  <1>1. s \in Seq(Byte) /\ Len(s) = 4 /\ s[1] = k /\ s[4] = n
    BY DEF Byte
  <1> HIDE DEF s, p
  <1>2. p = s \o t BY DEF p
  <1>3. /\ p \in Seq(Byte) /\ Len(p) = Len(s) + Len(t)
        /\ \A i \in 1..Len(s) : p[i] = s[i]
        /\ \A i \in 1..Len(t) : p[Len(s) + i] = t[i]
    <2>1. /\ s \o t \in Seq(Byte) /\ Len(s \o t) = Len(s) + Len(t)
          /\ \A i \in 1..Len(s) : (s \o t)[i] = s[i]
          /\ \A i \in 1..Len(t) : (s \o t)[Len(s) + i] = t[i]
      BY <1>1, Joined
    <2> QED BY <1>2, <2>1, Zenon
  <1>4. 1 \in 1..4 /\ 4 \in 1..4 /\ 3 + 1 = 4
    OBVIOUS
  <1>5. p[1] = k /\ p[3 + 1] = n
    BY <1>1, <1>3, <1>4, Zenon
  <1>6. Headed(p, k, n, t)
    BY <1>1, <1>3, <1>5, Zenon DEF Headed
  <1> QED BY <1>6 DEF p, s

LEMMA Int24Command ==
  ASSUME NEW c, c.cmd = "ParamValue(INT24)", NEW n \in Byte, NEW v, Fits24(v), c.val = <<n, v>>
  PROVE  Body(c) \in Seq(Byte) /\ Returned(c, DecodeCommand(c, Body(c)))
  <1>1. PICK a \in Byte, b \in Byte, d \in Byte : Write24(v) = <<a, b, d>> /\ ReadInt24(<<a, b, d>>, 0) = v
    BY Code24, Zenon
  <1> DEFINE t == <<a, b, d>>
             p == <<6, 0, 0, n>> \o t
  <1>2. Body(c) = p
    <2>1. Body(c) = <<6, 0, 0, c.val[1]>> \o Write24(c.val[2]) BY DEF Body
    <2>2. c.val[1] = n /\ c.val[2] = v OBVIOUS
    <2> QED BY <1>1, <2>1, <2>2, Zenon
  <1>3. /\ t \in Seq(Byte) /\ Len(t) = 3 /\ t[1] = a /\ t[2] = b /\ t[3] = d
        /\ 6 \in Byte /\ 4 + 3 = 7 /\ 4 \in Nat /\ 1 \in 1..3 /\ 2 \in 1..3 /\ 3 \in 1..3
    BY DEF Byte
  <1> HIDE DEF t, p
  <1>4. /\ p \in Seq(Byte) /\ Len(p) = 4 + Len(t) /\ p[1] = 6 /\ p[3 + 1] = n
        /\ \A i \in 1..Len(t) : p[4 + i] = t[i]
    <2>1. Headed(<<6, 0, 0, n>> \o t, 6, n, t) BY <1>3, ParamBody
    <2> QED BY <2>1, Zenon DEF p, Headed
  <1>5. Len(p) = 7 /\ p[4 + 1] = a /\ p[4 + 2] = b /\ p[4 + 3] = d
    BY <1>3, <1>4, Zenon
  <1>6. DecodeCommand(c, p) = Decoded(c.cmd, 7, <<U8(3), I24(4)>>, p)
    <2>1. DecodeCommand(c, p) = ParamValue(p) BY EchoIs
    <2>2. p # <<>> BY <1>4, <1>5
    <2> QED BY <1>4, <2>1, <2>2 DEF ParamValue, ByteAt
  <1>7. Reads(<<U8(3), I24(4)>>, 0, 7, 2)
    BY DEF Reads, Within, Apart, U8, I24, Field, FieldSet, Kinds, Checked, Overlap
  <1>8. Value(p, U8(3)) = Kept(n, U8(3))
    <2>1. Value(p, U8(3)) = p[3 + 1] BY ValueIs
    <2>2. Kept(n, U8(3)) = n BY KeptIs, Zenon
    <2> QED BY <1>4, <2>1, <2>2, Zenon
  <1>9. Value(p, I24(4)) = Kept(v, I24(4))
    <2>1. Value(p, I24(4)) = ReadInt24(p, 4) BY ValueIs
    <2>2. ReadInt24(p, 4) = ReadInt24(<<a, b, d>>, 0) BY <1>3, <1>5, Read24At
    <2>3. Kept(v, I24(4)) = v BY KeptIs, Zenon
    <2> QED BY <1>1, <2>1, <2>2, <2>3, Zenon
  <1>10. Returned(c, DecodeCommand(c, p))
    <2>1. 7 \in Nat /\ Len(p) >= 7 BY <1>5
    <2> QED BY <1>4, <1>6, <1>7, <1>8, <1>9, <2>1, TwoReturned
  <1> QED BY <1>2, <1>4, <1>10, Zenon

LEMMA Float40Command ==
  ASSUME NEW c, c.cmd = "ParamValue(FLOAT40)", NEW n \in Byte, NEW x, Float(x), c.val = <<n, x>>
  PROVE  Body(c) \in Seq(Byte) /\ Returned(c, DecodeCommand(c, Body(c)))
  <1>1. PICK a \in Byte, b \in Byte, d \in Byte, e \in Byte, g \in Byte :
          WriteFloat40(x) = <<a, b, d, e, g>> /\ ReadFloat40(<<a, b, d, e, g>>, 0) = Truncated(x)
    BY CodeFloat, Zenon
  <1> DEFINE t == <<a, b, d, e, g>>
             p == <<8, 0, 0, n>> \o t
  <1>2. Body(c) = p
    <2>1. Body(c) = <<8, 0, 0, c.val[1]>> \o WriteFloat40(c.val[2]) BY DEF Body
    <2>2. c.val[1] = n /\ c.val[2] = x OBVIOUS
    <2> QED BY <1>1, <2>1, <2>2, Zenon
  <1>3. /\ t \in Seq(Byte) /\ Len(t) = 5 /\ t[1] = a /\ t[2] = b /\ t[3] = d /\ t[4] = e /\ t[5] = g
        /\ 8 \in Byte /\ 4 + 5 = 9 /\ 4 \in Nat
        /\ 1 \in 1..5 /\ 2 \in 1..5 /\ 3 \in 1..5 /\ 4 \in 1..5 /\ 5 \in 1..5
    BY DEF Byte
  <1> HIDE DEF t, p
  <1>4. /\ p \in Seq(Byte) /\ Len(p) = 4 + Len(t) /\ p[1] = 8 /\ p[3 + 1] = n
        /\ \A i \in 1..Len(t) : p[4 + i] = t[i]
    <2>1. Headed(<<8, 0, 0, n>> \o t, 8, n, t) BY <1>3, ParamBody
    <2> QED BY <2>1, Zenon DEF p, Headed
  <1>5. Len(p) = 9 /\ p[4 + 1] = a /\ p[4 + 2] = b /\ p[4 + 3] = d /\ p[4 + 4] = e /\ p[4 + 5] = g
    BY <1>3, <1>4, Zenon
  <1>6. DecodeCommand(c, p) = Decoded(c.cmd, 9, <<U8(3), F40(4)>>, p)
    <2>1. DecodeCommand(c, p) = ParamValue(p) BY EchoIs
    <2>2. p # <<>> BY <1>4, <1>5
    <2> QED BY <1>4, <2>1, <2>2 DEF ParamValue, ByteAt
  <1>7. Reads(<<U8(3), F40(4)>>, 0, 9, 2)
    BY DEF Reads, Within, Apart, U8, F40, Field, FieldSet, Kinds, Checked, Overlap
  <1>8. Value(p, U8(3)) = Kept(n, U8(3))
    <2>1. Value(p, U8(3)) = p[3 + 1] BY ValueIs
    <2>2. Kept(n, U8(3)) = n BY KeptIs, Zenon
    <2> QED BY <1>4, <2>1, <2>2, Zenon
  <1>9. Value(p, F40(4)) = Kept(x, F40(4))
    <2>1. Value(p, F40(4)) = ReadFloat40(p, 4) BY ValueIs
    <2>2. ReadFloat40(p, 4) = ReadFloat40(<<a, b, d, e, g>>, 0)
      <3>1. PICK y \in Nat : y = 4 OBVIOUS
      <3>2. p[y + 1] = a /\ p[y + 2] = b /\ p[y + 3] = d /\ p[y + 4] = e /\ p[y + 5] = g
        BY <1>5, <3>1, Zenon
      <3>3. ReadFloat40(p, y) = ReadFloat40(<<a, b, d, e, g>>, 0) BY <3>2, Read40At
      <3> QED BY <3>1, <3>3, Zenon
    <2>3. Kept(x, F40(4)) = Truncated(x) BY KeptIs, Zenon
    <2> QED BY <1>1, <2>1, <2>2, <2>3, Zenon
  <1>10. Returned(c, DecodeCommand(c, p))
    <2>1. 9 \in Nat /\ Len(p) >= 9 BY <1>5
    <2> QED BY <1>4, <1>6, <1>7, <1>8, <1>9, <2>1, TwoReturned
  <1> QED BY <1>2, <1>4, <1>10, Zenon

LEMMA TwoAndTwo ==
  ASSUME NEW a \in Byte, NEW b \in Byte, NEW d \in Byte, NEW e \in Byte
  PROVE  <<a, b>> \o <<d, e>> = <<a, b, d, e>>
  <1> DEFINE s == <<a, b>>
             t == <<d, e>>
             u == <<a, b, d, e>>
  <1>1. /\ s \in Seq(Byte) /\ Len(s) = 2 /\ s[1] = a /\ s[2] = b
        /\ t \in Seq(Byte) /\ Len(t) = 2 /\ t[1] = d /\ t[2] = e
        /\ u \in Seq(Byte) /\ Len(u) = 4 /\ u[1] = a /\ u[2] = b /\ u[3] = d /\ u[4] = e
    OBVIOUS
  <1> HIDE DEF s, t, u
  <1>2. /\ s \o t \in Seq(Byte) /\ Len(s \o t) = 2 + 2
        /\ \A i \in 1..2 : (s \o t)[i] = s[i]
        /\ \A i \in 1..2 : (s \o t)[2 + i] = t[i]
    <2>1. /\ s \o t \in Seq(Byte) /\ Len(s \o t) = Len(s) + Len(t)
          /\ \A i \in 1..Len(s) : (s \o t)[i] = s[i]
          /\ \A i \in 1..Len(t) : (s \o t)[Len(s) + i] = t[i]
      BY <1>1, Joined
    <2> QED BY <1>1, <2>1, Zenon
  <1>3. \A i \in 1..4 : (s \o t)[i] = u[i]
    BY <1>1, <1>2
  <1>4. s \o t = u
    BY <1>1, <1>2, <1>3, SeqEqual
  <1> QED BY <1>4 DEF s, t, u

\* Three sequences put together.
InThree(p, s, t, u) ==
  /\ p \in Seq(Byte) /\ Len(p) = Len(s) + Len(t) + Len(u)
  /\ \A i \in 1..Len(s) : p[i] = s[i]
  /\ \A i \in 1..Len(t) : p[Len(s) + i] = t[i]
  /\ \A i \in 1..Len(u) : p[Len(s) + Len(t) + i] = u[i]

LEMMA ThreeJoined ==
  ASSUME NEW s \in Seq(Byte), NEW t \in Seq(Byte), NEW u \in Seq(Byte)
  PROVE  InThree(s \o t \o u, s, t, u)
  <1> DEFINE st == s \o t
             p == st \o u
             l == Len(s)
             m == Len(t)
             n == Len(u)
  <1>1. l \in Nat /\ m \in Nat /\ n \in Nat
    OBVIOUS
  <1>2. /\ st \in Seq(Byte) /\ Len(st) = l + m
        /\ \A i \in 1..l : st[i] = s[i]
        /\ \A i \in 1..m : st[l + i] = t[i]
    BY Joined
  <1>3. /\ p \in Seq(Byte) /\ Len(p) = Len(st) + n
        /\ \A i \in 1..Len(st) : p[i] = st[i]
        /\ \A i \in 1..n : p[Len(st) + i] = u[i]
    <2> HIDE DEF st
    <2> QED BY <1>2, Joined
  <1> HIDE DEF st, p, l, m, n
  <1>4. /\ \A i \in 1..l : i \in 1..(l + m)
        /\ \A i \in 1..m : l + i \in 1..(l + m)
    BY <1>1
  <1>5. \A i \in 1..l : p[i] = s[i]
    BY <1>2, <1>3, <1>4, Zenon
  <1>6. \A i \in 1..m : p[l + i] = t[i]
    BY <1>2, <1>3, <1>4, Zenon
  <1>7. Len(p) = l + m + n /\ \A i \in 1..n : p[l + m + i] = u[i]
    BY <1>2, <1>3, Zenon
  <1>8. InThree(p, s, t, u)
    BY <1>3, <1>5, <1>6, <1>7, Zenon DEF InThree, l, m, n
  <1> QED BY <1>8 DEF p, st

-----------------------------------------------------------------------------

LEMMA RadarCalCommand ==
  ASSUME NEW c, c.cmd = "RadarCal", NEW w, FitsU16(w), NEW n \in Byte, c.val = <<w, n>>
  PROVE  Body(c) \in Seq(Byte) /\ Returned(c, DecodeCommand(c, Body(c)))
  <1>1. PICK a \in Byte, b \in Byte : Write16(w) = <<a, b>> /\ ReadUint16(<<a, b>>, 0) = w
    BY CodeWord, Zenon
  <1> DEFINE s == <<6>>
             t == <<a, b>>
             u == <<0, n, 0, 0>>
             p == s \o t \o u
  <1>2. Body(c) = p
    <2>1. Body(c) = <<6>> \o Write16(c.val[1]) \o <<0, c.val[2], 0, 0>> BY DEF Body
    <2>2. c.val[1] = w /\ c.val[2] = n OBVIOUS
    <2> QED BY <1>1, <2>1, <2>2, Zenon
  <1>3. /\ s \in Seq(Byte) /\ Len(s) = 1
        /\ t \in Seq(Byte) /\ Len(t) = 2 /\ t[1] = a /\ t[2] = b
        /\ u \in Seq(Byte) /\ Len(u) = 4 /\ u[2] = n
    BY DEF Byte
  <1>4. InThree(p, s, t, u)
    <2> HIDE DEF s, t, u
    <2> QED BY <1>3, ThreeJoined
  <1> HIDE DEF s, t, u, p
  <1>5. p \in Seq(Byte) /\ Len(p) = 7 /\ p[1 + 1] = a /\ p[1 + 2] = b /\ p[4 + 1] = n
    <2>1. /\ p \in Seq(Byte) /\ Len(p) = 1 + 2 + 4
          /\ \A i \in 1..2 : p[1 + i] = t[i]
          /\ \A i \in 1..4 : p[1 + 2 + i] = u[i]
      BY <1>3, <1>4, Zenon DEF InThree
    <2>2. 1 \in 1..2 /\ 2 \in 1..2 /\ 2 \in 1..4 /\ 1 + 2 + 4 = 7 /\ 1 + 2 + 2 = 4 + 1
      OBVIOUS
    <2> QED BY <1>3, <2>1, <2>2, Zenon
  <1>6. DecodeCommand(c, p) = Decoded(c.cmd, 7, <<U16(1), U8(4)>>, p)
    BY EchoIs DEF RadarCal
  <1>7. Reads(<<U16(1), U8(4)>>, 0, 7, 2)
    BY DEF Reads, Within, Apart, U8, U16, Field, FieldSet, Kinds, Checked, Overlap
  <1>8. Value(p, U8(4)) = Kept(n, U8(4))
    <2>1. Value(p, U8(4)) = p[4 + 1] BY ValueIs
    <2>2. Kept(n, U8(4)) = n BY KeptIs, Zenon
    <2> QED BY <1>5, <2>1, <2>2, Zenon
  <1>9. Value(p, U16(1)) = Kept(w, U16(1))
    <2>1. Value(p, U16(1)) = ReadUint16(p, 1) BY ValueIs
    <2>2. ReadUint16(p, 1) = ReadUint16(<<a, b>>, 0) BY <1>5, Read16At
    <2>3. Kept(w, U16(1)) = w BY KeptIs, Zenon
    <2> QED BY <1>1, <2>1, <2>2, <2>3, Zenon
  <1>10. Returned(c, DecodeCommand(c, p))
    <2>1. 7 \in Nat /\ Len(p) >= 7 BY <1>5
    <2> QED BY <1>5, <1>6, <1>7, <1>8, <1>9, <2>1, TwoReturned
  <1> QED BY <1>2, <1>5, <1>10, Zenon

LEMMA TimeSyncCommand ==
  ASSUME NEW c, c.cmd = "TimeSync", NEW h, NEW l, FitsU16(h), FitsU16(l),
         NEW x \in Byte, NEW y \in Byte, NEW z \in Byte, c.val = <<<<h, l>>, x, y, z>>
  PROVE  Body(c) \in Seq(Byte) /\ Returned(c, DecodeCommand(c, Body(c)))
  <1>1. PICK a \in Byte, b \in Byte : Write16(h) = <<a, b>> /\ ReadUint16(<<a, b>>, 0) = h
    BY CodeWord, Zenon
  <1>2. PICK d \in Byte, e \in Byte : Write16(l) = <<d, e>> /\ ReadUint16(<<d, e>>, 0) = l
    BY CodeWord, Zenon
  <1> DEFINE s == <<8, 0>>
             t == <<a, b, d, e>>
             u == <<x, y, z>>
             p == s \o t \o u
  <1>3. Body(c) = p
    <2>1. Body(c) = <<8, 0>> \o Write32(c.val[1]) \o <<c.val[2], c.val[3], c.val[4]>> BY DEF Body
    <2>2. c.val[1] = <<h, l>> /\ c.val[2] = x /\ c.val[3] = y /\ c.val[4] = z OBVIOUS
    <2>3. Write32(<<h, l>>) = Write16(h) \o Write16(l)
      <3>1. <<h, l>>[1] = h /\ <<h, l>>[2] = l OBVIOUS
      <3> QED BY <3>1, Zenon DEF Write32
    <2>4. <<a, b>> \o <<d, e>> = <<a, b, d, e>> BY TwoAndTwo
    <2> QED BY <1>1, <1>2, <2>1, <2>2, <2>3, <2>4, Zenon
  <1>4. /\ s \in Seq(Byte) /\ Len(s) = 2
        /\ t \in Seq(Byte) /\ Len(t) = 4 /\ t[1] = a /\ t[2] = b /\ t[3] = d /\ t[4] = e
        /\ u \in Seq(Byte) /\ Len(u) = 3 /\ u[1] = x /\ u[2] = y /\ u[3] = z
    BY DEF Byte
  <1>5. InThree(p, s, t, u)
    <2> HIDE DEF s, t, u
    <2> QED BY <1>4, ThreeJoined
  <1> HIDE DEF s, t, u, p
  <1>6. /\ p \in Seq(Byte) /\ Len(p) = 9 /\ p[2 + 1] = a /\ p[2 + 2] = b /\ p[4 + 1] = d /\ p[4 + 2] = e
        /\ p[6 + 1] = x /\ p[7 + 1] = y /\ p[8 + 1] = z
    <2>1. /\ p \in Seq(Byte) /\ Len(p) = 2 + 4 + 3
          /\ \A i \in 1..4 : p[2 + i] = t[i]
          /\ \A i \in 1..3 : p[2 + 4 + i] = u[i]
      BY <1>4, <1>5, Zenon DEF InThree
    <2>2. /\ 1 \in 1..4 /\ 2 \in 1..4 /\ 3 \in 1..4 /\ 4 \in 1..4 /\ 1 \in 1..3 /\ 2 \in 1..3 /\ 3 \in 1..3
          /\ 2 + 4 + 3 = 9 /\ 2 + 3 = 4 + 1 /\ 2 + 4 = 4 + 2
          /\ 2 + 4 + 1 = 6 + 1 /\ 2 + 4 + 2 = 7 + 1 /\ 2 + 4 + 3 = 8 + 1
      OBVIOUS
    <2>3. p[2 + 1] = a /\ p[2 + 2] = b /\ p[4 + 1] = d /\ p[4 + 2] = e
      BY <1>4, <2>1, <2>2, Zenon
    <2>4. p[6 + 1] = x /\ p[7 + 1] = y /\ p[8 + 1] = z
      BY <1>4, <2>1, <2>2, Zenon
    <2>5. Len(p) = 9
      BY <2>1
    <2> QED BY <2>1, <2>3, <2>4, <2>5, Zenon
  <1>7. DecodeCommand(c, p) = Decoded(c.cmd, 9, <<U32(2), U8(6), U8(7), U8(8)>>, p)
    BY EchoIs DEF TimeSync
  <1>8. Reads(<<U32(2), U8(6), U8(7), U8(8)>>, 0, 9, 4)
    BY DEF Reads, Within, Apart, U8, U32, Field, FieldSet, Kinds, Checked, Overlap
  <1>9. Value(p, U8(6)) = Kept(x, U8(6)) /\ Value(p, U8(7)) = Kept(y, U8(7)) /\ Value(p, U8(8)) = Kept(z, U8(8))
    <2>1. Value(p, U8(6)) = p[6 + 1] /\ Value(p, U8(7)) = p[7 + 1] /\ Value(p, U8(8)) = p[8 + 1] BY ValueIs
    <2>2. Kept(x, U8(6)) = x /\ Kept(y, U8(7)) = y /\ Kept(z, U8(8)) = z BY KeptIs, Zenon
    <2> QED BY <1>6, <2>1, <2>2, Zenon
  <1>10. Value(p, U32(2)) = Kept(<<h, l>>, U32(2))
    <2>1. Value(p, U32(2)) = ReadUint32(p, 2) BY ValueIs
    <2>2. ReadUint16(p, 2) = ReadUint16(<<a, b>>, 0) BY <1>6, Read16At
    <2>3. ReadUint16(p, 4) = ReadUint16(<<d, e>>, 0) BY <1>6, Read16At
    <2>4. Kept(<<h, l>>, U32(2)) = <<h, l>> BY KeptIs, Zenon
    <2>5. 2 + 2 = 4 OBVIOUS
    <2>6. ReadUint32(p, 2) = <<ReadUint16(p, 2), ReadUint16(p, 4)>> BY <2>5, Zenon DEF ReadUint32
    <2> QED BY <1>1, <1>2, <2>1, <2>2, <2>3, <2>4, <2>6, Zenon
  <1>11. Returned(c, DecodeCommand(c, p))
    <2>1. 9 \in Nat /\ Len(p) >= 9 BY <1>6
    <2> QED BY <1>6, <1>7, <1>8, <1>9, <1>10, <2>1, FourReturned
  <1> QED BY <1>3, <1>6, <1>11, Zenon

LEMMA CalDataCommand ==
  ASSUME NEW c, c.cmd = "CalDataReq", c.val \in {<<3, FactoryCal>>, <<7, PostShotDump>>}
  PROVE  Body(c) \in Seq(Byte) /\ Returned(c, DecodeCommand(c, Body(c)))
  <1>1. PICK n \in {3, 7}, p \in {FactoryCal, PostShotDump} :
          c.val = <<n, p>> /\ p \in Seq(Byte) /\ Len(p) = 10 /\ p[4] = n
    BY DEF FactoryCal, PostShotDump, Byte
  <1>2. Body(c) = p
    BY <1>1 DEF Body
  <1>3. DecodeCommand(c, p) = Decoded(c.cmd, 4, <<U8(3), Slice(0, Len(p))>>, p)
    BY DEF DecodeCommand, CalDataReq
  <1>4. Within(<<U8(3), Slice(0, 10)>>, 0, 10, 2)
    BY DEF Within, U8, Slice, Field, FieldSet, Kinds, Checked
  <1> DEFINE fields == <<U8(3), Slice(0, 10)>>
             o == DecodeCommand(c, p)
  <1>5. AllRead(o, c.cmd, fields, p, 2)
    <2>1. o = Decoded(c.cmd, 4, fields, p) BY <1>1, <1>3, Zenon
    <2>2. Len(p) >= 4 /\ 4 \in Nat BY <1>1
    <2>3. Within(fields, 0, Len(p), 2) BY <1>1, <1>4, Zenon
    <2> HIDE DEF fields, o
    <2> QED BY <1>1, <2>1, <2>2, <2>3, DecodedIs
  <1>6. Value(p, U8(3)) = n /\ Kept(n, U8(3)) = n
    <2>1. Value(p, U8(3)) = p[3 + 1] BY ValueIs
    <2>2. p[3 + 1] = n BY <1>1
    <2> QED BY <2>1, <2>2, KeptIs, Zenon
  <1>7. Value(p, Slice(0, 10)) = p /\ Kept(p, Slice(0, 10)) = p
    <2>1. Value(p, Slice(0, 10)) = SubSeq(p, 0 + 1, 0 + 10) BY ValueIs
    <2>2. SubSeq(p, 1, 10) = p
      <3>1. SubSeq(p, 1, Len(p)) = p BY <1>1
      <3> QED BY <1>1, <3>1
    <2>3. Kept(p, Slice(0, 10)) = p BY KeptIs
    <2>4. 0 + 1 = 1 /\ 0 + 10 = 10 OBVIOUS
    <2> QED BY <2>1, <2>2, <2>3, <2>4, Zenon
  <1>8. /\ fields[1] = U8(3) /\ fields[2] = Slice(0, 10) /\ c.val[1] = n /\ c.val[2] = p
        /\ DOMAIN c.val = 1..2 /\ \A i \in 1..2 : i = 1 \/ i = 2
    BY <1>1
  <1> HIDE DEF fields, o
  <1>9. \A i \in 1..2 : Value(p, fields[i]) = Kept(c.val[i], fields[i])
    BY <1>6, <1>7, <1>8, Zenon
  <1>10. Returned(c, o)
    BY <1>5, <1>8, <1>9 DEF AllRead, Returned
  <1> QED BY <1>1, <1>2, <1>10, Zenon DEF o

CamConfigFields ==
  <<NonZero(1), I16(2), I16(4), I16(6), I16(8), U8(10), U8(11), U8(12), I16(13), I16(15),
    U8(17), NonZero(18), F40(19), I16(24), I16(26), I16(28), I16(30), I16(32), NonZero(34),
    I16(35), I16(37), I16(39), I16(41), F40(43), I16(48), I16(50)>>

\* The field a member of the struct is read from.
ReadFrom(kind, f) ==
  /\ f.at \in Nat
  /\ \/ kind = "bool" /\ f = NonZero(f.at)
     \/ kind = "u8" /\ f = U8(f.at)
     \/ kind = "int16" /\ f = I16(f.at)
     \/ kind = "float40" /\ f = F40(f.at)

LEMMA EachKind ==
  ASSUME NEW at \in Nat
  PROVE  /\ ReadFrom("bool", NonZero(at)) /\ NonZero(at).at = at /\ NonZero(at).width = 1
         /\ ReadFrom("u8", U8(at)) /\ U8(at).at = at /\ U8(at).width = 1
         /\ ReadFrom("int16", I16(at)) /\ I16(at).at = at /\ I16(at).width = 2
         /\ ReadFrom("float40", F40(at)) /\ F40(at).at = at /\ F40(at).width = 5
  BY DEF ReadFrom, NonZero, U8, I16, F40, Field

\* The members lie one behind the other.
LEMMA CamConfigTable ==
  /\ \A i \in 1..26 : ReadFrom(CamConfigKinds[i], CamConfigFields[i])
  /\ \A i \in 1..25 : CamConfigFields[i + 1].at = CamConfigFields[i].at + CamConfigFields[i].width
  /\ CamConfigFields[1].at = 1 /\ CamConfigFields[26].at = 50 /\ CamConfigFields[26].width = 2
  <1> DEFINE F == CamConfigFields
             K == CamConfigKinds
  <1>1. /\ F[1] = NonZero(1) /\ F[2] = I16(2) /\ F[3] = I16(4) /\ F[4] = I16(6) /\ F[5] = I16(8)
       /\ F[6] = U8(10) /\ F[7] = U8(11) /\ F[8] = U8(12) /\ F[9] = I16(13) /\ F[10] = I16(15)
       /\ F[11] = U8(17) /\ F[12] = NonZero(18) /\ F[13] = F40(19) /\ F[14] = I16(24) /\ F[15] = I16(26)
       /\ F[16] = I16(28) /\ F[17] = I16(30) /\ F[18] = I16(32) /\ F[19] = NonZero(34) /\ F[20] = I16(35)
       /\ F[21] = I16(37) /\ F[22] = I16(39) /\ F[23] = I16(41) /\ F[24] = F40(43) /\ F[25] = I16(48)
       /\ F[26] = I16(50)
    BY DEF CamConfigFields
  <1>2. /\ K[1] = "bool" /\ K[2] = "int16" /\ K[3] = "int16" /\ K[4] = "int16" /\ K[5] = "int16" /\ K[6] = "u8"
       /\ K[7] = "u8" /\ K[8] = "u8" /\ K[9] = "int16" /\ K[10] = "int16" /\ K[11] = "u8" /\ K[12] = "bool"
       /\ K[13] = "float40" /\ K[14] = "int16" /\ K[15] = "int16" /\ K[16] = "int16" /\ K[17] = "int16"
       /\ K[18] = "int16" /\ K[19] = "bool" /\ K[20] = "int16" /\ K[21] = "int16" /\ K[22] = "int16"
       /\ K[23] = "int16" /\ K[24] = "float40" /\ K[25] = "int16" /\ K[26] = "int16"
    BY DEF CamConfigKinds
  <1> HIDE DEF F, K
  <1>3. /\ ReadFrom(K[1], F[1]) /\ ReadFrom(K[2], F[2]) /\ ReadFrom(K[3], F[3]) /\ ReadFrom(K[4], F[4])
       /\ ReadFrom(K[5], F[5]) /\ ReadFrom(K[6], F[6]) /\ ReadFrom(K[7], F[7]) /\ ReadFrom(K[8], F[8])
       /\ ReadFrom(K[9], F[9]) /\ ReadFrom(K[10], F[10]) /\ ReadFrom(K[11], F[11]) /\ ReadFrom(K[12], F[12])
       /\ ReadFrom(K[13], F[13]) /\ ReadFrom(K[14], F[14]) /\ ReadFrom(K[15], F[15]) /\ ReadFrom(K[16], F[16])
       /\ ReadFrom(K[17], F[17]) /\ ReadFrom(K[18], F[18]) /\ ReadFrom(K[19], F[19]) /\ ReadFrom(K[20], F[20])
       /\ ReadFrom(K[21], F[21]) /\ ReadFrom(K[22], F[22]) /\ ReadFrom(K[23], F[23]) /\ ReadFrom(K[24], F[24])
       /\ ReadFrom(K[25], F[25]) /\ ReadFrom(K[26], F[26])
    <2>1. \A at \in Nat : /\ ReadFrom("bool", NonZero(at)) /\ ReadFrom("u8", U8(at))
                          /\ ReadFrom("int16", I16(at)) /\ ReadFrom("float40", F40(at))
      BY EachKind
    <2> QED BY <1>1, <1>2, <2>1, SMT
  <1>4. /\ F[1].at = 1 /\ F[2].at = 2 /\ F[3].at = 4 /\ F[4].at = 6 /\ F[5].at = 8 /\ F[6].at = 10
       /\ F[7].at = 11 /\ F[8].at = 12 /\ F[9].at = 13 /\ F[10].at = 15 /\ F[11].at = 17 /\ F[12].at = 18
       /\ F[13].at = 19 /\ F[14].at = 24 /\ F[15].at = 26 /\ F[16].at = 28 /\ F[17].at = 30 /\ F[18].at = 32
       /\ F[19].at = 34 /\ F[20].at = 35 /\ F[21].at = 37 /\ F[22].at = 39 /\ F[23].at = 41 /\ F[24].at = 43
       /\ F[25].at = 48 /\ F[26].at = 50 /\ F[1].width = 1 /\ F[2].width = 2 /\ F[3].width = 2
       /\ F[4].width = 2 /\ F[5].width = 2 /\ F[6].width = 1 /\ F[7].width = 1 /\ F[8].width = 1
       /\ F[9].width = 2 /\ F[10].width = 2 /\ F[11].width = 1 /\ F[12].width = 1 /\ F[13].width = 5
       /\ F[14].width = 2 /\ F[15].width = 2 /\ F[16].width = 2 /\ F[17].width = 2 /\ F[18].width = 2
       /\ F[19].width = 1 /\ F[20].width = 2 /\ F[21].width = 2 /\ F[22].width = 2 /\ F[23].width = 2
       /\ F[24].width = 5 /\ F[25].width = 2 /\ F[26].width = 2
    BY <1>1, SMT DEF NonZero, U8, I16, F40, Field
  <1>5. \A i \in 1..26 : i = 1 \/ i = 2 \/ i = 3 \/ i = 4 \/ i = 5 \/ i = 6 \/ i = 7 \/ i = 8 \/ i = 9
                         \/ i = 10 \/ i = 11 \/ i = 12 \/ i = 13 \/ i = 14 \/ i = 15 \/ i = 16 \/ i = 17
                         \/ i = 18 \/ i = 19 \/ i = 20 \/ i = 21 \/ i = 22 \/ i = 23 \/ i = 24 \/ i = 25
                         \/ i = 26
    OBVIOUS
  <1>6. \A i \in 1..26 : ReadFrom(K[i], F[i])
    BY <1>3, <1>5, Zenon
  <1>7. \A i \in 1..25 : F[i + 1].at = F[i].at + F[i].width
    BY <1>4
  <1> QED BY <1>4, <1>6, <1>7 DEF F, K

\* A member is read as it is written.
PartRead(part, f, x) ==
  /\ part \in Seq(Byte) /\ Len(part) = f.width
  /\ \A p : (\A k \in 1..f.width : p[f.at + k] = part[k]) => Value(p, f) = Kept(x, f)

LEMMA PartIs ==
  ASSUME NEW kind, NEW x, OfKind(kind, x), NEW f, ReadFrom(kind, f)
  PROVE  PartRead(Written(kind, x), f, x)
  <1>1. PICK at \in Nat : at = f.at
    BY DEF ReadFrom
  <1>2. 1 \in 1..1 /\ 1 \in 1..2 /\ 2 \in 1..2 /\ 1 \in 1..5 /\ 2 \in 1..5 /\ 3 \in 1..5 /\ 4 \in 1..5 /\ 5 \in 1..5
    OBVIOUS
  <1>3. CASE kind = "bool"
    <2>1. f = NonZero(at) /\ f.width = 1 /\ x \in BOOLEAN
      <3>1. f = NonZero(at) BY <1>1, <1>3 DEF ReadFrom
      <3>2. x \in BOOLEAN BY <1>3 DEF OfKind
      <3> QED BY <3>1, <3>2, EachKind
    <2>2. PICK n \in Byte : n = IF x THEN 1 ELSE 0
      BY DEF Byte
    <2>3. Written(kind, x) = <<n>>
      BY <1>3, <2>2 DEF Written, Bool
    <2>4. <<n>> \in Seq(Byte) /\ Len(<<n>>) = 1 /\ <<n>>[1] = n
      OBVIOUS
    <2>5. ASSUME NEW p, \A k \in 1..1 : p[at + k] = <<n>>[k] PROVE Value(p, f) = Kept(x, f)
      <3>1. p[at + 1] = n BY <1>2, <2>4, <2>5, Zenon
      <3>2. Value(p, NonZero(at)) = x BY <2>1, <2>2, <3>1, NonZeroIs
      <3>3. Kept(x, NonZero(at)) = x BY KeptIs, Zenon
      <3> QED BY <2>1, <3>2, <3>3, Zenon
    <2> QED BY <1>1, <2>1, <2>3, <2>4, <2>5, Zenon DEF PartRead
  <1>4. CASE kind = "u8"
    <2>1. f = U8(at) /\ f.width = 1 /\ x \in Byte
      <3>1. f = U8(at) BY <1>1, <1>4 DEF ReadFrom
      <3>2. x \in Byte BY <1>4 DEF OfKind
      <3> QED BY <3>1, <3>2, EachKind
    <2>2. Written(kind, x) = <<x>>
      BY <1>4 DEF Written
    <2>3. <<x>> \in Seq(Byte) /\ Len(<<x>>) = 1 /\ <<x>>[1] = x
      BY <2>1
    <2>4. ASSUME NEW p, \A k \in 1..1 : p[at + k] = <<x>>[k] PROVE Value(p, f) = Kept(x, f)
      <3>1. p[at + 1] = x BY <1>2, <2>3, <2>4, Zenon
      <3>2. Value(p, U8(at)) = x BY <3>1, ValueIs, Zenon
      <3>3. Kept(x, U8(at)) = x BY KeptIs, Zenon
      <3> QED BY <2>1, <3>2, <3>3, Zenon
    <2> QED BY <1>1, <2>1, <2>2, <2>3, <2>4, Zenon DEF PartRead
  <1>5. CASE kind = "int16"
    <2>1. f = I16(at) /\ f.width = 2 /\ Fits16(x)
      <3>1. f = I16(at) BY <1>1, <1>5 DEF ReadFrom
      <3>2. Fits16(x) BY <1>5 DEF OfKind
      <3> QED BY <3>1, <3>2, EachKind
    <2>2. PICK a \in Byte, b \in Byte : Write16(x) = <<a, b>> /\ ReadInt16(<<a, b>>, 0) = x
      BY <2>1, Code16, Zenon
    <2>3. Written(kind, x) = <<a, b>>
      BY <1>5, <2>2 DEF Written
    <2>4. <<a, b>> \in Seq(Byte) /\ Len(<<a, b>>) = 2 /\ <<a, b>>[1] = a /\ <<a, b>>[2] = b
      OBVIOUS
    <2>5. ASSUME NEW p, \A k \in 1..2 : p[at + k] = <<a, b>>[k] PROVE Value(p, f) = Kept(x, f)
      <3>1. p[at + 1] = a /\ p[at + 2] = b BY <1>2, <2>4, <2>5, Zenon
      <3>2. ReadInt16(p, at) = ReadInt16(<<a, b>>, 0) BY <3>1, Read16At
      <3>3. Value(p, I16(at)) = x BY <2>2, <3>2, ValueIs, Zenon
      <3>4. Kept(x, I16(at)) = x BY KeptIs, Zenon
      <3> QED BY <2>1, <3>3, <3>4, Zenon
    <2> QED BY <1>1, <2>1, <2>3, <2>4, <2>5, Zenon DEF PartRead
  <1>6. CASE kind = "float40"
    <2>1. f = F40(at) /\ f.width = 5 /\ Float(x)
      <3>1. f = F40(at) BY <1>1, <1>6 DEF ReadFrom
      <3>2. Float(x) BY <1>6 DEF OfKind
      <3> QED BY <3>1, <3>2, EachKind
    <2>2. PICK a \in Byte, b \in Byte, c \in Byte, d \in Byte, e \in Byte :
            WriteFloat40(x) = <<a, b, c, d, e>> /\ ReadFloat40(<<a, b, c, d, e>>, 0) = Truncated(x)
      BY <2>1, CodeFloat, Zenon
    <2> DEFINE t == <<a, b, c, d, e>>
    <2>3. Written(kind, x) = t
      BY <1>6, <2>2 DEF Written
    <2>4. t \in Seq(Byte) /\ Len(t) = 5 /\ t[1] = a /\ t[2] = b /\ t[3] = c /\ t[4] = d /\ t[5] = e
      OBVIOUS
    <2>5. ReadFloat40(t, 0) = Truncated(x)
      BY <2>2
    <2>6. ASSUME NEW p, \A k \in 1..5 : p[at + k] = t[k] PROVE Value(p, f) = Kept(x, f)
      <3>1. p[at + 1] = a /\ p[at + 2] = b /\ p[at + 3] = c /\ p[at + 4] = d /\ p[at + 5] = e
        <4> HIDE DEF t
        <4> QED BY <1>2, <2>4, <2>6, Zenon
      <3>2. ReadFloat40(p, at) = ReadFloat40(t, 0) BY <3>1, Read40At
      <3> HIDE DEF t
      <3>3. Value(p, F40(at)) = Truncated(x) BY <2>5, <3>2, ValueIs, Zenon
      <3>4. Kept(x, F40(at)) = Truncated(x) BY KeptIs, Zenon
      <3> QED BY <2>1, <3>3, <3>4, Zenon
    <2> HIDE DEF t
    <2> QED BY <1>1, <2>1, <2>3, <2>4, <2>6, Zenon DEF PartRead
  <1> QED BY <1>3, <1>4, <1>5, <1>6 DEF ReadFrom

LEMMA CamConfigCommand ==
  ASSUME NEW c, c.cmd = "CamConfig", DOMAIN c.val = DOMAIN CamConfigKinds,
         \A i \in DOMAIN CamConfigKinds : OfKind(CamConfigKinds[i], c.val[i])
  PROVE  Body(c) \in Seq(Byte) /\ Returned(c, DecodeCommand(c, Body(c)))
  <1> DEFINE F == CamConfigFields
             K == CamConfigKinds
             val == c.val
             w == [i \in 1..26 |-> Written(K[i], val[i])]
             flat == FlattenSeq(w)
             s == <<51>>
             p == s \o flat
  <1>1. DOMAIN K = 1..26
    BY DEF CamConfigKinds
  <1>2. Body(c) = p
    <2>1. Body(c) = EncodeCamConfig(c.val) BY DEF Body
    <2>2. EncodeCamConfig(c.val) = <<51>> \o FlattenSeq([i \in DOMAIN K |-> Written(K[i], val[i])])
      BY DEF EncodeCamConfig
    <2> HIDE DEF K
    <2> QED BY <1>1, <2>1, <2>2
  <1>3. Reads(F, 0, 52, 26) /\ DecodeCommand(c, p) = Decoded(c.cmd, 52, F, p)
    <2>1. DecodeCommand(c, p) = CamConfig(p) BY EchoIs
    <2>2. CamConfig(p) = Decoded(c.cmd, 52, F, p)
      <3> HIDE DEF p
      <3> QED BY DEF CamConfig, CamConfigFields
    <2>3. Reads(F, 0, 52, 26) BY CamConfigLayout DEF CamConfigFields
    <2> QED BY <2>1, <2>2, <2>3
  <1>4. /\ \A i \in 1..26 : ReadFrom(K[i], F[i])
        /\ \A i \in 1..25 : F[i + 1].at = F[i].at + F[i].width
        /\ F[1].at = 1 /\ F[26].at = 50 /\ F[26].width = 2
    BY CamConfigTable
  <1>5. s \in Seq(Byte) /\ Len(s) = 1
    BY DEF Byte
  <1> HIDE DEF F, K, val
  <1>6. \A i \in 1..26 : PartRead(w[i], F[i], val[i])
    <2> SUFFICES ASSUME NEW i \in 1..26 PROVE PartRead(w[i], F[i], val[i])
      OBVIOUS
    <2>1. OfKind(K[i], val[i]) BY <1>1 DEF K, val
    <2>2. ReadFrom(K[i], F[i]) BY <1>4
    <2>3. PartRead(Written(K[i], val[i]), F[i], val[i]) BY <2>1, <2>2, PartIs
    <2> QED BY <2>3
  <1>7. w \in Seq(Seq(Byte)) /\ Len(w) = 26
    <2>1. \A i \in 1..26 : w[i] \in Seq(Byte) BY <1>6 DEF PartRead
    <2>2. \A i \in 1..26 : Written(K[i], val[i]) \in Seq(Byte) BY <2>1
    <2> QED BY <2>2
  <1> HIDE DEF w
  <1>8. PICK o : flat \in Seq(Byte) /\ Placed(w, flat, o)
    BY <1>7, FlattenIs, Zenon
  <1> HIDE DEF flat, s
  <1>9. /\ p \in Seq(Byte) /\ Len(p) = 1 + Len(flat)
        /\ \A i \in 1..Len(flat) : p[1 + i] = flat[i]
    <2>1. /\ s \o flat \in Seq(Byte) /\ Len(s \o flat) = Len(s) + Len(flat)
          /\ \A i \in 1..Len(flat) : (s \o flat)[Len(s) + i] = flat[i]
      BY <1>5, <1>8, Joined
    <2> QED BY <1>5, <2>1, Zenon
  <1> HIDE DEF p
  <1>10. /\ o \in [0..26 -> Nat] /\ o[0] = 0
         /\ \A i \in 1..26 : o[i] = o[i - 1] + F[i].width
         /\ Len(flat) = o[26]
         /\ \A i \in 1..26 : \A k \in 1..F[i].width : flat[o[i - 1] + k] = w[i][k]
    <2>1. \A i \in 1..26 : Len(w[i]) = F[i].width BY <1>6 DEF PartRead
    <2>2. /\ o \in [0..26 -> Nat] /\ o[0] = 0
          /\ \A i \in 1..26 : o[i] = o[i - 1] + Len(w[i])
          /\ Len(flat) = o[26]
          /\ \A i \in 1..26 : \A k \in 1..Len(w[i]) : flat[o[i - 1] + k] = w[i][k]
      BY <1>7, <1>8, Zenon DEF Placed
    <2> QED BY <2>1, <2>2, Zenon
  <1>11. \A i \in 1..26 : F[i].at \in Nat /\ F[i].width \in Nat /\ F[i].at + F[i].width <= 52
    <2>1. Within(F, 0, 52, 26) BY <1>3 DEF Reads
    <2>2. \A i \in 1..26 : F[i].width \in Nat /\ F[i].at + F[i].width <= 52
      <3>1. \A i \in 1..26 : F[i] \in FieldSet
        <4>1. F \in Seq(FieldSet) /\ Len(F) = 26 BY <2>1 DEF Within
        <4>2. \A i \in 1..Len(F) : F[i] \in FieldSet BY <4>1, ElementOfSeq
        <4> QED BY <4>1, <4>2, Zenon
      <3>2. \A i \in 1..26 : F[i].at + F[i].width <= 52 BY <2>1 DEF Within
      <3> QED BY <3>1, <3>2 DEF FieldSet
    <2> QED BY <1>4, <2>2 DEF ReadFrom
  <1>12. \A i \in 1..26 : F[i].at = 1 + o[i - 1]
    <2> DEFINE T == {j \in Nat : j + 1 <= 26 => F[j + 1].at = 1 + o[j]}
    <2>1. 0 \in T
      <3>1. 0 + 1 = 1 /\ 1 + 0 = 1 /\ 0 \in Nat OBVIOUS
      <3> QED BY <1>4, <1>10, <3>1, Zenon
    <2>2. ASSUME NEW j \in Nat, j \in T PROVE j + 1 \in T
      <3> SUFFICES ASSUME (j + 1) + 1 <= 26 PROVE F[(j + 1) + 1].at = 1 + o[j + 1]
        OBVIOUS
      <3>1. F[j + 1].at = 1 + o[j] BY <2>2
      <3>2. j + 1 \in 1..25 /\ j + 1 \in 1..26 /\ (j + 1) - 1 = j /\ j \in 0..26 /\ j + 1 \in 0..26
        OBVIOUS
      <3>3. F[(j + 1) + 1].at = F[j + 1].at + F[j + 1].width BY <1>4, <3>2, Zenon
      <3>4. o[j + 1] = o[j] + F[j + 1].width BY <1>10, <3>2, Zenon
      <3>5. o[j] \in Nat /\ F[j + 1].width \in Nat BY <1>10, <1>11, <3>2
      <3> QED BY <3>1, <3>3, <3>4, <3>5
    <2> HIDE DEF T
    <2>3. Nat \subseteq T BY <2>1, <2>2, InductionOnNat
    <2> QED
      <3> SUFFICES ASSUME NEW i \in 1..26 PROVE F[i].at = 1 + o[i - 1]
        OBVIOUS
      <3>1. i - 1 \in T BY <2>3
      <3> QED BY <3>1 DEF T
  <1>13. Len(p) = 52
    <2>1. F[26].at = 1 + o[25] /\ o[26] = o[25] + F[26].width
      <3>1. 26 \in 1..26 /\ 26 - 1 = 25 OBVIOUS
      <3> QED BY <1>10, <1>12, <3>1, Zenon
    <2>2. o[25] \in Nat
      <3>1. 25 \in 0..26 OBVIOUS
      <3> QED BY <1>10, <3>1, Zenon
    <2>3. Len(p) = 1 + o[26] BY <1>9, <1>10, Zenon
    <2>4. F[26].at = 50 /\ F[26].width = 2 BY <1>4, Zenon
    <2>5. PICK x \in Nat : x = o[25] BY <2>2
    <2>6. 50 = 1 + x /\ o[26] = x + 2 BY <2>1, <2>4, <2>5, Zenon
    <2> QED BY <2>3, <2>6, SMT
  <1>14. \A i \in 1..26 : Value(p, F[i]) = Kept(val[i], F[i])
    <2> SUFFICES ASSUME NEW i \in 1..26 PROVE Value(p, F[i]) = Kept(val[i], F[i])
      OBVIOUS
    <2>1. ASSUME NEW k \in 1..F[i].width PROVE p[F[i].at + k] = w[i][k]
      <3>1. PICK j \in Nat : j = o[i - 1] + k /\ F[i].at + k = 1 + j /\ j \in 1..51
        <4>1. o[i - 1] \in Nat
          <5>1. i - 1 \in 0..26 OBVIOUS
          <5> QED BY <1>10, <5>1, Zenon
        <4>2. F[i].at = 1 + o[i - 1] BY <1>12
        <4>3. F[i].width \in Nat /\ F[i].at + F[i].width <= 52 BY <1>11
        <4> QED BY <4>1, <4>2, <4>3
      <3>2. Len(flat) = 51
        <4>1. PICK x \in Nat : x = Len(flat) BY <1>8
        <4>2. 52 = 1 + x BY <1>9, <1>13, <4>1, Zenon
        <4>3. x = 51 BY <4>2, SMT
        <4> QED BY <4>1, <4>3
      <3>3. p[1 + j] = flat[j] BY <1>9, <3>1, <3>2, Zenon
      <3>4. flat[o[i - 1] + k] = w[i][k] BY <1>10, Zenon
      <3> QED BY <3>1, <3>3, <3>4, Zenon
    <2> QED BY <1>6, <2>1, Zenon DEF PartRead
  <1>15. AllRead(DecodeCommand(c, p), c.cmd, F, p, 26)
    <2>1. 52 \in Nat /\ 26 \in Nat /\ Len(p) >= 52 BY <1>13
    <2>2. AllRead(Decoded(c.cmd, 52, F, p), c.cmd, F, p, 26)
      BY <1>3, <1>9, <2>1, LayoutRead
    <2> QED BY <1>3, <2>2, Zenon
  <1>16. Returned(c, DecodeCommand(c, p))
    <2> DEFINE d == DecodeCommand(c, p)
    <2>1. d.msg = c.cmd /\ d.fields = F /\ d.val = [i \in 1..26 |-> Value(p, F[i])]
      BY <1>15 DEF AllRead
    <2> HIDE DEF d
    <2>2. \A i \in 1..26 : d.val[i] = Kept(val[i], d.fields[i])
      BY <1>14, <2>1
    <2>3. DOMAIN c.val = 1..26 BY <1>1 DEF K
    <2> QED BY <2>1, <2>2, <2>3, Zenon DEF Returned, d, val
  <1> QED BY <1>2, <1>9, <1>16, Zenon

-----------------------------------------------------------------------------

\* Every command.
LEMMA CommandReturned ==
  ASSUME NEW c, OfCommand(c)
  PROVE  Body(c) \in Seq(Byte) /\ Returned(c, DecodeCommand(c, Body(c)))
  <1>1. CASE c.cmd \in {"StatusPoll", "AvrConfigCmd", "NetConfigReq"} /\ \E b \in BOOLEAN : c.val = <<b>>
    BY <1>1, BoolCommand
  <1>2. CASE c.cmd \in {"ModeSet", "ParamReadReq", "ProdInfoReq", "CamState"} /\ \E n \in Byte : c.val = <<n>>
    BY <1>2, NumberCommand
  <1>3. CASE c.cmd = "ParamValue(INT24)" /\ c.val = <<c.val[1], c.val[2]>> /\ c.val[1] \in Byte /\ Fits24(c.val[2])
    BY <1>3, Int24Command
  <1>4. CASE c.cmd = "ParamValue(FLOAT40)" /\ c.val = <<c.val[1], c.val[2]>> /\ c.val[1] \in Byte /\ Float(c.val[2])
    BY <1>4, Float40Command
  <1>5. CASE c.cmd = "RadarCal" /\ c.val = <<c.val[1], c.val[2]>> /\ FitsU16(c.val[1]) /\ c.val[2] \in Byte
    BY <1>5, RadarCalCommand
  <1>6. CASE c.cmd = "CalDataReq" /\ c.val \in {<<3, FactoryCal>>, <<7, PostShotDump>>}
    BY <1>6, CalDataCommand
  <1>7. CASE /\ c.cmd = "TimeSync" /\ c.val = <<<<c.val[1][1], c.val[1][2]>>, c.val[2], c.val[3], c.val[4]>>
             /\ FitsU16(c.val[1][1]) /\ FitsU16(c.val[1][2])
             /\ c.val[2] \in Byte /\ c.val[3] \in Byte /\ c.val[4] \in Byte
    BY <1>7, TimeSyncCommand
  <1>8. CASE /\ c.cmd = "CamConfig" /\ DOMAIN c.val = DOMAIN CamConfigKinds
             /\ \A i \in DOMAIN CamConfigKinds : OfKind(CamConfigKinds[i], c.val[i])
    BY <1>8, CamConfigCommand, Zenon
  <1> QED BY <1>1, <1>2, <1>3, <1>4, <1>5, <1>6, <1>7, <1>8, Zenon DEF OfCommand

\* What the client's commands hold is decoded or refused, too.
LEMMA CommandSound ==
  ASSUME NEW c, OfCommand(c)
  PROVE  Sound(DecodeCommand(c, Body(c)))
  <1>1. PICK p \in Seq(Byte) : p = Body(c)
    BY CommandReturned
  <1>2. CASE c.cmd = "StatusPoll"
    BY <1>1, <1>2, StatusPollSound DEF DecodeCommand
  <1>3. CASE c.cmd = "AvrConfigCmd"
    BY <1>1, <1>3, ModeSetSound DEF DecodeCommand
  <1>4. CASE c.cmd = "NetConfigReq"
    BY <1>1, <1>4, HandshakeSound DEF DecodeCommand
  <1>5. CASE c.cmd = "ModeSet"
    <2>1. Sound(ModeSet(p)) BY ModeSetSound
    <2> QED BY <1>1, <1>5, <2>1, EchoIs
  <1>6. CASE c.cmd = "ParamReadReq"
    BY <1>1, <1>6, ModeSetSound DEF DecodeCommand
  <1>7. CASE c.cmd = "ProdInfoReq"
    BY <1>1, <1>7, HandshakeSound DEF DecodeCommand
  <1>8. CASE c.cmd = "CamState"
    <2>1. Sound(CamState(p)) BY CamStateSound
    <2> QED BY <1>1, <1>8, <2>1, EchoIs
  <1>9. CASE c.cmd \in {"ParamValue(INT24)", "ParamValue(FLOAT40)"}
    <2>1. Sound(ParamValue(p)) BY ParamValueSound
    <2> QED BY <1>1, <1>9, <2>1, EchoIs
  <1>10. CASE c.cmd = "RadarCal"
    <2>1. Sound(RadarCal(p)) BY RadarCalSound
    <2> QED BY <1>1, <1>10, <2>1, EchoIs
  <1>11. CASE c.cmd = "CalDataReq"
    BY <1>1, <1>11, CalDataReqSound DEF DecodeCommand
  <1>12. CASE c.cmd = "TimeSync"
    <2>1. Sound(TimeSync(p)) BY HandshakeSound
    <2> QED BY <1>1, <1>12, <2>1, EchoIs
  <1>13. CASE c.cmd = "CamConfig"
    <2>1. Sound(CamConfig(p)) BY CamConfigSound DEF SoundWith
    <2> QED BY <1>1, <1>13, <2>1, EchoIs
  <1> QED
    BY <1>2, <1>3, <1>4, <1>5, <1>6, <1>7, <1>8, <1>9, <1>10, <1>11, <1>12, <1>13 DEF OfCommand

-----------------------------------------------------------------------------
(* The four properties.                                                    *)

\* The result is what decode() makes of the payload in hand.
Explained ==
  \/ Idle /\ result = Outcome("none")
  \/ frame \in Frames /\ sent = NoCommand /\ result = DecodeMessage(frame)
  \/ frame = NoFrame /\ sent \in Commands /\ result = DecodeCommand(sent, Body(sent))

LEMMA ResultExplained == Spec => []Explained
  <1>1. Init => Explained
    BY DEF Init, Explained
  <1>2. Explained /\ [Next]_vars => Explained'
    <2> SUFFICES ASSUME Explained, [Next]_vars PROVE Explained'
      OBVIOUS
    <2>1. CASE Receive
      BY <2>1 DEF Receive, Explained, Idle
    <2>2. CASE Send
      BY <2>2 DEF Send, Explained, Idle
    <2>3. CASE Forget
      BY <2>3 DEF Forget, Explained, Idle
    <2>4. CASE UNCHANGED vars
      BY <2>4 DEF vars, Explained, Idle
    <2> QED BY <2>1, <2>2, <2>3, <2>4 DEF Next
  <1> QED BY <1>1, <1>2, PTL DEF Spec

LEMMA ResultSound == Explained => Sound(result)
  <1>1. CASE Idle /\ result = Outcome("none")
    BY <1>1 DEF Outcome, Sound, Once
  <1>2. CASE frame \in Frames /\ result = DecodeMessage(frame)
    BY <1>2, PayloadsAssumption, MessageSound DEF PayloadsAssumption
  <1>3. CASE sent \in Commands /\ result = DecodeCommand(sent, Body(sent))
    BY <1>3, PayloadsAssumption, CommandSound DEF PayloadsAssumption
  <1> QED BY <1>1, <1>2, <1>3 DEF Explained

\* No payload, however short and whatever it claims to hold, makes a decode()
\* index behind its end.
THEOREM NoPayloadPanics == Spec => []NeverPanics
  <1>1. Explained => NeverPanics
    BY ResultSound DEF Sound, NeverPanics
  <1> QED BY <1>1, ResultExplained, PTL

\* No decode() reads a byte into two of its fields, other than byte 10 of the
\* AVR status.
THEOREM NoByteReadTwice == Spec => []ReadsOnce
  <1>1. Explained => ReadsOnce
    BY ResultSound DEF Sound, Once, ReadsOnce
  <1> QED BY <1>1, ResultExplained, PTL

\* A payload of a documented length is decoded with all of its fields, slots,
\* samples and records, for any number of them.
THEOREM DocumentedDecoded == Spec => []DocumentedIsDecoded
  <1>1. Documented(NoFrame) = 0
    BY DEF Documented, NoFrame
  <1>2. ASSUME Explained PROVE DocumentedIsDecoded
    <2>1. CASE frame = NoFrame
      BY <1>1, <2>1 DEF DocumentedIsDecoded
    <2>2. CASE frame \in Frames /\ result = DecodeMessage(frame)
      BY <2>2, PayloadsAssumption, DocumentedRead DEF PayloadsAssumption, DocumentedIsDecoded
    <2> QED BY <1>2, <2>1, <2>2 DEF Explained, Idle
  <1> QED BY <1>2, ResultExplained, PTL

\* Whatever a command holds, decode() gives it back from what encode() wrote.
THEOREM CommandsRoundTrip == Spec => []RoundTrip
  <1>1. ASSUME Explained PROVE RoundTrip
    <2>1. CASE sent = NoCommand
      BY <2>1 DEF RoundTrip
    <2>2. CASE sent \in Commands /\ result = DecodeCommand(sent, Body(sent))
      <3>1. Returned(sent, result)
        BY <2>2, PayloadsAssumption, CommandReturned DEF PayloadsAssumption
      <3> QED BY <3>1 DEF Returned, RoundTrip
    <2> QED BY <1>1, <2>1, <2>2 DEF Explained, Idle
  <1> QED BY <1>1, ResultExplained, PTL

=============================================================================
