----------------------------- MODULE FrameCodec -----------------------------
(***************************************************************************)
(* RawFrame of src/frame.rs: a frame on the wire is                        *)
(*   START, stuffed DEST SRC TYPE PAYLOAD, stuffed checksum, END           *)
(* where the checksum is the sum of the stuffed bytes before it.           *)
(***************************************************************************)
EXTENDS Integers, Sequences, SequencesExt

START == 240
END == 241
ESC == 253
Byte == 0..255

\* Bytes that are escaped: code c stands for Special[c].
Special == <<START, END, ESC, 250>>

BusBytes == {16, 18, 48, 64}
RawFrames == [dest: BusBytes, src: BusBytes, type: Byte, payload: Seq(Byte)]

\* Faulty variant: the end marker is sent as it is.
EscapedButEnd(b) ==
  IF \E c \in {1, 3, 4} : Special[c] = b
  THEN <<ESC, CHOOSE c \in {1, 3, 4} : Special[c] = b>>
  ELSE <<b>>
Escaped(b) ==
  IF \E c \in DOMAIN Special : Special[c] = b
  THEN <<ESC, CHOOSE c \in DOMAIN Special : Special[c] = b>>
  ELSE <<b>>

StuffBytes(data) == FlattenSeq([i \in DOMAIN data |-> Escaped(data[i])])

\* The sums of the first bytes; a u16, which wraps in a release build.
SumTo(bytes) ==
  LET sum[i \in 0..Len(bytes)] == IF i = 0 THEN 0 ELSE sum[i - 1] + bytes[i]
  IN sum
Checksum(bytes) == SumTo(bytes)[Len(bytes)] % 65536

Encode(f) ==
  LET data == StuffBytes(<<f.dest, f.src, f.type>> \o f.payload)
      cs == Checksum(data)
  IN <<START>> \o data \o StuffBytes(<<cs \div 256, cs % 256>>) \o <<END>>

-----------------------------------------------------------------------------
(* RawFrame::parse.                                                        *)

Error(name) == [error |-> name]

\* Unstuffing reads left to right and keeps with each byte the offset of its
\* first wire byte; esc is set behind an ESC, bad from a wrong code on.
UnstuffStep(s, acc, i) ==
  CASE acc.bad -> acc
    [] ~acc.bad /\ acc.esc /\ s[i] \in 1..4 ->
         [acc EXCEPT !.esc = FALSE, !.out = Append(@, [b |-> Special[s[i]], at |-> i - 1])]
    [] ~acc.bad /\ acc.esc /\ s[i] \notin 1..4 -> [acc EXCEPT !.bad = TRUE]
    [] ~acc.bad /\ ~acc.esc /\ s[i] = ESC -> [acc EXCEPT !.esc = TRUE]
    [] OTHER -> [acc EXCEPT !.out = Append(@, [b |-> s[i], at |-> i])]

UnstuffedTo(s) ==
  LET upTo[i \in 0..Len(s)] ==
        IF i = 0 THEN [out |-> <<>>, esc |-> FALSE, bad |-> FALSE]
        ELSE UnstuffStep(s, upTo[i - 1], i)
  IN upTo
Unstuffed(s) == UnstuffedTo(s)[Len(s)]

\* The sum of the wire bytes in front of the checksum.
ComputedSum(interior, bytes) ==
  Checksum(SubSeq(interior, 1, bytes[Len(bytes) - 1].at - 1))

ParseInterior(interior, bytes) ==
  LET n == Len(bytes) IN
  CASE n < 5 -> Error("FrameTooShort")
    [] n >= 5 /\ bytes[n - 1].b * 256 + bytes[n].b # ComputedSum(interior, bytes) ->
         Error("ChecksumMismatch")
    [] n >= 5 /\ bytes[n - 1].b * 256 + bytes[n].b = ComputedSum(interior, bytes) ->
         IF {bytes[1].b, bytes[2].b} \subseteq BusBytes
         THEN [dest |-> bytes[1].b, src |-> bytes[2].b, type |-> bytes[3].b,
               payload |-> [i \in 1..(n - 5) |-> bytes[i + 3].b]]
         ELSE Error("UnknownBusAddr")

Parse(wire) ==
  IF Len(wire) < 7 THEN Error("FrameTooShort")
  ELSE IF Head(wire) # START THEN Error("MissingStart")
  ELSE IF Last(wire) # END THEN Error("MissingEnd")
  ELSE LET interior == SubSeq(wire, 2, Len(wire) - 1)
           u == Unstuffed(interior)
       IN IF u.bad \/ u.esc THEN Error("InvalidEscape") ELSE ParseInterior(interior, u.out)

=============================================================================
