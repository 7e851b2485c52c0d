-------------------------- MODULE FrameLinkProofs ---------------------------
(***************************************************************************)
(* The splitter, the codec and the link of src/frame.rs: however a stream  *)
(* is cut, the frames returned are framed and they are those of the stream;*)
(* what encode() writes parse() takes back; so the frames of a device reach*)
(* a client that connects anywhere in its stream.                          *)
(***************************************************************************)
EXTENDS FrameLink, SequenceLemmas

\* StartPos is the place of the first start marker of the buffer, or 0.
LEMMA StartPosIs ==
  ASSUME buf \in Seq(Byte)
  PROVE  /\ StartPos \in 0..Len(buf)
         /\ StartPos # 0 => buf[StartPos] = START
  <1> DEFINE I == {i \in 1..Len(buf) : IsStart(buf[i])}
  <1>1. StartPos = IF I # {} THEN Min(I) ELSE 0
    BY DEF StartPos, SelectInSeq
  <1>2. I \in SUBSET Nat /\ Len(buf) \in Nat
    OBVIOUS
  <1>3. I # {} => Min(I) \in I
    BY <1>2, MinIs
  <1> QED BY <1>1, <1>2, <1>3 DEF IsStart

\* StartPos is the first start marker: none comes before it, and none at all
\* when it is 0.
LEMMA StartPosIsFirst ==
  ASSUME buf \in Seq(Byte)
  PROVE  /\ StartPos = 0 => \A i \in 1..Len(buf) : buf[i] # START
         /\ \A i \in 1..(StartPos - 1) : buf[i] # START
  <1> DEFINE I == {i \in 1..Len(buf) : IsStart(buf[i])}
  <1>1. StartPos = IF I # {} THEN Min(I) ELSE 0
    BY DEF StartPos, SelectInSeq
  <1>2. I \in SUBSET Nat /\ Len(buf) \in Nat /\ 0 \notin I
    OBVIOUS
  <1>3. I # {} => Min(I) \in I /\ \A y \in I : Min(I) <= y
    BY <1>2, MinIs
  <1>4. StartPos = 0 => I = {}
    BY <1>1, <1>2, <1>3
  <1>5. ASSUME NEW i \in 1..(StartPos - 1) PROVE buf[i] # START
    <2>1. StartPos \in 0..Len(buf) BY StartPosIs
    <2>2. I # {} /\ StartPos \in Nat BY <1>1, <2>1
    <2>3. i \in 1..Len(buf) /\ i < StartPos BY <2>1
    <2>4. \A y \in I : StartPos <= y BY <1>1, <1>3, <2>2
    <2>5. i \notin I BY <2>2, <2>3, <2>4
    <2> QED BY <2>3, <2>5 DEF IsStart
  <1> QED BY <1>4, <1>5 DEF IsStart

\* EndPos is the place of the first end marker behind StartPos, or 0.
LEMMA EndPosIs ==
  ASSUME buf \in Seq(Byte)
  PROVE  /\ EndPos = 0 => \A i \in (StartPos + 1)..Len(buf) : buf[i] # END
         /\ EndPos # 0 => /\ EndPos \in (StartPos + 1)..Len(buf)
                          /\ buf[EndPos] = END
                          /\ \A i \in (StartPos + 1)..(EndPos - 1) : buf[i] # END
  <1> DEFINE I == {i \in (StartPos + 1)..Len(buf) : IsEnd(buf[i])}
  <1>1. EndPos = IF I # {} THEN Min(I) ELSE 0
    BY DEF EndPos, SelectInSubSeq
  <1>2. StartPos \in Nat /\ Len(buf) \in Nat
    BY StartPosIs
  <1>3. I \in SUBSET Nat /\ 0 \notin I
    BY <1>2
  <1>4. I # {} => Min(I) \in I /\ \A y \in I : Min(I) <= y
    BY <1>3, MinIs
  <1>5. CASE I = {}
    BY <1>1, <1>2, <1>5 DEF IsEnd
  <1>6. CASE I # {}
    <2>1. EndPos \in I /\ \A y \in I : EndPos <= y
      BY <1>1, <1>4, <1>6
    <2>2. ASSUME NEW i \in (StartPos + 1)..(EndPos - 1) PROVE buf[i] # END
      <3>1. i \in (StartPos + 1)..Len(buf) /\ i < EndPos
        BY <1>2, <2>1
      <3>2. i \notin I BY <1>2, <2>1, <3>1
      <3> QED BY <3>1, <3>2 DEF IsEnd
    <2> QED BY <1>2, <1>3, <2>1, <2>2 DEF IsEnd
  <1> QED BY <1>5, <1>6

\* A frame cut off between the two markers is framed.
LEMMA CutIsFramed ==
  ASSUME NEW s \in Seq(Byte), NEW i \in 1..Len(s), NEW j \in (i + 1)..Len(s),
         s[i] = START, s[j] = END,
         \A k \in (i + 1)..(j - 1) : s[k] # END
  PROVE  LET f == SubSeq(s, i, j) IN
         /\ f \in Seq(Byte)
         /\ Len(f) >= 2 /\ f[1] = START /\ f[Len(f)] = END
         /\ \A k \in 1..(Len(f) - 1) : f[k] # END
  <1> DEFINE f == SubSeq(s, i, j)
  <1>1. /\ f \in Seq(Byte) /\ Len(f) = j - i + 1
        /\ \A k \in 1..(j - i + 1) : f[k] = s[i + k - 1]
    BY SubSeqProperties
  <1>2. ASSUME NEW k \in 1..(Len(f) - 1) PROVE f[k] # END
    <2>1. CASE k = 1
      BY <1>1, <2>1 DEF START, END
    <2>2. CASE k # 1
      BY <1>1, <2>2
    <2> QED BY <2>1, <2>2
  <1> HIDE DEF f
  <1>3. Len(f) >= 2 /\ f[1] = START /\ f[Len(f)] = END
    BY <1>1
  <1> QED BY <1>1, <1>2, <1>3 DEF f

Inv == TypeOK /\ BufferIsOpenFrame /\ FramesAreFramed

LEMMA InvInit == Init => Inv
  BY StreamsAssumption DEF Init, Inv, TypeOK, BufferIsOpenFrame, FramesAreFramed

LEMMA FeedKeeps ==
  ASSUME Inv, Feed
  PROVE  Inv'
  <1> USE DEF Inv, Feed
  <1>1. PICK n \in 1..(Len(stream) - read) :
          /\ buf' = buf \o SubSeq(stream, read + 1, read + n)
          /\ read' = read + n
    OBVIOUS
  <1>2. SubSeq(stream, read + 1, read + n) \in Seq(Byte)
    BY SubSeqProperties DEF TypeOK
  <1>3. TypeOK'
    BY <1>1, <1>2, ConcatProperties DEF TypeOK
  <1> QED BY <1>3 DEF BufferIsOpenFrame, FramesAreFramed

LEMMA NoFrameKeeps ==
  ASSUME Inv, NoFrame
  PROVE  Inv'
  BY DEF Inv, NoFrame, TypeOK, BufferIsOpenFrame, FramesAreFramed

LEMMA IncompleteFrameKeeps ==
  ASSUME Inv, IncompleteFrame
  PROVE  Inv'
  <1> USE DEF Inv, IncompleteFrame
  <1> DEFINE n == Len(buf)
  <1>1. buf \in Seq(Byte) /\ n \in Nat /\ StartPos \in 1..n /\ buf[StartPos] = START
    BY StartPosIs DEF TypeOK
  <1>2. \A i \in (StartPos + 1)..n : buf[i] # END
    BY <1>1, EndPosIs
  <1>3. /\ buf' \in Seq(Byte) /\ Len(buf') = n - StartPos + 1
        /\ \A k \in 1..(n - StartPos + 1) : buf'[k] = buf[StartPos + k - 1]
    BY <1>1, SubSeqProperties
  <1>4. buf'[1] = START
    BY <1>1, <1>3
  <1>5. ASSUME NEW k \in DOMAIN buf' PROVE buf'[k] # END
    <2>1. k \in 1..(n - StartPos + 1) BY <1>3
    <2>2. CASE k = 1
      <3>1. START # END BY DEF START, END
      <3>2. buf'[k] = START
        <4> HIDE DEF Inv, IncompleteFrame
        <4> QED BY <1>4, <2>2
      <3> QED BY <3>1, <3>2
    <2>3. CASE k # 1
      BY <1>1, <1>2, <1>3, <2>1, <2>3
    <2> QED BY <2>2, <2>3
  <1>6. TypeOK'
    BY <1>3 DEF TypeOK
  <1>7. BufferIsOpenFrame'
    BY <1>4, <1>5 DEF BufferIsOpenFrame
  <1> QED BY <1>6, <1>7 DEF FramesAreFramed

LEMMA CompleteFrameKeeps ==
  ASSUME Inv, CompleteFrame
  PROVE  Inv'
  <1> USE DEF Inv, CompleteFrame
  <1> DEFINE f == SubSeq(buf, StartPos, EndPos)
  <1>1. buf \in Seq(Byte) /\ Len(buf) \in Nat /\ StartPos \in 1..Len(buf) /\ buf[StartPos] = START
    BY StartPosIs DEF TypeOK
  <1>2. /\ EndPos \in (StartPos + 1)..Len(buf) /\ buf[EndPos] = END
        /\ \A i \in (StartPos + 1)..(EndPos - 1) : buf[i] # END
    BY <1>1, EndPosIs
  <1>3. /\ f \in Seq(Byte)
        /\ Len(f) >= 2 /\ f[1] = START /\ f[Len(f)] = END
        /\ \A k \in 1..(Len(f) - 1) : f[k] # END
    BY <1>1, <1>2, CutIsFramed
  <1>4. buf' \in Seq(Byte)
    BY <1>1, <1>2, SubSeqProperties
  <1> HIDE DEF f
  <1>5. frames' = Append(frames, f)
    BY DEF f
  <1>6. /\ frames' \in Seq(Seq(Byte)) /\ Len(frames') = Len(frames) + 1
        /\ frames'[Len(frames) + 1] = f
        /\ \A m \in 1..Len(frames) : frames'[m] = frames[m]
    BY <1>3, <1>5, AppendProperties DEF TypeOK
  <1>7. TypeOK'
    BY <1>4, <1>6 DEF TypeOK
  <1>8. FramesAreFramed'
    <2> SUFFICES ASSUME NEW m \in DOMAIN frames'
                 PROVE  /\ Len(frames'[m]) >= 2 /\ frames'[m][1] = START
                        /\ frames'[m][Len(frames'[m])] = END
                        /\ \A i \in 1..(Len(frames'[m]) - 1) : frames'[m][i] # END
      BY DEF FramesAreFramed
    <2>1. m \in 1..(Len(frames) + 1) /\ Len(frames) \in Nat /\ DOMAIN frames = 1..Len(frames)
      BY <1>6 DEF TypeOK
    <2>2. CASE m = Len(frames) + 1
      BY <1>3, <1>6, <2>2
    <2>3. CASE m # Len(frames) + 1
      <3>1. m \in DOMAIN frames /\ frames'[m] = frames[m]
        BY <1>6, <2>1, <2>3
      <3> QED BY <3>1 DEF FramesAreFramed
    <2> QED BY <2>2, <2>3
  <1> QED BY <1>7, <1>8 DEF BufferIsOpenFrame

LEMMA InvNext == Inv /\ [Next]_splitterVars => Inv'
  <1> SUFFICES ASSUME Inv, [Next]_splitterVars PROVE Inv'
    OBVIOUS
  <1>1. CASE Feed            BY <1>1, FeedKeeps
  <1>2. CASE NoFrame         BY <1>2, NoFrameKeeps
  <1>3. CASE IncompleteFrame BY <1>3, IncompleteFrameKeeps
  <1>4. CASE CompleteFrame   BY <1>4, CompleteFrameKeeps
  <1>5. CASE UNCHANGED splitterVars
    BY <1>5 DEF Inv, TypeOK, BufferIsOpenFrame, FramesAreFramed, splitterVars
  <1> QED BY <1>1, <1>2, <1>3, <1>4, <1>5 DEF Next, Split

LEMMA InvHolds == Spec => []Inv
  BY InvInit, InvNext, PTL DEF Spec

\* What feed() leaves in the buffer between two calls is one open frame and
\* nothing that could have been returned.
THEOREM KeepsOpenFrame == Spec => []BufferIsOpenFrame
  <1>1. Inv => BufferIsOpenFrame BY DEF Inv
  <1> QED BY InvHolds, <1>1, PTL

\* Each frame feed() returns has a marker at both ends and no end marker
\* inside: parse() never fails with MissingStart or MissingEnd on one.
THEOREM ReturnsFramed == Spec => []FramesAreFramed
  <1>1. Inv => FramesAreFramed BY DEF Inv
  <1> QED BY InvHolds, <1>1, PTL

-----------------------------------------------------------------------------
(* Spans of a stream up to a position at which no frame is open.           *)

ClosedAt(s, c) == \A k \in 1..c : s[k] = START => \E m \in k..c : s[m] = END
SpansTo(s, c) == {q \in Spans(s) : q[2] <= c}

\* fs are the frames that end at c or before, in order.
FramesTo(fs, s, c) ==
  \E p \in [DOMAIN fs -> SpansTo(s, c)] :
    /\ \A n \in DOMAIN fs : fs[n] = SubSeq(s, p[n][1], p[n][2])
    /\ \A m, n \in DOMAIN fs : m < n => p[m][2] < p[n][1]
    /\ \A q \in SpansTo(s, c) : \E n \in DOMAIN fs : p[n] = q

LEMMA SpanTyped ==
  ASSUME NEW s \in Seq(Byte), NEW q \in Spans(s)
  PROVE  /\ q = <<q[1], q[2]>>
         /\ q[1] \in 1..Len(s) /\ q[2] \in 1..Len(s) /\ q[1] < q[2]
         /\ s[q[1]] = START /\ s[q[2]] = END
         /\ \A k \in q[1]..(q[2] - 1) : s[k] # END
         /\ \A k \in 1..(q[1] - 1) : s[k] = START => \E m \in k..(q[1] - 1) : s[m] = END
  BY DEF Spans, IsSpan

\* A span that ends behind a position where none is open begins behind it.
LEMMA SpanBegins ==
  ASSUME NEW s \in Seq(Byte), NEW c \in 0..Len(s), ClosedAt(s, c),
         NEW q \in Spans(s), q[2] > c
  PROVE  q[1] > c
  <1>1. /\ q[1] \in 1..Len(s) /\ q[2] \in 1..Len(s) /\ q[1] < q[2]
        /\ s[q[1]] = START
        /\ \A k \in q[1]..(q[2] - 1) : s[k] # END
    BY SpanTyped
  <1>2. ASSUME q[1] <= c PROVE FALSE
    <2>1. PICK m \in q[1]..c : s[m] = END
      BY <1>1, <1>2 DEF ClosedAt
    <2>2. m \in q[1]..(q[2] - 1) BY <1>1, <2>1
    <2> QED BY <1>1, <2>1, <2>2
  <1> QED BY <1>1, <1>2

\* Bytes without a start marker hold no span.
LEMMA NoStartNoSpan ==
  ASSUME NEW s \in Seq(Byte), NEW c \in 0..Len(s), NEW d \in c..Len(s), ClosedAt(s, c),
         \A k \in (c + 1)..d : s[k] # START
  PROVE  ClosedAt(s, d) /\ SpansTo(s, d) = SpansTo(s, c)
  <1>1. ASSUME NEW k \in 1..d, s[k] = START PROVE \E m \in k..d : s[m] = END
    <2>1. k \in 1..c BY <1>1
    <2>2. PICK m \in k..c : s[m] = END BY <1>1, <2>1 DEF ClosedAt
    <2> QED BY <2>2
  <1>2. ASSUME NEW q \in Spans(s), q[2] <= d PROVE q[2] <= c
    <2>1. q[1] \in 1..Len(s) /\ q[2] \in 1..Len(s) /\ q[1] < q[2] /\ s[q[1]] = START
      BY SpanTyped
    <2>2. q[2] > c => q[1] > c BY SpanBegins
    <2> QED BY <1>2, <2>1, <2>2
  <1>3. ASSUME NEW q \in Spans(s), q[2] <= c PROVE q[2] <= d
    <2>1. q[2] \in 1..Len(s) BY SpanTyped
    <2> QED BY <1>3, <2>1
  <1>4. ClosedAt(s, d) BY <1>1 DEF ClosedAt
  <1> QED BY <1>2, <1>3, <1>4 DEF SpansTo

\* Neither do bytes without an end marker end one.
LEMMA NoEndNoSpan ==
  ASSUME NEW s \in Seq(Byte), NEW c \in 0..Len(s), NEW d \in c..Len(s),
         \A k \in (c + 1)..d : s[k] # END
  PROVE  SpansTo(s, d) = SpansTo(s, c)
  <1>1. ASSUME NEW q \in Spans(s) PROVE q[2] <= d <=> q[2] <= c
    <2>1. q[2] \in 1..Len(s) /\ s[q[2]] = END BY SpanTyped
    <2> QED BY <2>1
  <1> QED BY <1>1 DEF SpansTo

\* The first start marker and the next end marker are one more span.
LEMMA OneMoreSpan ==
  ASSUME NEW s \in Seq(Byte), NEW c \in 0..Len(s), ClosedAt(s, c),
         NEW i \in (c + 1)..Len(s), NEW j \in (i + 1)..Len(s),
         s[i] = START, s[j] = END,
         \A k \in (c + 1)..(i - 1) : s[k] # START,
         \A k \in (i + 1)..(j - 1) : s[k] # END
  PROVE  ClosedAt(s, j) /\ SpansTo(s, j) = SpansTo(s, c) \cup {<<i, j>>}
  <1>1. ASSUME NEW k \in 1..j, s[k] = START PROVE \E m \in k..j : s[m] = END
    BY <1>1
  <1>2. <<i, j>> \in Spans(s)
    <2>1. \A k \in i..(j - 1) : s[k] # END
      <3>1. START # END BY DEF START, END
      <3> QED BY <3>1
    <2>2. ASSUME NEW k \in 1..(i - 1), s[k] = START PROVE \E m \in k..(i - 1) : s[m] = END
      <3>1. k \in 1..c BY <2>2
      <3>2. PICK m \in k..c : s[m] = END BY <2>2, <3>1 DEF ClosedAt
      <3> QED BY <3>2
    <2>3. IsSpan(s, i, j) BY <2>1, <2>2 DEF IsSpan
    <2> QED BY <2>3 DEF Spans
  <1>3. ASSUME NEW q \in Spans(s), q[2] <= j, q[2] > c PROVE q = <<i, j>>
    <2>1. /\ q = <<q[1], q[2]>>
          /\ q[1] \in 1..Len(s) /\ q[2] \in 1..Len(s) /\ q[1] < q[2]
          /\ s[q[1]] = START /\ s[q[2]] = END
          /\ \A k \in q[1]..(q[2] - 1) : s[k] # END
          /\ \A k \in 1..(q[1] - 1) : s[k] = START => \E m \in k..(q[1] - 1) : s[m] = END
      BY SpanTyped
    <2>2. q[1] > c BY <1>3, SpanBegins
    <2>3. q[1] >= i BY <2>1, <2>2
    <2>4. ASSUME q[1] > i PROVE FALSE
      <3>1. i \in 1..(q[1] - 1) BY <2>1, <2>4
      <3>2. PICK m \in i..(q[1] - 1) : s[m] = END BY <2>1, <3>1
      <3>3. m # i
        <4>1. START # END BY DEF START, END
        <4> QED BY <3>2, <4>1
      <3>4. m \in (i + 1)..(j - 1) BY <1>3, <2>1, <3>2, <3>3
      <3> QED BY <3>2, <3>4
    <2>5. q[1] = i BY <2>1, <2>3, <2>4
    <2>6. q[2] = j
      <3>1. q[2] \in (i + 1)..j BY <1>3, <2>1, <2>5
      <3>2. q[2] \notin (i + 1)..(j - 1) BY <2>1
      <3> QED BY <3>1, <3>2
    <2> QED BY <2>1, <2>5, <2>6
  <1>4. ASSUME NEW q \in Spans(s) PROVE q[2] <= j <=> (q[2] <= c \/ q = <<i, j>>)
    <2>1. q[2] \in 1..Len(s) BY SpanTyped
    <2>2. q = <<i, j>> => q[2] = j OBVIOUS
    <2> QED BY <1>3, <2>1, <2>2
  <1>5. ClosedAt(s, j) BY <1>1 DEF ClosedAt
  <1>6. SpansTo(s, j) = SpansTo(s, c) \cup {<<i, j>>}
    BY <1>2, <1>4 DEF SpansTo
  <1> QED BY <1>5, <1>6

\* The list of the frames grows by the one of that span.
LEMMA OneMoreFrame ==
  ASSUME NEW s \in Seq(Byte), NEW c \in 0..Len(s),
         NEW i \in (c + 1)..Len(s), NEW j \in (i + 1)..Len(s),
         SpansTo(s, j) = SpansTo(s, c) \cup {<<i, j>>},
         NEW fs \in Seq(Seq(Byte)), FramesTo(fs, s, c)
  PROVE  FramesTo(Append(fs, SubSeq(s, i, j)), s, j)
  <1> DEFINE n == Len(fs)
             f == SubSeq(s, i, j)
             gs == Append(fs, f)
             P == SpansTo(s, c)
             Q == SpansTo(s, j)
  <1>1. PICK p \in [DOMAIN fs -> P] :
          /\ \A m \in DOMAIN fs : fs[m] = SubSeq(s, p[m][1], p[m][2])
          /\ \A l, m \in DOMAIN fs : l < m => p[l][2] < p[m][1]
          /\ \A q \in P : \E m \in DOMAIN fs : p[m] = q
    BY DEF FramesTo
  <1> DEFINE r == [m \in 1..(n + 1) |-> IF m = n + 1 THEN <<i, j>> ELSE p[m]]
  <1>2. f \in Seq(Byte)
    BY SubSeqProperties
  <1>3. /\ n \in Nat /\ DOMAIN fs = 1..n /\ DOMAIN gs = 1..(n + 1)
        /\ gs[n + 1] = f /\ \A m \in 1..n : gs[m] = fs[m]
    BY <1>2, AppendProperties
  <1>4. ASSUME NEW m \in 1..n
        PROVE  p[m] \in P /\ p[m][2] \in Nat /\ p[m][2] <= c /\ r[m] = p[m]
    <2>1. p[m] \in P BY <1>1, <1>3
    <2>2. p[m] \in Spans(s) /\ p[m][2] <= c BY <2>1 DEF SpansTo
    <2>3. p[m][2] \in 1..Len(s) BY <2>2, SpanTyped
    <2>4. m # n + 1 /\ m \in 1..(n + 1) BY <1>3
    <2> QED BY <2>1, <2>2, <2>3, <2>4
  <1>5. r[n + 1] = <<i, j>> /\ <<i, j>>[1] = i /\ <<i, j>>[2] = j /\ <<i, j>> \in Q /\ P \subseteq Q
    BY <1>3
  <1>6. r \in [1..(n + 1) -> Q]
    <2> HIDE DEF P, Q, n
    <2>1. \A m \in 1..(n + 1) : (IF m = n + 1 THEN <<i, j>> ELSE p[m]) \in Q
      <3> SUFFICES ASSUME NEW m \in 1..(n + 1)
                   PROVE (IF m = n + 1 THEN <<i, j>> ELSE p[m]) \in Q
        OBVIOUS
      <3>1. CASE m = n + 1 BY <1>5, <3>1
      <3>2. CASE m # n + 1
        <4>1. n \in Nat BY <1>3
        <4>2. m \in 1..n BY <3>2, <4>1
        <4>3. p[m] \in Q BY <1>4, <1>5, <4>2
        <4> QED BY <3>2, <4>3
      <3> QED BY <3>1, <3>2
    <2> QED BY <2>1
  <1> HIDE DEF r, gs, f, P, Q, n
  <1>7. ASSUME NEW m \in 1..(n + 1) PROVE gs[m] = SubSeq(s, r[m][1], r[m][2])
    <2>1. CASE m = n + 1 BY <1>3, <1>5, <2>1 DEF f
    <2>2. CASE m # n + 1
      <3>1. m \in 1..n BY <1>3, <2>2
      <3> QED BY <1>1, <1>3, <1>4, <3>1
    <2> QED BY <2>1, <2>2
  <1>8. ASSUME NEW l \in 1..(n + 1), NEW m \in 1..(n + 1), l < m PROVE r[l][2] < r[m][1]
    <2>1. l \in 1..n BY <1>3, <1>8
    <2>2. CASE m = n + 1 BY <1>4, <1>5, <2>1, <2>2
    <2>3. CASE m # n + 1
      <3>1. m \in 1..n BY <1>3, <2>3
      <3> QED BY <1>1, <1>3, <1>4, <1>8, <2>1, <3>1
    <2> QED BY <2>2, <2>3
  <1>9. ASSUME NEW q \in Q PROVE \E m \in 1..(n + 1) : r[m] = q
    <2>1. CASE q = <<i, j>>
      <3>1. n + 1 \in 1..(n + 1) BY <1>3
      <3> QED BY <1>5, <2>1, <3>1
    <2>2. CASE q # <<i, j>>
      <3>1. q \in P BY <2>2 DEF P, Q
      <3>2. PICK m \in 1..n : p[m] = q BY <1>1, <1>3, <3>1
      <3>3. m \in 1..(n + 1) /\ r[m] = q BY <1>3, <1>4, <3>2
      <3> QED BY <3>3
    <2> QED BY <2>1, <2>2
  <1>10. FramesTo(gs, s, j)
    <2>1. r \in [DOMAIN gs -> SpansTo(s, j)] BY <1>3, <1>6 DEF Q
    <2>2. \A m \in DOMAIN gs : gs[m] = SubSeq(s, r[m][1], r[m][2]) BY <1>3, <1>7
    <2>3. \A l, m \in DOMAIN gs : l < m => r[l][2] < r[m][1] BY <1>3, <1>8
    <2>4. \A q \in SpansTo(s, j) : \E m \in DOMAIN gs : r[m] = q BY <1>3, <1>9 DEF Q
    <2> QED BY <2>1, <2>2, <2>3, <2>4, Zenon DEF FramesTo
  <1> QED BY <1>10 DEF gs, f

\* The frames of a prefix are those that end in it.
LEMMA FramesOfPrefix ==
  ASSUME NEW s \in Seq(Byte), NEW d \in 0..Len(s),
         NEW fs \in Seq(Seq(Byte)), FramesTo(fs, s, d)
  PROVE  AreFramesOf(fs, SubSeq(s, 1, d))
  <1> DEFINE w == SubSeq(s, 1, d)
  <1>1. /\ w \in Seq(Byte) /\ Len(w) = d /\ \A k \in 1..d : w[k] = s[k]
    BY SubSeqProperties
  <1> HIDE DEF w
  <1>2. \A i, j \in 1..d : IsSpan(w, i, j) <=> IsSpan(s, i, j)
    <2> SUFFICES ASSUME NEW i \in 1..d, NEW j \in 1..d PROVE IsSpan(w, i, j) <=> IsSpan(s, i, j)
      OBVIOUS
    <2>1. \A k \in 1..(i - 1) : \A m \in k..(i - 1) : w[m] = s[m] BY <1>1
    <2>2. \A k \in 1..(i - 1) : w[k] = s[k] BY <1>1
    <2>3. \A k \in i..(j - 1) : w[k] = s[k] BY <1>1
    <2>4. w[i] = s[i] /\ w[j] = s[j] BY <1>1
    <2> QED BY <2>1, <2>2, <2>3, <2>4 DEF IsSpan
  <1>3. Spans(w) = SpansTo(s, d)
    <2>1. ASSUME NEW q \in Spans(w) PROVE q \in SpansTo(s, d)
      <3>1. q \in (1..d) \X (1..d) /\ IsSpan(w, q[1], q[2]) BY <1>1 DEF Spans
      <3>2. q[1] \in 1..d /\ q[2] \in 1..d BY <3>1
      <3>3. IsSpan(s, q[1], q[2]) BY <1>2, <3>1, <3>2
      <3>4. q \in (DOMAIN s) \X (DOMAIN s) BY <3>1
      <3> QED BY <3>2, <3>3, <3>4 DEF Spans, SpansTo
    <2>2. ASSUME NEW q \in SpansTo(s, d) PROVE q \in Spans(w)
      <3>1. q \in Spans(s) /\ q[2] <= d BY DEF SpansTo
      <3>2. q = <<q[1], q[2]>> /\ q[1] \in 1..d /\ q[2] \in 1..d BY <3>1, SpanTyped
      <3>3. IsSpan(s, q[1], q[2]) BY <3>1 DEF Spans
      <3>4. IsSpan(w, q[1], q[2]) BY <1>2, <3>2, <3>3
      <3>5. q \in (DOMAIN w) \X (DOMAIN w) BY <1>1, <3>2
      <3> QED BY <3>4, <3>5 DEF Spans
    <2> QED BY <2>1, <2>2
  <1>4. PICK p \in [DOMAIN fs -> SpansTo(s, d)] :
          /\ \A n \in DOMAIN fs : fs[n] = SubSeq(s, p[n][1], p[n][2])
          /\ \A m, n \in DOMAIN fs : m < n => p[m][2] < p[n][1]
          /\ \A q \in SpansTo(s, d) : \E n \in DOMAIN fs : p[n] = q
    BY DEF FramesTo
  <1>5. ASSUME NEW n \in DOMAIN fs PROVE fs[n] = SubSeq(w, p[n][1], p[n][2])
    <2>1. p[n] \in SpansTo(s, d) BY <1>4
    <2>2. p[n] \in Spans(s) /\ p[n][2] <= d BY <2>1 DEF SpansTo
    <2>3. p[n][1] \in 1..Len(s) /\ p[n][2] \in 1..d /\ p[n][1] < p[n][2] BY <2>2, SpanTyped
    <2> DEFINE i == p[n][1]
               j == p[n][2]
    <2>4. i \in 1..d /\ j \in 1..d /\ i <= j BY <2>3
    <2>5. SubSeq(s, i, j) = SubSeq(w, i, j)
      <3> HIDE DEF i, j
      <3> DEFINE x == SubSeq(s, i, j)
                 y == SubSeq(w, i, j)
      <3>1. /\ i \in 1..Len(s) /\ j \in 1..Len(s) /\ i \in 1..Len(w) /\ j \in 1..Len(w)
            /\ w \in Seq(Byte) /\ j - i + 1 \in Nat /\ i \in Int /\ j \in Int
        BY <1>1, <2>4
      <3>. /\ \A k \in i..j : s[k] \in Byte
           /\ \A k \in i..j : w[k] \in Byte
        BY <3>1
      <3>2. /\ x \in Seq(Byte) /\ Len(x) = j - i + 1
            /\ \A k \in 1..(j - i + 1) : x[k] = s[i + k - 1]
        BY <2>4, <3>1, SubSeqProperties
      <3>3. /\ y \in Seq(Byte) /\ Len(y) = j - i + 1
            /\ \A k \in 1..(j - i + 1) : y[k] = w[i + k - 1]
        BY <2>4, <3>1, SubSeqProperties
      <3>4. \A k \in 1..(j - i + 1) : s[i + k - 1] = w[i + k - 1]
        <4>1. \A k \in 1..(j - i + 1) : i + k - 1 \in 1..d BY <2>4
        <4> QED BY <1>1, <4>1
      <3> HIDE DEF x, y
      <3>5. x = y BY <3>2, <3>3, <3>4, SeqEqual
      <3> QED BY <3>5 DEF x, y
    <2> QED BY <1>4, <2>5
  <1> QED BY <1>3, <1>4, <1>5 DEF AreFramesOf, w

-----------------------------------------------------------------------------
(* What has been cut off the buffer is what comes before it in the stream. *)
(* No frame is open where the buffer begins, and the frames returned are   *)
(* those that end before it.                                               *)

Cut == read - Len(buf)

Tracks ==
  /\ Cut \in 0..read
  /\ \A i \in 1..Len(buf) : buf[i] = stream[Cut + i]
  /\ ClosedAt(stream, Cut)
  /\ FramesTo(frames, stream, Cut)

LEMMA InvTyped ==
  ASSUME Inv
  PROVE  /\ stream \in Seq(Byte) /\ Len(stream) \in Nat /\ read \in 0..Len(stream)
         /\ buf \in Seq(Byte) /\ Len(buf) \in Nat
         /\ frames \in Seq(Seq(Byte))
  BY DEF Inv, TypeOK

LEMMA InitTracks == Init => Tracks
  <1> SUFFICES ASSUME Init PROVE Tracks
    OBVIOUS
  <1>1. stream \in Seq(Byte) /\ read = 0 /\ buf = <<>> /\ frames = <<>>
    BY StreamsAssumption DEF Init
  <1>2. Cut = 0 /\ Len(buf) = 0
    <2>1. Len(buf) = 0 BY <1>1
    <2>2. 0 - 0 = 0 OBVIOUS
    <2> QED BY <1>1, <2>1, <2>2 DEF Cut
  <1>3. ClosedAt(stream, 0)
    BY DEF ClosedAt
  <1>4. SpansTo(stream, 0) = {}
    <2>1. ASSUME NEW q \in Spans(stream) PROVE ~(q[2] <= 0)
      <3>1. q[2] \in 1..Len(stream) BY <1>1, SpanTyped
      <3> QED BY <3>1
    <2> QED BY <2>1 DEF SpansTo
  <1>5. FramesTo(frames, stream, 0)
    <2> DEFINE p == [n \in {} |-> <<0, 0>>]
    <2>1. DOMAIN frames = {} BY <1>1
    <2>2. p \in [DOMAIN frames -> SpansTo(stream, 0)] BY <1>4, <2>1
    <2> HIDE DEF p
    <2>3. /\ \A n \in DOMAIN frames : frames[n] = SubSeq(stream, p[n][1], p[n][2])
          /\ \A m, n \in DOMAIN frames : m < n => p[m][2] < p[n][1]
          /\ \A q \in SpansTo(stream, 0) : \E n \in DOMAIN frames : p[n] = q
      BY <1>4, <2>1
    <2> QED BY <2>2, <2>3 DEF FramesTo
  <1> QED BY <1>1, <1>2, <1>3, <1>5 DEF Tracks

\* Bytes that are read come behind those in the buffer.
LEMMA FeedTracks ==
  ASSUME Inv, Tracks, Feed
  PROVE  Tracks'
  <1>1. PICK n \in 1..(Len(stream) - read) :
          /\ buf' = buf \o SubSeq(stream, read + 1, read + n)
          /\ read' = read + n
    BY DEF Feed
  <1> DEFINE t == SubSeq(stream, read + 1, read + n)
             b == Len(buf)
  <1>2. /\ stream \in Seq(Byte) /\ Len(stream) \in Nat /\ read \in 0..Len(stream)
        /\ buf \in Seq(Byte) /\ b \in Nat
    BY InvTyped
  <1>3. t \in Seq(Byte) /\ Len(t) = n /\ \A k \in 1..n : t[k] = stream[read + k]
    <2>1. /\ t \in Seq(Byte) /\ Len(t) = (read + n) - (read + 1) + 1
          /\ \A k \in 1..((read + n) - (read + 1) + 1) : t[k] = stream[(read + 1) + k - 1]
      BY <1>2, SubSeqProperties
    <2>2. (read + n) - (read + 1) + 1 = n BY <1>2
    <2>3. \A k \in 1..n : (read + 1) + k - 1 = read + k BY <1>2
    <2> HIDE DEF t
    <2> QED BY <2>1, <2>2, <2>3
  <1> HIDE DEF t
  <1>4. /\ Len(buf') = b + n
        /\ \A k \in 1..(b + n) : buf'[k] = IF k <= b THEN buf[k] ELSE t[k - b]
    BY <1>1, <1>2, <1>3, ConcatProperties DEF t
  <1>5. Cut' = Cut /\ Cut = read - b
    BY <1>1, <1>2, <1>4 DEF Cut
  <1>6. Cut' \in 0..read'
    BY <1>1, <1>2, <1>5 DEF Tracks
  <1>7. ASSUME NEW i \in 1..Len(buf') PROVE buf'[i] = stream[Cut + i]
    <2>1. CASE i <= b
      <3>1. i \in 1..b /\ i \in 1..(b + n) BY <1>2, <1>4, <2>1
      <3> QED BY <1>4, <2>1, <3>1 DEF Tracks
    <2>2. CASE i > b
      <3>1. i \in 1..(b + n) /\ i - b \in 1..n /\ read + (i - b) = Cut + i
        BY <1>2, <1>4, <1>5, <2>2
      <3>2. buf'[i] = t[i - b] BY <1>2, <1>4, <2>2, <3>1
      <3> QED BY <1>3, <3>1, <3>2
    <2> QED BY <1>2, <1>4, <2>1, <2>2
  <1>8. stream' = stream /\ frames' = frames
    BY DEF Feed
  <1> QED BY <1>5, <1>6, <1>7, <1>8 DEF Tracks

\* The head of the buffer, up to n, is cut off: it holds no start marker.
LEMMA DropTracks ==
  ASSUME Inv, Tracks, NEW n \in 0..Len(buf),
         \A i \in 1..n : buf[i] # START,
         buf' = SubSeq(buf, n + 1, Len(buf)),
         UNCHANGED <<stream, read, frames>>
  PROVE  Tracks'
  <1> DEFINE b == Len(buf)
             c == Cut
  <1>1. /\ stream \in Seq(Byte) /\ Len(stream) \in Nat /\ read \in 0..Len(stream)
        /\ buf \in Seq(Byte) /\ b \in Nat
    BY InvTyped
  <1>2. /\ c = read - b /\ c \in 0..Len(stream) /\ c + n \in c..Len(stream) /\ c + n <= read
        /\ \A i \in 1..b : buf[i] = stream[c + i]
        /\ ClosedAt(stream, c) /\ FramesTo(frames, stream, c)
    BY <1>1 DEF Tracks, Cut
  <1>3. Len(buf') = b - n /\ \A i \in 1..(b - n) : buf'[i] = buf[n + i]
    <2>1. /\ Len(buf') = IF n + 1 <= b THEN b - (n + 1) + 1 ELSE 0
          /\ \A i \in 1..(b - (n + 1) + 1) : buf'[i] = buf[(n + 1) + i - 1]
      BY <1>1, SubSeqProperties
    <2>2. (IF n + 1 <= b THEN b - (n + 1) + 1 ELSE 0) = b - n /\ b - (n + 1) + 1 = b - n
      BY <1>1
    <2>3. \A i \in 1..(b - n) : (n + 1) + i - 1 = n + i BY <1>1
    <2> QED BY <2>1, <2>2, <2>3
  <1> HIDE DEF b, c
  <1>4. Cut' = c + n
    <2>1. Cut' = read - (b - n) BY <1>3 DEF Cut
    <2>2. read - (b - n) = (read - b) + n BY <1>1
    <2> QED BY <1>2, <2>1, <2>2
  <1>5. ASSUME NEW k \in (c + 1)..(c + n) PROVE stream[k] # START
    <2>1. k - c \in 1..n /\ k - c \in 1..b /\ c + (k - c) = k BY <1>1, <1>2 DEF b
    <2> QED BY <1>2, <2>1
  <1>6. ClosedAt(stream, c + n) /\ SpansTo(stream, c + n) = SpansTo(stream, c)
    BY <1>1, <1>2, <1>5, NoStartNoSpan
  <1>7. FramesTo(frames, stream, c + n)
    BY <1>2, <1>6 DEF FramesTo
  <1>8. ASSUME NEW i \in 1..Len(buf') PROVE buf'[i] = stream[(c + n) + i]
    <2>1. i \in 1..(b - n) /\ n + i \in 1..b /\ c + (n + i) = (c + n) + i
      BY <1>1, <1>2, <1>3
    <2> QED BY <1>2, <1>3, <2>1
  <1>9. c + n \in 0..read
    BY <1>1, <1>2
  <1> QED BY <1>4, <1>6, <1>7, <1>8, <1>9 DEF Tracks

LEMMA NoFrameTracks ==
  ASSUME Inv, Tracks, NoFrame
  PROVE  Tracks'
  <1>1. buf \in Seq(Byte) /\ Len(buf) \in Nat /\ StartPos = 0 /\ buf' = <<>>
    BY InvTyped DEF NoFrame
  <1>2. \A i \in 1..Len(buf) : buf[i] # START
    BY <1>1, StartPosIsFirst
  <1>3. SubSeq(buf, Len(buf) + 1, Len(buf)) = <<>> /\ Len(buf) \in 0..Len(buf)
    BY <1>1, SubSeqProperties
  <1>4. UNCHANGED <<stream, read, frames>>
    BY DEF NoFrame
  <1> QED BY <1>1, <1>2, <1>3, <1>4, DropTracks

LEMMA IncompleteFrameTracks ==
  ASSUME Inv, Tracks, IncompleteFrame
  PROVE  Tracks'
  <1>1. buf \in Seq(Byte) /\ Len(buf) \in Nat /\ StartPos \in 1..Len(buf)
    BY InvTyped, StartPosIs DEF IncompleteFrame
  <1>2. \A i \in 1..(StartPos - 1) : buf[i] # START
    BY <1>1, StartPosIsFirst
  <1>3. buf' = SubSeq(buf, (StartPos - 1) + 1, Len(buf)) /\ UNCHANGED <<stream, read, frames>>
    <2>1. (StartPos - 1) + 1 = StartPos BY <1>1
    <2> QED BY <2>1 DEF IncompleteFrame
  <1>4. StartPos - 1 \in 0..Len(buf)
    BY <1>1
  <1> QED BY <1>2, <1>3, <1>4, DropTracks

LEMMA CompleteFrameTracks ==
  ASSUME Inv, Tracks, CompleteFrame
  PROVE  Tracks'
  <1> DEFINE b == Len(buf)
             c == Cut
             i == c + StartPos
             j == c + EndPos
  <1>1. /\ stream \in Seq(Byte) /\ Len(stream) \in Nat /\ read \in 0..Len(stream)
        /\ buf \in Seq(Byte) /\ b \in Nat /\ frames \in Seq(Seq(Byte))
    BY InvTyped
  <1>2. /\ c = read - b /\ c \in 0..Len(stream)
        /\ \A k \in 1..b : buf[k] = stream[c + k]
        /\ ClosedAt(stream, c) /\ FramesTo(frames, stream, c)
    BY <1>1 DEF Tracks, Cut
  <1>3. /\ StartPos \in 1..b /\ buf[StartPos] = START
        /\ \A k \in 1..(StartPos - 1) : buf[k] # START
    BY <1>1, StartPosIs, StartPosIsFirst DEF CompleteFrame
  <1>4. /\ EndPos \in (StartPos + 1)..b /\ buf[EndPos] = END
        /\ \A k \in (StartPos + 1)..(EndPos - 1) : buf[k] # END
    BY <1>1, <1>3, EndPosIs DEF CompleteFrame
  <1>5. /\ UNCHANGED <<stream, read>>
        /\ frames' = Append(frames, SubSeq(buf, StartPos, EndPos))
        /\ buf' = SubSeq(buf, EndPos + 1, b)
    BY DEF CompleteFrame
  <1>6. Len(buf') = b - EndPos /\ \A k \in 1..(b - EndPos) : buf'[k] = buf[EndPos + k]
    <2>1. /\ Len(buf') = IF EndPos + 1 <= b THEN b - (EndPos + 1) + 1 ELSE 0
          /\ \A k \in 1..(b - (EndPos + 1) + 1) : buf'[k] = buf[(EndPos + 1) + k - 1]
      BY <1>1, <1>3, <1>4, <1>5, SubSeqProperties
    <2>2. /\ (IF EndPos + 1 <= b THEN b - (EndPos + 1) + 1 ELSE 0) = b - EndPos
          /\ b - (EndPos + 1) + 1 = b - EndPos
      BY <1>1, <1>3, <1>4
    <2>3. \A k \in 1..(b - EndPos) : (EndPos + 1) + k - 1 = EndPos + k BY <1>1, <1>3, <1>4
    <2> QED BY <2>1, <2>2, <2>3
  <1> HIDE DEF b, c
  <1>7. /\ i \in (c + 1)..Len(stream) /\ j \in (i + 1)..Len(stream)
        /\ stream[i] = START /\ stream[j] = END
    BY <1>1, <1>2, <1>3, <1>4
  <1>8. /\ \A k \in (c + 1)..(i - 1) : stream[k] # START
        /\ \A k \in (i + 1)..(j - 1) : stream[k] # END
    <2>1. ASSUME NEW k \in (c + 1)..(i - 1) PROVE stream[k] # START
      <3>1. k - c \in 1..(StartPos - 1) /\ k - c \in 1..b /\ c + (k - c) = k
        BY <1>1, <1>2, <1>3
      <3> QED BY <1>2, <1>3, <3>1
    <2>2. ASSUME NEW k \in (i + 1)..(j - 1) PROVE stream[k] # END
      <3>1. k - c \in (StartPos + 1)..(EndPos - 1) /\ k - c \in 1..b /\ c + (k - c) = k
        BY <1>1, <1>2, <1>3, <1>4
      <3> QED BY <1>2, <1>4, <3>1
    <2> QED BY <2>1, <2>2
  <1>9. SubSeq(buf, StartPos, EndPos) = SubSeq(stream, i, j)
    <2> DEFINE sp == StartPos
               ep == EndPos
               n == ep - sp + 1
    <2>1. sp \in 1..b /\ ep \in (sp + 1)..b BY <1>3, <1>4
    <2>2. i = c + sp /\ j = c + ep OBVIOUS
    <2> HIDE DEF sp, ep, i, j
    <2> SUFFICES SubSeq(buf, sp, ep) = SubSeq(stream, i, j)
      BY DEF sp, ep
    <2> DEFINE x == SubSeq(buf, sp, ep)
               y == SubSeq(stream, i, j)
    <2>3. /\ x \in Seq(Byte) /\ Len(x) = n
          /\ \A k \in 1..n : x[k] = buf[sp + k - 1]
      BY <1>1, <2>1, SubSeqProperties DEF b
    <2>4. /\ n = j - i + 1 /\ n \in Nat /\ i \in 1..Len(stream) /\ j \in (i + 1)..Len(stream)
      BY <1>1, <1>2, <1>7, <2>1, <2>2
    <2>5. /\ y \in Seq(Byte) /\ Len(y) = j - i + 1
          /\ \A k \in 1..(j - i + 1) : y[k] = stream[i + k - 1]
      BY <1>1, <2>4, SubSeqProperties
    <2>6. ASSUME NEW k \in 1..n PROVE buf[sp + k - 1] = stream[i + k - 1]
      <3>1. sp + k - 1 \in 1..b /\ c + (sp + k - 1) = i + k - 1
        BY <1>1, <1>2, <2>1, <2>2
      <3> QED BY <1>2, <3>1
    <2> HIDE DEF x, y, n
    <2>7. x = y BY <2>3, <2>4, <2>5, <2>6, SeqEqual
    <2> QED BY <2>7 DEF x, y
  <1> HIDE DEF i, j
  <1>10. ClosedAt(stream, j) /\ SpansTo(stream, j) = SpansTo(stream, c) \cup {<<i, j>>}
    <2>1. c \in 0..Len(stream) /\ ClosedAt(stream, c) BY <1>2
    <2> QED BY <1>1, <1>7, <1>8, <2>1, OneMoreSpan
  <1>11. FramesTo(frames', stream, j)
    BY <1>1, <1>2, <1>5, <1>7, <1>9, <1>10, OneMoreFrame
  <1>12. Cut' = j /\ j \in 0..read
    BY <1>1, <1>2, <1>3, <1>4, <1>5, <1>6 DEF Cut, j
  <1>13. ASSUME NEW k \in 1..Len(buf') PROVE buf'[k] = stream[j + k]
    <2>1. k \in 1..(b - EndPos) /\ EndPos + k \in 1..b /\ c + (EndPos + k) = j + k
      BY <1>1, <1>2, <1>3, <1>4, <1>6 DEF j
    <2> QED BY <1>2, <1>6, <2>1
  <1> QED BY <1>5, <1>10, <1>11, <1>12, <1>13 DEF Tracks

\* Between two calls no frame is open in what has been read.
LEMMA IdleFrames ==
  ASSUME Inv, Tracks, pc = "idle"
  PROVE  FramesTo(frames, stream, read)
  <1>1. /\ stream \in Seq(Byte) /\ Len(stream) \in Nat /\ read \in 0..Len(stream)
        /\ buf \in Seq(Byte) /\ Len(buf) \in Nat /\ frames \in Seq(Seq(Byte))
    BY InvTyped
  <1>2. /\ Cut = read - Len(buf) /\ Cut \in 0..Len(stream) /\ read \in Cut..Len(stream)
        /\ \A i \in 1..Len(buf) : buf[i] = stream[Cut + i]
    BY <1>1 DEF Tracks, Cut
  <1>3. ASSUME NEW k \in (Cut + 1)..read PROVE stream[k] # END
    <2>1. k - Cut \in 1..Len(buf) /\ Cut + (k - Cut) = k BY <1>1, <1>2
    <2>2. buf # <<>> BY <1>1, <2>1
    <2>3. buf[k - Cut] # END BY <1>1, <2>1, <2>2 DEF Inv, BufferIsOpenFrame
    <2> QED BY <1>2, <2>1, <2>3
  <1>4. SpansTo(stream, read) = SpansTo(stream, Cut)
    BY <1>1, <1>2, <1>3, NoEndNoSpan
  <1> QED BY <1>4 DEF Tracks, FramesTo

LEMMA TracksNext == Inv /\ Tracks /\ [Next]_splitterVars => Tracks'
  <1> SUFFICES ASSUME Inv, Tracks, [Next]_splitterVars PROVE Tracks'
    OBVIOUS
  <1>1. CASE Feed BY <1>1, FeedTracks
  <1>2. CASE NoFrame BY <1>2, NoFrameTracks
  <1>3. CASE IncompleteFrame BY <1>3, IncompleteFrameTracks
  <1>4. CASE CompleteFrame BY <1>4, CompleteFrameTracks
  <1>5. CASE UNCHANGED splitterVars BY <1>5 DEF splitterVars, Tracks, Cut
  <1> QED BY <1>1, <1>2, <1>3, <1>4, <1>5 DEF Next, Split

\* However the stream is cut into segments, the frames returned so far are
\* those of all bytes fed so far, in order: none is missing, none is late,
\* none is made up, and bytes outside frames only disappear.
THEOREM SplitsLikeTheWhole == Spec => []SplitsLikeWhole
  <1>1. Inv /\ Tracks => SplitsLikeWhole
    <2> SUFFICES ASSUME Inv, Tracks, pc = "idle"
                 PROVE  AreFramesOf(frames, SubSeq(stream, 1, read))
      BY DEF SplitsLikeWhole
    <2>1. stream \in Seq(Byte) /\ read \in 0..Len(stream) /\ frames \in Seq(Seq(Byte))
      BY InvTyped
    <2> QED BY <2>1, IdleFrames, FramesOfPrefix
  <1> QED BY <1>1, InitTracks, TracksNext, InvHolds, PTL DEF Spec

-----------------------------------------------------------------------------
(* The checksum.                                                           *)

\* The sums of the bytes are numbers.
LEMMA SumToIs ==
  ASSUME NEW s \in Seq(Byte)
  PROVE  \A i \in 0..Len(s) : SumTo(s)[i] \in Int
  <1> DEFINE S == Int
             n == Len(s)
             step == [i \in 1..n |-> [w \in S |-> w + s[i]]]
             Body(f) == [i \in 0..n |-> IF i = 0 THEN 0 ELSE f[i - 1] + s[i]]
  <1>1. n \in Nat /\ \A i \in 1..n : s[i] \in Int
    <2>1. \A i \in 1..Len(s) : s[i] \in Byte OBVIOUS
    <2>2. Byte \subseteq Int BY DEF Byte
    <2>3. Len(s) \in Nat OBVIOUS
    <2> QED BY <2>1, <2>2, <2>3
  <1>2. step \in [1..n -> [S -> S]]
    BY <1>1
  <1>3. PICK f \in [0..n -> S] : f[0] = 0 /\ \A i \in 1..n : f[i] = step[i][f[i - 1]]
    <2> DEFINE a == 0
    <2>1. n \in Nat /\ a \in S /\ step \in [1..n -> [S -> S]] BY <1>1, <1>2
    <2> HIDE DEF S, step, n, a, Body
    <2>2. \E f \in [0..n -> S] : f[0] = a /\ \A i \in 1..n : f[i] = step[i][f[i - 1]]
      BY <2>1, RecursionOnNat, SMTT(60)
    <2> QED BY <2>2 DEF a
  <1>4. f = Body(f)
    <2>1. ASSUME NEW i \in 0..n PROVE f[i] = Body(f)[i]
      <3>1. CASE i = 0 BY <1>3, <3>1
      <3>2. CASE i # 0
        <4>1. i \in 1..n /\ i - 1 \in 0..n BY <1>1, <3>2
        <4>2. f[i] = step[i][f[i - 1]] BY <1>3, <4>1
        <4> QED BY <4>1, <4>2, <3>2
      <3> QED BY <3>1, <3>2
    <2>2. f = [i \in 0..n |-> f[i]] BY <1>3
    <2> QED BY <2>1, <2>2
  <1>5. SumTo(s) = CHOOSE g : g = Body(g)
    BY DEF SumTo
  <1> DEFINE u == SumTo(s)
  <1>6. u = Body(u)
    <2> HIDE DEF Body
    <2> QED BY <1>4, <1>5
  <1>7. u[0] = 0 /\ \A i \in 1..n : u[i] = u[i - 1] + s[i]
    <2> HIDE DEF u
    <2>1. \A i \in 0..n : u[i] = Body(u)[i] BY <1>6
    <2> QED BY <1>1, <2>1
  <1> DEFINE T == {i \in Nat : i <= n => u[i] \in Int}
  <1> HIDE DEF u
  <1>8. 0 \in T BY <1>7
  <1>9. ASSUME NEW i \in Nat, i \in T PROVE i + 1 \in T
    <2> SUFFICES ASSUME i + 1 <= n PROVE u[i + 1] \in Int
      OBVIOUS
    <2>1. i + 1 \in 1..n /\ (i + 1) - 1 = i /\ u[i] \in Int BY <1>1, <1>9
    <2>2. u[i + 1] = u[i] + s[i + 1] BY <1>7, <2>1
    <2> QED BY <1>1, <2>1, <2>2
  <1>10. Nat \subseteq T
    <2> HIDE DEF T
    <2> QED BY <1>8, <1>9, InductionOnNat
  <1> QED BY <1>1, <1>10 DEF u

LEMMA ChecksumIs ==
  ASSUME NEW s \in Seq(Byte)
  PROVE  Checksum(s) \in Int /\ 0 <= Checksum(s) /\ Checksum(s) <= 65535
  <1>1. SumTo(s)[Len(s)] \in Int
    <2>1. Len(s) \in 0..Len(s) OBVIOUS
    <2> QED BY <2>1, SumToIs
  <1> DEFINE x == SumTo(s)[Len(s)]
  <1> HIDE DEF x
  <1> DEFINE m == x % 65536
  <1>2. x \in Int BY <1>1 DEF x
  <1>3. m \in Int /\ 0 <= m /\ m <= 65535 BY <1>2
  <1>4. Checksum(s) = m BY DEF Checksum, x
  <1> HIDE DEF m
  <1> QED BY <1>3, <1>4

\* The two bytes of a checksum.
LEMMA ChecksumBytes ==
  ASSUME NEW c \in Int, 0 <= c, c <= 65535
  PROVE  /\ c \div 256 \in Byte /\ c % 256 \in Byte
         /\ ((c \div 256) * 256) + (c % 256) = c
  <1>. DEFINE q == c \div 256
              r == c % 256
  <1>1. c \div 256 \in Int /\ c % 256 \in Int /\ 0 <= c % 256 /\ c % 256 <= 255
    BY SMT
  <1>2. c = (256 * (c \div 256)) + (c % 256)
    BY SMT
  <1>3. q \in Int /\ r \in Int /\ 0 <= r /\ r <= 255 /\ c = (256 * q) + r
    BY <1>1, <1>2
  <1>. HIDE DEF q, r
  <1>4. 0 <= q /\ q <= 255 BY <1>3, SMT
  <1>5. q \in Byte /\ r \in Byte BY <1>3, <1>4, SMT DEF Byte
  <1>6. (q * 256) + r = c BY <1>3, SMT
  <1> QED BY <1>5, <1>6 DEF q, r

-----------------------------------------------------------------------------
(* Stuffing.                                                               *)

LEMMA EscapedIs ==
  ASSUME NEW b \in Byte
  PROVE  \/ b \notin {START, END, ESC} /\ Escaped(b) = <<b>>
         \/ \E c \in 1..4 : Escaped(b) = <<ESC, c>> /\ Special[c] = b
  <1> DEFINE C == {c \in 1..4 : Special[c] = b}
  <1>1. DOMAIN Special = 1..4 /\ Special[1] = START /\ Special[2] = END /\ Special[3] = ESC
    BY DEF Special
  <1>2. CASE C = {}
    <2>1. ~ \E c \in DOMAIN Special : Special[c] = b BY <1>1, <1>2
    <2>2. Escaped(b) = <<b>> BY <2>1 DEF Escaped
    <2>3. b \notin {START, END, ESC} BY <1>1, <2>1
    <2> QED BY <2>2, <2>3
  <1>3. CASE C # {}
    <2>1. \E c \in DOMAIN Special : Special[c] = b BY <1>1, <1>3
    <2>2. PICK c : c = CHOOSE x \in DOMAIN Special : Special[x] = b OBVIOUS
    <2>3. c \in DOMAIN Special /\ Special[c] = b BY <2>1, <2>2
    <2>4. Escaped(b) = <<ESC, c>> BY <2>1, <2>2 DEF Escaped
    <2> QED BY <1>1, <2>3, <2>4
  <1> QED BY <1>2, <1>3

\* One or two bytes, none of them a marker.
LEMMA EscapedBytes ==
  ASSUME NEW b \in Byte
  PROVE  /\ Escaped(b) \in Seq(Byte)
         /\ Len(Escaped(b)) \in 1..2
         /\ \A k \in 1..Len(Escaped(b)) : Escaped(b)[k] \notin {START, END}
  <1>1. CASE b \notin {START, END, ESC} /\ Escaped(b) = <<b>>
    <2>1. <<b>> \in Seq(Byte) /\ Len(<<b>>) = 1 /\ <<b>>[1] = b OBVIOUS
    <2> QED BY <1>1, <2>1
  <1>2. CASE \E c \in 1..4 : Escaped(b) = <<ESC, c>> /\ Special[c] = b
    <2>1. PICK c \in 1..4 : Escaped(b) = <<ESC, c>> BY <1>2
    <2>2. ESC \in Byte /\ c \in Byte /\ ESC \notin {START, END} /\ c \notin {START, END}
      BY DEF ESC, START, END, Byte
    <2> DEFINE w == <<ESC, c>>
    <2>3. w \in Seq(Byte) /\ Len(w) = 2 /\ w[1] = ESC /\ w[2] = c BY <2>2
    <2> HIDE DEF w
    <2>4. \A k \in 1..Len(w) : w[k] \notin {START, END}
      <3>1. \A k \in 1..Len(w) : k = 1 \/ k = 2 BY <2>3
      <3> QED BY <2>2, <2>3, <3>1
    <2> QED BY <2>1, <2>3, <2>4 DEF w
  <1> QED BY <1>1, <1>2, EscapedIs

LEMMA EscapedParts ==
  ASSUME NEW d \in Seq(Byte)
  PROVE  LET ss == [i \in DOMAIN d |-> Escaped(d[i])]
         IN  /\ ss \in Seq(Seq(Byte)) /\ Len(ss) = Len(d)
             /\ \A i \in 1..Len(d) : ss[i] = Escaped(d[i]) /\ d[i] \in Byte
  <1>1. DOMAIN d = 1..Len(d) /\ Len(d) \in Nat /\ \A i \in 1..Len(d) : d[i] \in Byte
    OBVIOUS
  <1>2. \A i \in 1..Len(d) : Escaped(d[i]) \in Seq(Byte)
    BY <1>1, EscapedBytes
  <1> DEFINE n == Len(d)
             ss == [i \in 1..n |-> Escaped(d[i])]
  <1>3. ss \in Seq(Seq(Byte)) /\ Len(ss) = n
    <2>1. n \in Nat /\ \A i \in 1..n : Escaped(d[i]) \in Seq(Byte) BY <1>1, <1>2
    <2> HIDE DEF n
    <2> QED BY <2>1
  <1> QED BY <1>1, <1>3

LEMMA StuffedIs ==
  ASSUME NEW d \in Seq(Byte)
  PROVE  LET ss == [i \in DOMAIN d |-> Escaped(d[i])]
         IN  /\ StuffBytes(d) \in Seq(Byte)
             /\ \E o : Placed(ss, StuffBytes(d), o)
             /\ \A x \in 1..Len(StuffBytes(d)) : StuffBytes(d)[x] \notin {START, END}
  <1> DEFINE ss == [i \in DOMAIN d |-> Escaped(d[i])]
             f == StuffBytes(d)
  <1>1. /\ ss \in Seq(Seq(Byte)) /\ Len(ss) = Len(d)
        /\ \A i \in 1..Len(d) : ss[i] = Escaped(d[i]) /\ d[i] \in Byte
    BY EscapedParts
  <1>2. f = FlattenSeq(ss) BY DEF StuffBytes
  <1> HIDE DEF ss, f
  <1>3. f \in Seq(Byte) /\ \E o : Placed(ss, f, o)
    BY <1>1, <1>2, FlattenIs
  <1>4. ASSUME NEW x \in 1..Len(f) PROVE f[x] \notin {START, END}
    <2>1. PICK o : Placed(ss, f, o) BY <1>3
    <2>2. PICK i \in 1..Len(ss) : \E k \in 1..Len(ss[i]) : x = o[i - 1] + k /\ f[x] = ss[i][k]
      <3>1. InPart(ss, f, o, x) BY <1>1, <2>1, PlacedSomewhere, Zenon
      <3> QED BY <3>1 DEF InPart
    <2>3. PICK k \in 1..Len(ss[i]) : f[x] = ss[i][k] BY <2>2
    <2>4. ss[i] = Escaped(d[i]) /\ d[i] \in Byte BY <1>1, <2>2
    <2> QED BY <2>3, <2>4, EscapedBytes
  <1> QED BY <1>3, <1>4 DEF ss, f

-----------------------------------------------------------------------------
(* Unstuffing.                                                             *)

Entry == [b: Byte, at: Int]
Accs == [out: Seq(Entry), esc: BOOLEAN, bad: BOOLEAN]
Clean(out) == [out |-> out, esc |-> FALSE, bad |-> FALSE]

LEMMA UnstuffStepTyped ==
  ASSUME NEW s, NEW i \in Int, s[i] \in Byte, NEW r \in Accs
  PROVE  UnstuffStep(s, r, i) \in Accs
  <1>1. \A c \in 1..4 : Special[c] \in Byte
    BY DEF Special, START, END, ESC, Byte
  <1>2. r.out \in Seq(Entry) /\ r.esc \in BOOLEAN /\ r.bad \in BOOLEAN
    BY DEF Accs
  <1>3. \A b \in Byte, a \in Int : Append(r.out, [b |-> b, at |-> a]) \in Seq(Entry)
    <2>1. \A b \in Byte, a \in Int : [b |-> b, at |-> a] \in Entry BY DEF Entry
    <2> HIDE DEF Entry
    <2> QED BY <1>2, <2>1, AppendProperties
  <1>4. CASE r.bad
    <2>1. UnstuffStep(s, r, i) = r BY <1>4 DEF UnstuffStep
    <2> QED BY <2>1
  <1>5. CASE ~r.bad /\ r.esc /\ s[i] \in 1..4
    <2>1. UnstuffStep(s, r, i) =
            [r EXCEPT !.esc = FALSE, !.out = Append(@, [b |-> Special[s[i]], at |-> i - 1])]
      BY <1>5 DEF UnstuffStep
    <2> DEFINE w == Append(r.out, [b |-> Special[s[i]], at |-> i - 1])
    <2>2. w \in Seq(Entry) BY <1>1, <1>3, <1>5
    <2>3. UnstuffStep(s, r, i) = [r EXCEPT !.esc = FALSE, !.out = w]
      BY <2>1 DEF Accs
    <2> HIDE DEF w
    <2> QED BY <2>2, <2>3 DEF Accs
  <1>6. CASE ~r.bad /\ r.esc /\ s[i] \notin 1..4
    BY <1>6 DEF UnstuffStep, Accs
  <1>7. CASE ~r.bad /\ ~r.esc /\ s[i] = ESC
    BY <1>7 DEF UnstuffStep, Accs
  <1>8. CASE ~r.bad /\ ~r.esc /\ s[i] # ESC
    <2>1. UnstuffStep(s, r, i) = [r EXCEPT !.out = Append(@, [b |-> s[i], at |-> i])]
      BY <1>8 DEF UnstuffStep
    <2> DEFINE w == Append(r.out, [b |-> s[i], at |-> i])
    <2>2. w \in Seq(Entry) BY <1>3
    <2>3. UnstuffStep(s, r, i) = [r EXCEPT !.out = w]
      BY <2>1 DEF Accs
    <2> HIDE DEF w
    <2> QED BY <2>2, <2>3 DEF Accs
  <1> QED BY <1>2, <1>4, <1>5, <1>6, <1>7, <1>8

\* u are the states of unstuffing s.
Unstuffs(s, u) ==
  /\ u[0] = Clean(<<>>)
  /\ \A i \in 1..Len(s) : u[i] = UnstuffStep(s, u[i - 1], i)

LEMMA UnstuffedToIs ==
  ASSUME NEW s \in Seq(Byte)
  PROVE  Unstuffs(s, UnstuffedTo(s))
  <1> DEFINE n == Len(s)
             step == [i \in 1..n |-> [w \in Accs |-> UnstuffStep(s, w, i)]]
             Body(f) == [i \in 0..n |-> IF i = 0 THEN Clean(<<>>) ELSE UnstuffStep(s, f[i - 1], i)]
  <1>1. n \in Nat /\ \A i \in 1..n : s[i] \in Byte /\ i \in Int
    OBVIOUS
  <1>2. Clean(<<>>) \in Accs
    BY DEF Clean, Accs
  <1>3. step \in [1..n -> [Accs -> Accs]]
    <2>1. \A i \in 1..n : \A w \in Accs : UnstuffStep(s, w, i) \in Accs
      BY <1>1, UnstuffStepTyped
    <2> HIDE DEF Accs, n
    <2> QED BY <2>1
  <1>4. PICK f \in [0..n -> Accs] : f[0] = Clean(<<>>) /\ \A i \in 1..n : f[i] = step[i][f[i - 1]]
    <2>1. IsStep(Accs, n, step) BY <1>3 DEF IsStep
    <2> HIDE DEF step, n, Body
    <2>2. \E f : IsRecursion(Accs, n, Clean(<<>>), step, f) BY <1>1, <1>2, <2>1, Recursion, Zenon
    <2> QED BY <2>2 DEF IsRecursion
  <1>5. f = Body(f)
    <2>1. ASSUME NEW i \in 0..n PROVE f[i] = Body(f)[i]
      <3>1. CASE i = 0 BY <1>4, <3>1
      <3>2. CASE i # 0
        <4>1. i \in 1..n /\ i - 1 \in 0..n BY <1>1, <3>2
        <4>2. f[i] = step[i][f[i - 1]] BY <1>4, <4>1
        <4>3. f[i - 1] \in Accs
          <5> HIDE DEF Accs
          <5> QED BY <1>4, <4>1
        <4>4. step[i][f[i - 1]] = UnstuffStep(s, f[i - 1], i)
          <5> HIDE DEF Accs
          <5> QED BY <4>1, <4>3
        <4> QED BY <4>2, <4>4, <3>2
      <3> QED BY <3>1, <3>2
    <2>2. f = [i \in 0..n |-> f[i]] BY <1>4
    <2> QED BY <2>1, <2>2
  <1>6. UnstuffedTo(s) = CHOOSE g : g = Body(g)
    BY DEF UnstuffedTo, Clean
  <1> DEFINE u == UnstuffedTo(s)
  <1>7. u = Body(u)
    <2> HIDE DEF Body
    <2> QED BY <1>5, <1>6
  <1> HIDE DEF u
  <1>8. \A i \in 0..n : u[i] = Body(u)[i]
    BY <1>7
  <1>9. u[0] = Clean(<<>>) /\ \A i \in 1..n : u[i] = UnstuffStep(s, u[i - 1], i)
    BY <1>1, <1>8
  <1> QED BY <1>9 DEF Unstuffs, u

\* The bytes of Escaped(b) become one byte, at the place of the first of them.
LEMMA UnstuffsOne ==
  ASSUME NEW s \in Seq(Byte), NEW u, Unstuffs(s, u),
         NEW b \in Byte, NEW k \in Nat, k + Len(Escaped(b)) <= Len(s),
         \A m \in 1..Len(Escaped(b)) : s[k + m] = Escaped(b)[m],
         NEW out, u[k] = Clean(out)
  PROVE  u[k + Len(Escaped(b))] = Clean(Append(out, [b |-> b, at |-> k + 1]))
  <1>1. Len(s) \in Nat /\ \A i \in 1..Len(s) : u[i] = UnstuffStep(s, u[i - 1], i)
    BY DEF Unstuffs
  <1>2. CASE b \notin {START, END, ESC} /\ Escaped(b) = <<b>>
    <2>1. Len(Escaped(b)) = 1 /\ Escaped(b)[1] = b BY <1>2
    <2>2. k + 1 \in 1..Len(s) /\ (k + 1) - 1 = k /\ s[k + 1] = b BY <1>1, <2>1
    <2>3. u[k + 1] = UnstuffStep(s, Clean(out), k + 1) BY <1>1, <2>2
    <2>4. s[k + 1] # ESC BY <1>2, <2>2
    <2>5. UnstuffStep(s, Clean(out), k + 1) = Clean(Append(out, [b |-> s[k + 1], at |-> k + 1]))
      BY <2>4 DEF UnstuffStep, Clean
    <2> QED BY <2>1, <2>2, <2>3, <2>5
  <1>3. CASE \E c \in 1..4 : Escaped(b) = <<ESC, c>> /\ Special[c] = b
    <2>1. PICK c \in 1..4 : Escaped(b) = <<ESC, c>> /\ Special[c] = b BY <1>3
    <2>2. Len(Escaped(b)) = 2 /\ Escaped(b)[1] = ESC /\ Escaped(b)[2] = c BY <2>1
    <2>3. /\ k + 1 \in 1..Len(s) /\ (k + 1) - 1 = k /\ s[k + 1] = ESC
          /\ k + 2 \in 1..Len(s) /\ (k + 2) - 1 = k + 1 /\ s[k + 2] = c
      BY <1>1, <2>2
    <2>4. u[k + 1] = UnstuffStep(s, Clean(out), k + 1) /\ u[k + 2] = UnstuffStep(s, u[k + 1], k + 2)
      BY <1>1, <2>3
    <2> DEFINE r == [out |-> out, esc |-> TRUE, bad |-> FALSE]
    <2>5. UnstuffStep(s, Clean(out), k + 1) = r
      BY <2>3 DEF UnstuffStep, Clean
    <2>6. UnstuffStep(s, r, k + 2) = Clean(Append(out, [b |-> Special[c], at |-> k + 1]))
      <3>1. UnstuffStep(s, r, k + 2) =
              [r EXCEPT !.esc = FALSE, !.out = Append(@, [b |-> Special[s[k + 2]], at |-> (k + 2) - 1])]
        BY <2>3 DEF UnstuffStep
      <3> QED BY <2>3, <3>1 DEF Clean
    <2> HIDE DEF r
    <2> QED BY <2>1, <2>2, <2>4, <2>5, <2>6
  <1> QED BY <1>2, <1>3, EscapedIs

Extends(old, new, d) ==
  /\ old \in Seq(Entry) /\ new \in Seq(Entry)
  /\ Len(new) = Len(old) + Len(d)
  /\ \A i \in 1..Len(old) : new[i] = old[i]
  /\ \A i \in 1..Len(d) : new[Len(old) + i].b = d[i]

Holds(s, k, w) ==
  k + Len(w) <= Len(s) /\ \A m \in 1..Len(w) : s[k + m] = w[m]

Adds(u, k, old, d) ==
  \E new : /\ u[k + Len(StuffBytes(d))] = Clean(new) /\ Extends(old, new, d)
           /\ d # <<>> => new[Len(old) + 1].at = k + 1

\* Stuffed bytes become the bytes again, wherever they stand in s.
LEMMA UnstuffsStuffed ==
  ASSUME NEW s \in Seq(Byte), NEW u, Unstuffs(s, u),
         NEW d \in Seq(Byte), NEW k \in Nat, Holds(s, k, StuffBytes(d)),
         NEW old \in Seq(Entry), u[k] = Clean(old)
  PROVE  Adds(u, k, old, d)
  <1> DEFINE n == Len(d)
             f == StuffBytes(d)
             ss == [i \in DOMAIN d |-> Escaped(d[i])]
             l == Len(old)
  <1>1. /\ ss \in Seq(Seq(Byte)) /\ Len(ss) = n
        /\ \A i \in 1..n : ss[i] = Escaped(d[i]) /\ d[i] \in Byte
    BY EscapedParts
  <1>2. f \in Seq(Byte) /\ \E o : Placed(ss, f, o)
    BY StuffedIs
  <1>3. n \in Nat /\ l \in Nat /\ Len(s) \in Nat /\ (d # <<>> => n # 0)
    OBVIOUS
  <1>4. k + Len(f) <= Len(s) /\ \A m \in 1..Len(f) : s[k + m] = f[m]
    BY DEF Holds
  <1> HIDE DEF ss, f, n, l
  <1>5. PICK o : Placed(ss, f, o)
    BY <1>2
  <1>6. /\ o \in [0..n -> Nat] /\ o[0] = 0 /\ Len(f) = o[n]
        /\ \A i \in 1..n : o[i] = o[i - 1] + Len(ss[i])
        /\ \A i \in 1..n : \A m \in 1..Len(ss[i]) : f[o[i - 1] + m] = ss[i][m]
    BY <1>1, <1>5 DEF Placed
  <1> DEFINE Done(j, w) ==
               /\ u[k + o[j]] = Clean(w)
               /\ w \in Seq(Entry) /\ Len(w) = l + j
               /\ \A i \in 1..l : w[i] = old[i]
               /\ \A i \in 1..j : w[l + i].b = d[i]
               /\ j # 0 => w[l + 1].at = k + 1
             T == {j \in Nat : j <= n => \E w : Done(j, w)}
  <1>7. 0 \in T
    <2>1. u[k + o[0]] = Clean(old) /\ Len(old) = l + 0 BY <1>3, <1>6 DEF l
    <2>2. Done(0, old) BY <2>1
    <2> QED BY <2>2
  <1>8. ASSUME NEW j \in Nat, j \in T PROVE j + 1 \in T
    <2> SUFFICES ASSUME j + 1 <= n PROVE \E w : Done(j + 1, w)
      OBVIOUS
    <2>1. PICK w : Done(j, w)
      BY <1>3, <1>8
    <2> DEFINE b == d[j + 1]
               e == [b |-> b, at |-> (k + o[j]) + 1]
               v == Append(w, e)
    <2>2. j + 1 \in 1..n /\ (j + 1) - 1 = j /\ j \in 0..n /\ j + 1 \in 0..n
      BY <1>3
    <2>3. b \in Byte /\ ss[j + 1] = Escaped(b)
      BY <1>1, <2>2
    <2> HIDE DEF b
    <2>4. Len(Escaped(b)) \in Nat
      BY <2>3, EscapedBytes
    <2>5. /\ o[j] \in Nat /\ o[j + 1] \in Nat /\ o[n] \in Nat
          /\ o[j + 1] = o[j] + Len(Escaped(b))
          /\ o[j + 1] <= o[n]
      <3>1. o[j + 1] <= o[n]
        <4>1. j + 1 \in 0..Len(ss) /\ Len(ss) \in (j + 1)..Len(ss) BY <1>1, <1>3, <2>2
        <4>2. o[j + 1] <= o[Len(ss)] BY <1>1, <1>5, <4>1, PlacedInOrder, Zenon
        <4> QED BY <1>1, <4>2
      <3>2. n \in 0..n BY <1>3
      <3> QED BY <1>6, <2>2, <2>3, <3>1, <3>2
    <2>6. (k + o[j]) + Len(Escaped(b)) <= Len(s) /\ k + o[j] \in Nat
      <3> DEFINE x == o[j]
                 y == o[n]
                 z == Len(Escaped(b))
      <3>1. k + y <= Len(s) /\ Len(s) \in Nat BY <1>3, <1>4, <1>6
      <3>2. x \in Nat /\ y \in Nat /\ z \in Nat /\ x + z <= y BY <2>4, <2>5
      <3> HIDE DEF x, y, z
      <3>3. (k + x) + z <= Len(s) /\ k + x \in Nat BY <3>1, <3>2
      <3> QED BY <3>3 DEF x, z
    <2>7. ASSUME NEW m \in 1..Len(Escaped(b)) PROVE s[(k + o[j]) + m] = Escaped(b)[m]
      <3>1. o[j] + m \in 1..Len(f) /\ k + (o[j] + m) = (k + o[j]) + m
        BY <1>6, <2>4, <2>5
      <3>2. f[o[j] + m] = Escaped(b)[m]
        <4>1. m \in 1..Len(ss[j + 1]) BY <2>3
        <4>2. f[o[(j + 1) - 1] + m] = ss[j + 1][m] BY <1>6, <2>2, <4>1
        <4> QED BY <2>2, <2>3, <4>2
      <3> QED BY <1>4, <3>1, <3>2
    <2>8. u[(k + o[j]) + Len(Escaped(b))] = Clean(v)
      <3>1. u[k + o[j]] = Clean(w) BY <2>1
      <3> DEFINE q == k + o[j]
      <3>2. /\ q \in Nat /\ u[q] = Clean(w) /\ q + Len(Escaped(b)) <= Len(s)
            /\ \A m \in 1..Len(Escaped(b)) : s[q + m] = Escaped(b)[m]
        BY <2>6, <2>7, <3>1
      <3> HIDE DEF q, Done, v, e, T
      <3>3. u[q + Len(Escaped(b))] = Clean(Append(w, [b |-> b, at |-> q + 1]))
        BY <2>3, <3>2, UnstuffsOne
      <3> QED BY <3>3 DEF q, v, e
    <2>9. e \in Entry
      BY <2>3, <2>6 DEF Entry
    <2>10. /\ v \in Seq(Entry) /\ Len(v) = (l + j) + 1 /\ v[(l + j) + 1] = e
           /\ \A i \in 1..(l + j) : v[i] = w[i]
      <3>1. w \in Seq(Entry) /\ Len(w) = l + j BY <2>1
      <3> HIDE DEF e, Done
      <3> QED BY <2>9, <3>1, AppendProperties
    <2>11. e.b = b /\ e.at = (k + o[j]) + 1
      OBVIOUS
    <2> HIDE DEF v, e
    <2>12. u[k + o[j + 1]] = Clean(v)
      <3>1. k + o[j + 1] = (k + o[j]) + Len(Escaped(b)) BY <2>4, <2>5
      <3> QED BY <2>8, <3>1
    <2>13. ASSUME NEW i \in 1..(j + 1) PROVE v[l + i].b = d[i]
      <3>1. CASE i = j + 1
        <4>1. l + i = (l + j) + 1 BY <1>3, <3>1
        <4> QED BY <2>10, <2>11, <3>1, <4>1 DEF b
      <3>2. CASE i # j + 1
        <4>1. i \in 1..j /\ l + i \in 1..(l + j) BY <1>3, <3>2
        <4> QED BY <2>1, <2>10, <4>1
      <3> QED BY <3>1, <3>2
    <2>14. v[l + 1].at = k + 1
      <3>1. CASE j = 0
        <4>1. l + 1 = (l + j) + 1 /\ (k + o[j]) + 1 = k + 1 BY <1>3, <1>6, <3>1
        <4> QED BY <2>10, <2>11, <4>1
      <3>2. CASE j # 0
        <4>1. l + 1 \in 1..(l + j) BY <1>3, <3>2
        <4> QED BY <2>1, <2>10, <3>2, <4>1
      <3> QED BY <3>1, <3>2
    <2>15. \A i \in 1..l : v[i] = old[i]
      <3>1. \A i \in 1..l : i \in 1..(l + j) BY <1>3
      <3> QED BY <2>1, <2>10, <3>1
    <2>16. Len(v) = l + (j + 1) BY <1>3, <2>10
    <2>17. Done(j + 1, v)
      BY <2>10, <2>12, <2>13, <2>14, <2>15, <2>16
    <2> QED BY <2>17
  <1>9. \E w : Done(n, w)
    <2>1. Nat \subseteq T
      <3> HIDE DEF T
      <3> QED BY <1>7, <1>8, InductionOnNat
    <2>2. n \in T BY <1>3, <2>1
    <2> HIDE DEF Done
    <2> QED BY <1>3, <2>2
  <1>10. PICK w : Done(n, w)
    BY <1>9
  <1>11. u[k + Len(f)] = Clean(w) /\ Extends(old, w, d)
    BY <1>6, <1>10 DEF Extends, n, l
  <1> QED BY <1>3, <1>10, <1>11 DEF Adds, f, n, l

-----------------------------------------------------------------------------
(* What encode() writes.                                                   *)

\* Stuffing does not shorten.
LEMMA StuffedLonger ==
  ASSUME NEW d \in Seq(Byte)
  PROVE  Len(StuffBytes(d)) >= Len(d)
  <1> DEFINE n == Len(d)
             f == StuffBytes(d)
             ss == [i \in DOMAIN d |-> Escaped(d[i])]
  <1>1. /\ ss \in Seq(Seq(Byte)) /\ Len(ss) = n /\ n \in Nat
        /\ \A i \in 1..n : ss[i] = Escaped(d[i]) /\ d[i] \in Byte
    BY EscapedParts
  <1>2. \E o : Placed(ss, f, o)
    BY StuffedIs
  <1> HIDE DEF ss, f, n
  <1>3. PICK o : Placed(ss, f, o)
    BY <1>2
  <1>4. /\ o \in [0..n -> Nat] /\ o[0] = 0 /\ Len(f) = o[n]
        /\ \A i \in 1..n : o[i] = o[i - 1] + Len(ss[i])
    BY <1>1, <1>3 DEF Placed
  <1>5. \A i \in 1..n : Len(ss[i]) \in Nat /\ Len(ss[i]) >= 1
    <2> SUFFICES ASSUME NEW i \in 1..n PROVE Len(ss[i]) \in Nat /\ Len(ss[i]) >= 1
      OBVIOUS
    <2>1. Len(Escaped(d[i])) \in 1..2 BY <1>1, EscapedBytes
    <2>2. ss[i] = Escaped(d[i]) BY <1>1
    <2> QED BY <2>1, <2>2
  <1> DEFINE T == {j \in Nat : j <= n => o[j] >= j}
  <1>6. 0 \in T
    BY <1>4
  <1>7. ASSUME NEW j \in Nat, j \in T PROVE j + 1 \in T
    <2> SUFFICES ASSUME j + 1 <= n PROVE o[j + 1] >= j + 1
      OBVIOUS
    <2>1. j + 1 \in 1..n /\ (j + 1) - 1 = j /\ j \in 0..n /\ o[j] >= j BY <1>1, <1>7
    <2>2. o[j + 1] = o[j] + Len(ss[j + 1]) /\ o[j] \in Nat BY <1>4, <2>1
    <2> QED BY <1>5, <2>1, <2>2
  <1>8. Nat \subseteq T
    <2> HIDE DEF T
    <2> QED BY <1>6, <1>7, InductionOnNat
  <1>9. n \in T BY <1>1, <1>8
  <1> QED BY <1>1, <1>4, <1>9 DEF f, n

LEMMA ChecksumOf ==
  ASSUME NEW g \in Seq(Byte)
  PROVE  LET cs == Checksum(g)
             e == <<cs \div 256, cs % 256>>
         IN  e \in Seq(Byte) /\ Len(e) = 2 /\ (e[1] * 256) + e[2] = cs
  <1>1. PICK c : c = Checksum(g)
    OBVIOUS
  <1>2. c \in Int /\ 0 <= c /\ c <= 65535
    BY <1>1, ChecksumIs
  <1> DEFINE p == c \div 256
             q == c % 256
  <1>3. p \in Byte /\ q \in Byte /\ (p * 256) + q = c
    BY <1>2, ChecksumBytes
  <1> HIDE DEF p, q
  <1>4. <<p, q>> \in Seq(Byte) /\ Len(<<p, q>>) = 2 /\ (<<p, q>>[1] * 256) + <<p, q>>[2] = c
    BY <1>3
  <1> QED BY <1>1, <1>4 DEF p, q

\* A frame in its two markers, and no marker between them: d are its fields,
\* e the bytes of its checksum.
Encodes(f) ==
  LET d == <<f.dest, f.src, f.type>> \o f.payload
      cs == Checksum(StuffBytes(d))
      e == <<cs \div 256, cs % 256>>
      x == Len(StuffBytes(d))
      y == Len(StuffBytes(e))
      w == Encode(f)
  IN  /\ d \in Seq(Byte) /\ Len(d) = 3 + Len(f.payload) /\ Len(f.payload) \in Nat
      /\ d[1] = f.dest /\ d[2] = f.src /\ d[3] = f.type
      /\ \A i \in 1..Len(f.payload) : d[3 + i] = f.payload[i]
      /\ e \in Seq(Byte) /\ Len(e) = 2 /\ (e[1] * 256) + e[2] = cs
      /\ x \in Nat /\ y \in Nat /\ x >= 3 /\ y >= 2
      /\ w \in Seq(Byte) /\ Len(w) = x + y + 2
      /\ w[1] = START /\ w[x + y + 2] = END
      /\ \A i \in 1..x : w[1 + i] = StuffBytes(d)[i]
      /\ \A i \in 1..y : w[1 + x + i] = StuffBytes(e)[i]
      /\ \A i \in 2..(x + y + 1) : w[i] \notin {START, END}

LEMMA EncodeIs ==
  ASSUME NEW f \in RawFrames
  PROVE  Encodes(f)
  <1> DEFINE d == <<f.dest, f.src, f.type>> \o f.payload
             cs == Checksum(StuffBytes(d))
             e == <<cs \div 256, cs % 256>>
             g == StuffBytes(d)
             h == StuffBytes(e)
             x == Len(g)
             y == Len(h)
             n == Len(f.payload)
             w == Encode(f)
  <1>1. /\ f.dest \in Byte /\ f.src \in Byte /\ f.type \in Byte
        /\ f.payload \in Seq(Byte) /\ n \in Nat
    BY DEF RawFrames, BusBytes, Byte
  <1>2. /\ d \in Seq(Byte) /\ Len(d) = 3 + n
        /\ d[1] = f.dest /\ d[2] = f.src /\ d[3] = f.type
        /\ \A i \in 1..n : d[3 + i] = f.payload[i]
    <2> DEFINE t == <<f.dest, f.src, f.type>>
    <2>1. t \in Seq(Byte) /\ Len(t) = 3 /\ t[1] = f.dest /\ t[2] = f.src /\ t[3] = f.type
      BY <1>1
    <2> HIDE DEF t
    <2>2. /\ d \in Seq(Byte) /\ Len(d) = Len(t) + n
          /\ \A i \in 1..(Len(t) + n) : d[i] = IF i <= Len(t) THEN t[i] ELSE f.payload[i - Len(t)]
      BY <1>1, <2>1, ConcatProperties DEF t
    <2>3. \A i \in 1..n : 3 + i \in 1..(3 + n) /\ ~(3 + i <= 3) /\ (3 + i) - 3 = i
      BY <1>1
    <2>4. 1 \in 1..(3 + n) /\ 2 \in 1..(3 + n) /\ 3 \in 1..(3 + n) /\ 1 <= 3 /\ 2 <= 3 /\ 3 <= 3
      BY <1>1
    <2> HIDE DEF d, n
    <2> QED BY <2>1, <2>2, <2>3, <2>4
  <1> HIDE DEF d, n
  <1>3. g \in Seq(Byte) /\ x \in Nat /\ \A i \in 1..x : g[i] \notin {START, END}
    BY <1>2, StuffedIs
  <1> HIDE DEF g
  <1>5. e \in Seq(Byte) /\ Len(e) = 2 /\ (e[1] * 256) + e[2] = cs
    BY <1>3, ChecksumOf DEF g
  <1> HIDE DEF cs
  <1> HIDE DEF e
  <1>6. h \in Seq(Byte) /\ y \in Nat /\ \A i \in 1..y : h[i] \notin {START, END}
    BY <1>5, StuffedIs
  <1>7. x >= 3 /\ y >= 2
    <2>1. Len(StuffBytes(d)) >= Len(d) BY <1>2, StuffedLonger
    <2>2. Len(StuffBytes(e)) >= Len(e) BY <1>5, StuffedLonger
    <2>3. x >= 3 + n BY <1>2, <2>1 DEF g
    <2>4. y >= 2 BY <1>5, <2>2
    <2> HIDE DEF x, y
    <2> QED BY <1>1, <1>3, <2>3, <2>4
  <1> HIDE DEF h
  <1>8. w = <<START>> \o g \o h \o <<END>>
    BY DEF Encode, d, cs, e, g, h
  <1> DEFINE a == <<START>> \o g
             b == a \o h
  <1>9. /\ a \in Seq(Byte) /\ Len(a) = 1 + x
        /\ \A i \in 1..(1 + x) : a[i] = IF i <= 1 THEN START ELSE g[i - 1]
    <2> DEFINE t == <<START>>
    <2>1. t \in Seq(Byte) /\ Len(t) = 1 /\ t[1] = START BY DEF START, Byte
    <2> HIDE DEF t
    <2>2. \A i \in 1..1 : i = 1 OBVIOUS
    <2>3. /\ t \o g \in Seq(Byte) /\ Len(t \o g) = Len(t) + x
          /\ \A i \in 1..(Len(t) + x) : (t \o g)[i] = IF i <= Len(t) THEN t[i] ELSE g[i - Len(t)]
      BY <1>3, <2>1, ConcatProperties
    <2>4. \A i \in 1..(1 + x) : i <= 1 => i = 1 BY <1>3
    <2> QED BY <2>1, <2>3, <2>4 DEF t
  <1> HIDE DEF a
  <1>10. /\ b \in Seq(Byte) /\ Len(b) = (1 + x) + y
         /\ \A i \in 1..((1 + x) + y) : b[i] = IF i <= 1 + x THEN a[i] ELSE h[i - (1 + x)]
    <2>1. /\ b \in Seq(Byte) /\ Len(b) = Len(a) + Len(h)
          /\ \A i \in 1..(Len(a) + Len(h)) : b[i] = IF i <= Len(a) THEN a[i] ELSE h[i - Len(a)]
      BY <1>6, <1>9, ConcatProperties
    <2>2. Len(a) = 1 + x /\ Len(h) = y BY <1>9
    <2> HIDE DEF b, x, y
    <2> QED BY <2>1, <2>2
  <1> HIDE DEF b
  <1>11. /\ w \in Seq(Byte) /\ Len(w) = ((1 + x) + y) + 1
         /\ \A i \in 1..((1 + x) + y) : w[i] = b[i]
         /\ w[((1 + x) + y) + 1] = END
    <2>1. END \in Byte BY DEF END, Byte
    <2>2. w = b \o <<END>> BY <1>8 DEF a, b
    <2>3. b \o <<END>> = Append(b, END) BY <1>10, <2>1
    <2>4. /\ Append(b, END) \in Seq(Byte) /\ Len(Append(b, END)) = Len(b) + 1
          /\ \A i \in 1..Len(b) : Append(b, END)[i] = b[i]
          /\ Append(b, END)[Len(b) + 1] = END
      BY <1>10, <2>1, AppendProperties
    <2>5. w = Append(b, END) BY <2>2, <2>3
    <2>6. Len(b) = (1 + x) + y BY <1>10
    <2> HIDE DEF w, x, y
    <2> QED BY <2>4, <2>5, <2>6
  <1> HIDE DEF w
  <1>12. Len(w) = x + y + 2 /\ w[x + y + 2] = END /\ w[1] = START
    <2>1. ((1 + x) + y) + 1 = x + y + 2 /\ 1 \in 1..((1 + x) + y) /\ 1 \in 1..(1 + x) BY <1>3, <1>6
    <2>2. w[1] = b[1] /\ b[1] = a[1] /\ a[1] = START BY <1>9, <1>10, <1>11, <2>1
    <2> QED BY <1>11, <2>1, <2>2
  <1>13. \A i \in 1..x : w[1 + i] = g[i]
    <2> SUFFICES ASSUME NEW i \in 1..x PROVE w[1 + i] = g[i]
      OBVIOUS
    <2>1. 1 + i \in 1..((1 + x) + y) /\ 1 + i \in 1..(1 + x) /\ 1 + i <= 1 + x /\ ~(1 + i <= 1) /\ (1 + i) - 1 = i
      BY <1>3, <1>6
    <2> QED BY <1>9, <1>10, <1>11, <2>1
  <1>14. \A i \in 1..y : w[1 + x + i] = h[i]
    <2> SUFFICES ASSUME NEW i \in 1..y PROVE w[1 + x + i] = h[i]
      OBVIOUS
    <2>1. 1 + x + i \in 1..((1 + x) + y) /\ ~(1 + x + i <= 1 + x) /\ (1 + x + i) - (1 + x) = i
      BY <1>3, <1>6
    <2> QED BY <1>10, <1>11, <2>1
  <1>15. ASSUME NEW i \in 2..(x + y + 1) PROVE w[i] \notin {START, END}
    <2>1. CASE i <= 1 + x
      <3>1. i - 1 \in 1..x /\ 1 + (i - 1) = i BY <1>3, <1>6, <2>1
      <3> QED BY <1>3, <1>13, <3>1
    <2>2. CASE i > 1 + x
      <3>1. i - (1 + x) \in 1..y /\ 1 + x + (i - (1 + x)) = i BY <1>3, <1>6, <2>2
      <3> QED BY <1>6, <1>14, <3>1
    <2> QED BY <1>3, <1>6, <2>1, <2>2
  <1> HIDE DEF x, y
  <1>16. w \in Seq(Byte) BY <1>11
  <1> QED BY <1>1, <1>2, <1>3, <1>5, <1>6, <1>7, <1>12, <1>13, <1>14, <1>15, <1>16
          DEF Encodes, d, cs, e, g, h, x, y, n, w

\* parse() takes back every frame encode() writes, whatever its fields hold
\* and however long it is: stuffing loses nothing, and the checksum is that of
\* the bytes it was computed over, wherever it wraps.
THEOREM ParsesEncoded ==
  ASSUME NEW f \in RawFrames
  PROVE  Parse(Encode(f)) = f
  <1> DEFINE d == <<f.dest, f.src, f.type>> \o f.payload
             cs == Checksum(StuffBytes(d))
             e == <<cs \div 256, cs % 256>>
             g == StuffBytes(d)
             h == StuffBytes(e)
             x == Len(g)
             y == Len(h)
             w == Encode(f)
             n == Len(f.payload)
             s == SubSeq(w, 2, Len(w) - 1)
  <1>1. /\ d \in Seq(Byte) /\ Len(d) = 3 + n /\ n \in Nat
        /\ d[1] = f.dest /\ d[2] = f.src /\ d[3] = f.type
        /\ \A i \in 1..n : d[3 + i] = f.payload[i]
        /\ e \in Seq(Byte) /\ Len(e) = 2 /\ (e[1] * 256) + e[2] = cs
        /\ x \in Nat /\ y \in Nat /\ x >= 3 /\ y >= 2
        /\ w \in Seq(Byte) /\ Len(w) = x + y + 2
        /\ w[1] = START /\ w[x + y + 2] = END
        /\ \A i \in 1..x : w[1 + i] = g[i]
        /\ \A i \in 1..y : w[1 + x + i] = h[i]
    <2>1. Encodes(f) BY EncodeIs
    <2> QED BY <2>1 DEF Encodes
  <1>2. g \in Seq(Byte) /\ h \in Seq(Byte)
    BY <1>1, StuffedIs
  <1>3. cs = Checksum(g)
    OBVIOUS
  <1> HIDE DEF d, cs, e, g, h, w, n
  <1>4. x \in Nat /\ y \in Nat /\ x >= 3 /\ y >= 2 /\ Len(w) = x + y + 2
    BY <1>1
  <1>5. s \in Seq(Byte) /\ Len(s) = x + y /\ \A i \in 1..(x + y) : s[i] = w[1 + i]
    <2>1. 2 \in 1..Len(w) /\ Len(w) - 1 \in 2..Len(w) /\ 2 <= Len(w) - 1
      <3> HIDE DEF x, y
      <3> QED BY <1>4
    <2>2. /\ s \in Seq(Byte) /\ Len(s) = (Len(w) - 1) - 2 + 1
          /\ \A i \in 1..((Len(w) - 1) - 2 + 1) : s[i] = w[2 + i - 1]
      BY <1>1, <2>1, SubSeqProperties
    <2>3. (Len(w) - 1) - 2 + 1 = x + y
      <3> HIDE DEF x, y
      <3> QED BY <1>4
    <2>4. \A i \in 1..(x + y) : 2 + i - 1 = 1 + i
      <3> HIDE DEF x, y
      <3> QED BY <1>4
    <2> HIDE DEF s
    <2> QED BY <2>2, <2>3, <2>4
  <1> HIDE DEF s, x, y
  <1>6. Holds(s, 0, g) /\ Holds(s, x, h)
    <2>1. ASSUME NEW m \in 1..x PROVE s[0 + m] = g[m]
      <3>1. m \in 1..(x + y) /\ 0 + m = m BY <1>4
      <3> QED BY <1>1, <1>5, <3>1
    <2>2. ASSUME NEW m \in 1..y PROVE s[x + m] = h[m]
      <3>1. x + m \in 1..(x + y) /\ 1 + (x + m) = 1 + x + m BY <1>4
      <3> QED BY <1>1, <1>5, <3>1
    <2>3. Len(g) = x /\ Len(h) = y BY DEF x, y
    <2>4. 0 + x <= Len(s) /\ x + y <= Len(s) BY <1>4, <1>5
    <2> QED BY <2>1, <2>2, <2>3, <2>4 DEF Holds
  <1>7. PICK u : u = UnstuffedTo(s)
    OBVIOUS
  <1>8. Unstuffs(s, u) /\ u[0] = Clean(<<>>)
    <2>1. Unstuffs(s, u) BY <1>5, <1>7, UnstuffedToIs
    <2> QED BY <2>1 DEF Unstuffs
  <1>9. PICK v : u[x] = Clean(v) /\ Extends(<<>>, v, d)
    <2>1. <<>> \in Seq(Entry) /\ 0 \in Nat OBVIOUS
    <2>2. Holds(s, 0, StuffBytes(d)) BY <1>6 DEF g
    <2>3. Adds(u, 0, <<>>, d) BY <1>1, <1>5, <1>8, <2>1, <2>2, UnstuffsStuffed, Zenon
    <2>4. 0 + Len(StuffBytes(d)) = x BY <1>4 DEF g, x
    <2> QED BY <2>3, <2>4 DEF Adds
  <1>10. PICK t : u[x + y] = Clean(t) /\ Extends(v, t, e) /\ t[Len(v) + 1].at = x + 1
    <2>1. v \in Seq(Entry) BY <1>9 DEF Extends
    <2>2. e # <<>>
      <3>1. Len(<<>>) = 0 /\ Len(e) = 2 BY <1>1
      <3> QED BY <3>1
    <2>3. Holds(s, x, StuffBytes(e)) BY <1>6 DEF h
    <2>4. Adds(u, x, v, e) BY <1>1, <1>4, <1>5, <1>8, <1>9, <2>1, <2>3, UnstuffsStuffed, Zenon
    <2>5. x + Len(StuffBytes(e)) = x + y BY DEF h, y
    <2> QED BY <2>2, <2>4, <2>5 DEF Adds
  <1>11. /\ t \in Seq(Entry) /\ Len(t) = n + 5 /\ t[n + 4].at = x + 1
         /\ t[1].b = f.dest /\ t[2].b = f.src /\ t[3].b = f.type
         /\ \A i \in 1..n : t[i + 3].b = f.payload[i]
         /\ (t[n + 4].b * 256) + t[n + 5].b = cs
    <2>1. Len(v) = 3 + n /\ \A i \in 1..(3 + n) : v[i].b = d[i]
      <3>1. /\ Len(v) = Len(<<>>) + Len(d) /\ v \in Seq(Entry)
            /\ \A i \in 1..Len(d) : v[Len(<<>>) + i].b = d[i]
        BY <1>9 DEF Extends
      <3>2. Len(<<>>) = 0 OBVIOUS
      <3>3. \A i \in 1..(3 + n) : 0 + i = i BY <1>1
      <3> QED BY <1>1, <3>1, <3>2, <3>3
    <2>2. /\ t \in Seq(Entry) /\ Len(t) = (3 + n) + 2
          /\ \A i \in 1..(3 + n) : t[i] = v[i]
          /\ \A i \in 1..2 : t[(3 + n) + i].b = e[i]
          /\ t[(3 + n) + 1].at = x + 1
      BY <1>1, <1>10, <2>1 DEF Extends
    <2>3. /\ (3 + n) + 2 = n + 5 /\ (3 + n) + 1 = n + 4
          /\ 1 \in 1..(3 + n) /\ 2 \in 1..(3 + n) /\ 3 \in 1..(3 + n)
          /\ \A i \in 1..n : i + 3 \in 1..(3 + n) /\ i + 3 = 3 + i
      BY <1>1
    <2>4. t[n + 4].b = e[1] /\ t[n + 5].b = e[2]
      <3>1. 1 \in 1..2 /\ 2 \in 1..2 OBVIOUS
      <3> QED BY <2>2, <2>3, <3>1
    <2>5. \A i \in 1..n : t[i + 3].b = f.payload[i]
      BY <1>1, <2>1, <2>2, <2>3
    <2> QED BY <1>1, <2>1, <2>2, <2>3, <2>4, <2>5
  <1>12. Unstuffed(s) = Clean(t)
    BY <1>5, <1>7, <1>10 DEF Unstuffed
  <1>13. ComputedSum(s, t) = cs
    <2>1. (n + 5) - 1 = n + 4 /\ (x + 1) - 1 = x BY <1>1, <1>4
    <2>2. ComputedSum(s, t) = Checksum(SubSeq(s, 1, x))
      BY <1>11, <2>1 DEF ComputedSum
    <2>3. SubSeq(s, 1, x) = g
      <3> DEFINE z == SubSeq(s, 1, x)
      <3>1. 1 \in 1..Len(s) /\ x \in 1..Len(s) /\ x - 1 + 1 = x BY <1>4, <1>5
      <3>2. z \in Seq(Byte) /\ Len(z) = x - 1 + 1 /\ \A i \in 1..(x - 1 + 1) : z[i] = s[1 + i - 1]
        BY <1>4, <1>5, <3>1, SubSeqProperties
      <3> HIDE DEF z
      <3>3. Len(g) = x BY DEF x
      <3>4. ASSUME NEW i \in 1..x PROVE z[i] = g[i]
        <4>1. 1 + i - 1 = i /\ i \in 1..(x + y) BY <1>4
        <4> QED BY <1>1, <1>5, <3>1, <3>2, <4>1
      <3>5. z = g BY <1>2, <3>1, <3>2, <3>3, <3>4, SeqEqual
      <3> QED BY <3>5 DEF z
    <2> QED BY <1>3, <2>2, <2>3
  <1>14. ParseInterior(s, t) = f
    <2>1. /\ Len(t) = n + 5 /\ ~(n + 5 < 5) /\ n + 5 >= 5 /\ (n + 5) - 1 = n + 4 /\ (n + 5) - 5 = n
      BY <1>1, <1>11
    <2>2. t[n + 4].b * 256 + t[n + 5].b = ComputedSum(s, t)
      BY <1>11, <1>13
    <2>3. /\ f.dest \in BusBytes /\ f.src \in BusBytes
          /\ f.payload \in Seq(Byte) /\ f.payload = [i \in 1..n |-> f.payload[i]]
          /\ f = [dest |-> f.dest, src |-> f.src, type |-> f.type, payload |-> f.payload]
      BY DEF RawFrames, n
    <2>4. {t[1].b, t[2].b} \subseteq BusBytes
      BY <1>11, <2>3
    <2>5. [i \in 1..n |-> t[i + 3].b] = f.payload
      BY <1>11, <2>3
    <2>6. ParseInterior(s, t) = [dest |-> t[1].b, src |-> t[2].b, type |-> t[3].b,
                                 payload |-> [i \in 1..n |-> t[i + 3].b]]
      BY <2>1, <2>2, <2>4 DEF ParseInterior
    <2> QED BY <1>11, <2>3, <2>5, <2>6
  <1>15. Parse(w) = f
    <2>1. ~(Len(w) < 7) /\ Len(w) \in Nat /\ w # <<>> BY <1>1, <1>4
    <2>2. Head(w) = START /\ Last(w) = END BY <1>1, <2>1 DEF Last
    <2>3. ~Clean(t).bad /\ ~Clean(t).esc /\ Clean(t).out = t BY DEF Clean
    <2>4. SubSeq(w, 2, Len(w) - 1) = s BY DEF s
    <2> QED BY <1>12, <1>14, <2>1, <2>2, <2>3, <2>4 DEF Parse
  <1> QED BY <1>15 DEF w

-----------------------------------------------------------------------------
(* The stream of a device.                                                 *)

\* The markers of w: frame i lies between the positions o[i - 1] and o[i].
Marked(n, w, o) ==
  /\ n \in Nat /\ w \in Seq(Byte)
  /\ o \in [0..n -> Nat] /\ o[0] = 0 /\ Len(w) = o[n]
  /\ \A i, j \in 0..n : i < j => o[i] < o[j]
  /\ \A i \in 1..n : o[i] >= o[i - 1] + 2 /\ w[o[i - 1] + 1] = START /\ w[o[i]] = END
  /\ \A x \in 1..Len(w) : /\ w[x] = START => \E i \in 1..n : x = o[i - 1] + 1
                          /\ w[x] = END => \E i \in 1..n : x = o[i]

Framed(ee) ==
  \A i \in 1..Len(ee) :
    /\ Len(ee[i]) >= 2 /\ ee[i][1] = START /\ ee[i][Len(ee[i])] = END
    /\ \A k \in 2..(Len(ee[i]) - 1) : ee[i][k] \notin {START, END}

LEMMA MarkedIs ==
  ASSUME NEW ee \in Seq(Seq(Byte)), Framed(ee), NEW w \in Seq(Byte), NEW o, Placed(ee, w, o)
  PROVE  Marked(Len(ee), w, o)
  <1> DEFINE n == Len(ee)
  <1>1. /\ n \in Nat /\ o \in [0..n -> Nat] /\ o[0] = 0 /\ Len(w) = o[n]
        /\ \A i \in 1..n : o[i] = o[i - 1] + Len(ee[i])
        /\ \A i \in 1..n : \A k \in 1..Len(ee[i]) : w[o[i - 1] + k] = ee[i][k]
    <2>1. n \in Nat OBVIOUS
    <2> QED BY <2>1, Zenon DEF Placed
  <1>2. \A i \in 1..n : Len(ee[i]) \in Nat
    <2>1. \A i \in 1..n : ee[i] \in Seq(Byte) OBVIOUS
    <2>2. \A v \in Seq(Byte) : Len(v) \in Nat BY LenProperties
    <2> QED BY <2>1, <2>2
  <1>3. \A i \in 1..n : /\ Len(ee[i]) >= 2 /\ ee[i][1] = START /\ ee[i][Len(ee[i])] = END
                        /\ \A k \in 2..(Len(ee[i]) - 1) : ee[i][k] \notin {START, END}
    BY DEF Framed
  <1>4. ASSUME NEW i \in 0..n, NEW j \in i..n PROVE o[i] <= o[j]
    BY PlacedInOrder, Zenon
  <1>5. ASSUME NEW x \in 1..Len(w) PROVE InPart(ee, w, o, x)
    BY PlacedSomewhere, Zenon
  <1>6. \A x \in 1..Len(w) : \E i \in 1..n : \E k \in 1..Len(ee[i]) : x = o[i - 1] + k /\ w[x] = ee[i][k]
    BY <1>5 DEF InPart
  <1> HIDE DEF n
  <1>7. ASSUME NEW i \in 0..n, NEW j \in 0..n, i < j PROVE o[i] < o[j]
    <2>1. i + 1 \in 1..n /\ j \in (i + 1)..n /\ i + 1 \in 0..n /\ (i + 1) - 1 = i BY <1>1, <1>7
    <2>2. o[i + 1] <= o[j] BY <1>4, <2>1
    <2>3. o[i + 1] = o[i] + Len(ee[i + 1]) /\ Len(ee[i + 1]) >= 2 /\ Len(ee[i + 1]) \in Nat
      BY <1>1, <1>2, <1>3, <2>1
    <2>4. o[i] \in Nat /\ o[j] \in Nat /\ o[i + 1] \in Nat BY <1>1, <2>1
    <2> QED BY <2>2, <2>3, <2>4
  <1>8. ASSUME NEW i \in 1..n
        PROVE  o[i] >= o[i - 1] + 2 /\ w[o[i - 1] + 1] = START /\ w[o[i]] = END
    <2>1. Len(ee[i]) \in Nat /\ Len(ee[i]) >= 2 /\ o[i - 1] \in Nat /\ o[i] = o[i - 1] + Len(ee[i])
      <3>1. i - 1 \in 0..n BY <1>1
      <3> QED BY <1>1, <1>2, <1>3, <3>1
    <2>2. 1 \in 1..Len(ee[i]) /\ Len(ee[i]) \in 1..Len(ee[i]) BY <2>1
    <2>3. w[o[i - 1] + 1] = ee[i][1] /\ w[o[i - 1] + Len(ee[i])] = ee[i][Len(ee[i])]
      BY <1>1, <2>2
    <2> QED BY <1>3, <2>1, <2>3
  <1>9. ASSUME NEW x \in 1..Len(w)
        PROVE  /\ w[x] = START => \E i \in 1..n : x = o[i - 1] + 1
               /\ w[x] = END => \E i \in 1..n : x = o[i]
    <2>1. PICK i \in 1..n : \E k \in 1..Len(ee[i]) : x = o[i - 1] + k /\ w[x] = ee[i][k]
      BY <1>6
    <2>2. PICK k \in 1..Len(ee[i]) : x = o[i - 1] + k /\ w[x] = ee[i][k]
      BY <2>1
    <2>3. Len(ee[i]) \in Nat /\ Len(ee[i]) >= 2 BY <1>2, <1>3
    <2>4. START # END BY DEF START, END
    <2>5. CASE k = 1
      <3>1. w[x] = START BY <1>3, <2>2, <2>5
      <3> QED BY <2>2, <2>4, <2>5, <3>1
    <2>6. CASE k = Len(ee[i])
      <3>1. w[x] = END BY <1>3, <2>2, <2>6
      <3>2. x = o[i] BY <1>1, <2>2, <2>6
      <3> QED BY <2>4, <3>1, <3>2
    <2>7. CASE k # 1 /\ k # Len(ee[i])
      <3>1. k \in 2..(Len(ee[i]) - 1) BY <2>3, <2>7
      <3>2. w[x] \notin {START, END} BY <1>3, <2>2, <3>1
      <3> QED BY <3>2
    <2> QED BY <2>5, <2>6, <2>7
  <1>10. Marked(n, w, o)
    BY <1>1, <1>7, <1>8, <1>9 DEF Marked
  <1> QED BY <1>10 DEF n

IsRest(s, w, z) == Len(s) = Len(w) - z /\ \A k \in 1..Len(s) : s[k] = w[z + k]

SpanOf(o, z, i) == <<(o[i - 1] + 1) - z, o[i] - z>>
AreRestSpans(S, n, o, z) ==
  /\ \A q \in S : \E i \in 1..n : o[i - 1] >= z /\ q = SpanOf(o, z, i)
  /\ \A i \in 1..n : o[i - 1] >= z => SpanOf(o, z, i) \in S

AreInRest(x, y, z, l) ==
  /\ (x + 1) - z \in 1..(l - z) /\ y - z \in 1..(l - z) /\ (x + 1) - z < y - z
  /\ z + ((x + 1) - z) = x + 1 /\ z + (y - z) = y
  /\ z + (((x + 1) - z) - 1) = x

LEMMA RestPlaces ==
  ASSUME NEW x \in Nat, NEW y \in Nat, NEW z \in Nat, NEW l \in Nat, y >= x + 2, y <= l, x >= z
  PROVE  AreInRest(x, y, z, l)
  BY DEF AreInRest

LEMMA PlaceBefore ==
  ASSUME NEW a \in Nat, NEW l \in Nat, a <= l, NEW k \in 1..(a - 1)
  PROVE  a - 1 \in 1..l /\ a - 1 \in k..(a - 1)
  OBVIOUS

\* The spans of what is left of w behind its first z bytes are the frames that
\* begin there.
LEMMA SpansOfRest ==
  ASSUME NEW n, NEW w, NEW o, Marked(n, w, o), NEW z \in 0..Len(w),
         NEW s \in Seq(Byte), IsRest(s, w, z)
  PROVE  AreRestSpans(Spans(s), n, o, z)
  <1>. Len(s) = Len(w) - z /\ \A k \in 1..Len(s) : s[k] = w[z + k]
    BY DEF IsRest
  <1>1. /\ n \in Nat /\ w \in Seq(Byte) /\ Len(w) \in Nat
        /\ \A i \in 0..n : o[i] \in Nat
        /\ o[0] = 0 /\ Len(w) = o[n]
        /\ \A i, j \in 0..n : i < j => o[i] < o[j]
        /\ \A i \in 1..n : o[i] >= o[i - 1] + 2 /\ w[o[i - 1] + 1] = START /\ w[o[i]] = END
        /\ \A x \in 1..Len(w) : /\ w[x] = START => \E i \in 1..n : x = o[i - 1] + 1
                                /\ w[x] = END => \E i \in 1..n : x = o[i]
    <2>1. w \in Seq(Byte) /\ o \in [0..n -> Nat] BY DEF Marked
    <2>2. Len(w) \in Nat /\ \A i \in 0..n : o[i] \in Nat BY <2>1
    <2> QED BY <2>1, <2>2 DEF Marked
  <1>2. \A i \in 1..n : /\ i \in 0..n /\ i - 1 \in 0..n
                        /\ o[i] \in Nat /\ o[i - 1] \in Nat /\ o[i] <= Len(w)
    <2> SUFFICES ASSUME NEW i \in 1..n PROVE o[i] <= Len(w)
      BY <1>1
    <2>1. CASE i = n BY <1>1, <2>1
    <2>2. CASE i # n
      <3>1. i < n /\ i \in 0..n /\ n \in 0..n BY <1>1, <2>2
      <3>2. o[i] < o[n] /\ o[i] \in Nat /\ o[n] \in Nat BY <1>1, <3>1
      <3> QED BY <1>1, <3>2
    <2> QED BY <2>1, <2>2
  <1>3. \A k \in 1..Len(s) : z + k \in 1..Len(w) BY <1>1
  <1>4. Len(s) \in Nat /\ z \in Nat /\ DOMAIN s = 1..Len(s) BY <1>1
  <1>5. ASSUME NEW q \in Spans(s)
        PROVE  \E i \in 1..n : o[i - 1] >= z /\ q = SpanOf(o, z, i)
    <2>1. /\ q = <<q[1], q[2]>>
          /\ q[1] \in 1..Len(s) /\ q[2] \in 1..Len(s) /\ q[1] < q[2]
          /\ s[q[1]] = START /\ s[q[2]] = END
          /\ \A k \in q[1]..(q[2] - 1) : s[k] # END
      BY SpanTyped
    <2> DEFINE a == q[1]
               b == q[2]
    <2> HIDE DEF a, b
    <2>2. /\ q = <<a, b>> /\ a \in 1..Len(s) /\ b \in 1..Len(s) /\ a < b
          /\ s[a] = START /\ s[b] = END /\ \A k \in a..(b - 1) : s[k] # END
      BY <2>1 DEF a, b
    <2>3. w[z + a] = START /\ w[z + b] = END /\ z + a \in 1..Len(w) /\ z + b \in 1..Len(w)
      BY <1>3, <2>2
    <2>4. PICK i \in 1..n : z + a = o[i - 1] + 1
      BY <1>1, <2>3
    <2>5. PICK j \in 1..n : z + b = o[j]
      BY <1>1, <2>3
    <2>6. o[i] - z \in 1..Len(s) /\ z + (o[i] - z) = o[i] /\ o[i] - z >= a
      <3>1. /\ o[i] \in Nat /\ o[i - 1] \in Nat /\ o[i] >= o[i - 1] + 2 /\ o[i] <= Len(w)
            /\ z + a = o[i - 1] + 1 /\ a \in Nat /\ z \in Nat /\ Len(w) \in Nat /\ a >= 1
        BY <1>1, <1>2, <1>4, <2>2, <2>4
      <3>2. o[i - 1] >= z /\ a = (o[i - 1] + 1) - z BY <3>1
      <3>3. (o[i - 1] + 1) - z < o[i] - z /\ o[i] - z \in 1..(Len(w) - z) /\ z + (o[i] - z) = o[i]
        <4>1. AreInRest(o[i - 1], o[i], z, Len(w)) BY <3>1, <3>2, RestPlaces, Zenon
        <4> QED BY <4>1 DEF AreInRest
      <3>4. a <= o[i] - z BY <3>1, <3>2
      <3> QED BY <3>1, <3>3, <3>4
    <2>7. s[o[i] - z] = END
      BY <1>1, <2>6
    <2>8. o[i] - z >= b
      BY <2>2, <2>6, <2>7
    <2>9. j <= i
      <3>1. o[j] <= o[i] BY <1>2, <1>4, <2>2, <2>5, <2>8
      <3>2. ASSUME i < j PROVE FALSE
        <4>1. o[i] < o[j] BY <1>1, <1>2, <3>2
        <4> QED BY <1>2, <3>1, <4>1
      <3> QED BY <3>2
    <2>10. j >= i
      <3>1. o[i - 1] < o[j] BY <1>2, <1>4, <2>2, <2>4, <2>5
      <3>2. ASSUME j < i PROVE FALSE
        <4>1. j <= i - 1 /\ j \in 0..n /\ i - 1 \in 0..n BY <1>2, <3>2
        <4>2. o[j] <= o[i - 1]
          <5>1. CASE j = i - 1 BY <1>2, <5>1
          <5>2. CASE j # i - 1
            <6>1. j < i - 1 BY <4>1, <5>2
            <6>2. o[j] < o[i - 1] BY <1>1, <4>1, <6>1
            <6> QED BY <1>2, <6>2
          <5> QED BY <5>1, <5>2
        <4> QED BY <1>2, <3>1, <4>2
      <3> QED BY <3>2
    <2>11. i = j BY <2>9, <2>10
    <2>12. o[i - 1] >= z /\ a = (o[i - 1] + 1) - z /\ b = o[i] - z
      <3>1. /\ o[i] \in Nat /\ o[i - 1] \in Nat /\ z \in Nat /\ a \in Nat /\ b \in Nat /\ a >= 1
            /\ z + a = o[i - 1] + 1 /\ z + b = o[i]
        BY <1>2, <1>4, <2>2, <2>4, <2>5, <2>11
      <3> QED BY <3>1
    <2> QED BY <2>2, <2>12 DEF SpanOf
  <1>6. ASSUME NEW i \in 1..n, o[i - 1] >= z
        PROVE  SpanOf(o, z, i) \in Spans(s)
    <2> DEFINE a == (o[i - 1] + 1) - z
               b == o[i] - z
    <2>1. /\ a \in 1..Len(s) /\ b \in 1..Len(s) /\ a < b
          /\ z + a = o[i - 1] + 1 /\ z + b = o[i] /\ z + (a - 1) = o[i - 1]
      <3>1. /\ o[i] \in Nat /\ o[i - 1] \in Nat /\ o[i] >= o[i - 1] + 2 /\ o[i] <= Len(w)
            /\ z \in Nat /\ Len(w) \in Nat /\ o[i - 1] >= z
        BY <1>1, <1>2, <1>4, <1>6
      <3>2. Len(s) = Len(w) - z OBVIOUS
      <3>3. AreInRest(o[i - 1], o[i], z, Len(w)) BY <3>1, RestPlaces, Zenon
      <3> QED BY <3>2, <3>3 DEF AreInRest
    <2> HIDE DEF a, b
    <2>2. s[a] = START /\ s[b] = END
      BY <1>1, <2>1
    <2>3. ASSUME NEW k \in a..(b - 1), s[k] = END PROVE FALSE
      <3>1. k \in 1..Len(s) /\ z + k \in 1..Len(w) BY <1>3, <2>1
      <3>2. w[z + k] = END BY <2>3, <3>1
      <3>3. PICK j \in 1..n : z + k = o[j] BY <1>1, <3>1, <3>2
      <3>4. o[i - 1] < o[j] /\ o[j] < o[i] BY <1>2, <1>4, <2>1, <3>1, <3>3
      <3>5. ~(j < i)
        <4>1. j = i - 1 => o[j] = o[i - 1] OBVIOUS
        <4>2. j < i - 1 => o[j] < o[i - 1] BY <1>1, <1>2
        <4>3. o[j] \in Nat /\ o[i - 1] \in Nat BY <1>2
        <4> QED BY <3>4, <4>1, <4>2, <4>3
      <3>6. ~(i < j)
        <4>1. i < j => o[i] < o[j] BY <1>1, <1>2
        <4>2. o[j] \in Nat /\ o[i] \in Nat BY <1>2
        <4> QED BY <3>4, <4>1, <4>2
      <3>7. i # j
        <4>1. o[i] \in Nat BY <1>2
        <4> QED BY <3>4, <4>1
      <3> QED BY <3>5, <3>6, <3>7
    <2>4. ASSUME NEW k \in 1..(a - 1) PROVE \E m \in k..(a - 1) : s[m] = END
      <3>1. a - 1 \in 1..Len(s) /\ a - 1 \in k..(a - 1) /\ z + (a - 1) = o[i - 1]
        <4>1. o[i - 1] \in Nat /\ a \in Nat /\ a <= Len(s) BY <1>2, <1>4, <2>1
        <4>2. a - 1 \in 1..Len(s) /\ a - 1 \in k..(a - 1) BY <1>4, <4>1, PlaceBefore
        <4> QED BY <2>1, <4>2
      <3>2. i - 1 \in 1..n
        <4>1. o[i - 1] # 0 BY <1>4, <3>1
        <4>2. i - 1 # 0
          <5>1. i - 1 = 0 => o[i - 1] = o[0] OBVIOUS
          <5> QED BY <1>1, <4>1, <5>1
        <4> QED BY <1>2, <4>2
      <3>3. s[a - 1] = END BY <1>1, <3>1, <3>2
      <3> QED BY <3>1, <3>3
    <2>5. IsSpan(s, a, b)
      BY <2>1, <2>2, <2>3, <2>4 DEF IsSpan
    <2>6. <<a, b>> \in Spans(s)
      BY <1>4, <2>1, <2>5 DEF Spans
    <2> QED BY <2>6 DEF SpanOf, a, b
  <1> QED BY <1>5, <1>6 DEF AreRestSpans

\* What SpansOfRest says, for the frames j + 1, ..., n.
AreSpans(S, n, o, z, j) ==
  /\ \A q \in S : \E i \in 1..n : j < i /\ q = SpanOf(o, z, i)
  /\ \A i \in 1..n : j < i => SpanOf(o, z, i) \in S

Ascends(o, n) == \A i, k \in 0..n : i < k => o[i] < o[k]

IsTail(fs, s, n, o, z, j, c) ==
  /\ c = Len(s) => Len(fs) = n - j
  /\ \A m \in 1..Len(fs) : j + m \in 1..n /\ fs[m] = SubSeq(s, (o[(j + m) - 1] + 1) - z, o[j + m] - z)

\* The frames returned are these, from the first on, and at the end of the
\* stream all of them.
LEMMA TailFrames ==
  ASSUME NEW n \in Nat, NEW o \in [0..n -> Nat], Ascends(o, n),
         NEW z \in Nat, NEW s \in Seq(Byte), NEW j \in 0..n, AreSpans(Spans(s), n, o, z, j),
         NEW fs \in Seq(Seq(Byte)), NEW c \in 0..Len(s), FramesTo(fs, s, c)
  PROVE  IsTail(fs, s, n, o, z, j, c)
  <1>. \A i, k \in 0..n : i < k => o[i] < o[k]
    BY DEF Ascends
  <1> DEFINE f == Len(fs)
             first(i) == (o[i - 1] + 1) - z
             last(i) == o[i] - z
  <1>1. PICK p \in [DOMAIN fs -> SpansTo(s, c)] :
          /\ \A m \in DOMAIN fs : fs[m] = SubSeq(s, p[m][1], p[m][2])
          /\ \A l, m \in DOMAIN fs : l < m => p[l][2] < p[m][1]
          /\ \A q \in SpansTo(s, c) : \E m \in DOMAIN fs : p[m] = q
    BY DEF FramesTo
  <1>2. f \in Nat /\ DOMAIN fs = 1..f /\ Len(s) \in Nat
    OBVIOUS
  <1>3. \A i \in 1..n : /\ i \in 0..n /\ i - 1 \in 0..n /\ o[i - 1] \in Nat /\ o[i] \in Nat
                        /\ SpanOf(o, z, i)[1] = first(i) /\ SpanOf(o, z, i)[2] = last(i)
    <2> SUFFICES ASSUME NEW i \in 1..n
                 PROVE  /\ i \in 0..n /\ i - 1 \in 0..n /\ o[i - 1] \in Nat /\ o[i] \in Nat
                        /\ SpanOf(o, z, i)[1] = first(i) /\ SpanOf(o, z, i)[2] = last(i)
      OBVIOUS
    <2>1. i \in 0..n /\ i - 1 \in 0..n OBVIOUS
    <2>2. o[i - 1] \in Nat /\ o[i] \in Nat BY <2>1
    <2> QED BY <2>1, <2>2 DEF SpanOf
  <1>4. \A i, k \in 1..n : i < k => last(i) < last(k) /\ last(i) < first(k)
    <2> SUFFICES ASSUME NEW i \in 1..n, NEW k \in 1..n, i < k
                 PROVE  last(i) < last(k) /\ last(i) < first(k)
      OBVIOUS
    <2>1. o[i] < o[k] BY <1>3
    <2>2. o[i] <= o[k - 1]
      <3>1. i = k - 1 => o[i] = o[k - 1] OBVIOUS
      <3>2. i < k - 1 => o[i] < o[k - 1] BY <1>3
      <3> QED BY <1>3, <3>1, <3>2
    <2>3. o[i] \in Nat /\ o[k] \in Nat /\ o[k - 1] \in Nat BY <1>3
    <2> QED BY <2>1, <2>2, <2>3
  <1>5. \A i \in 1..n : last(i) \in Int /\ first(i) \in Int
    <2> SUFFICES ASSUME NEW i \in 1..n PROVE last(i) \in Int /\ first(i) \in Int
      OBVIOUS
    <2>1. o[i] \in Nat /\ o[i - 1] \in Nat BY <1>3
    <2> QED BY <2>1
  <1> HIDE DEF f, first, last
  <1> DEFINE At(m) == j + m \in 1..n /\ p[m] = SpanOf(o, z, j + m)
             T == {m \in Nat : m <= f => \A l \in 1..m : At(l)}
  <1>6. ASSUME NEW m \in 1..f
        PROVE  \E i \in 1..n : j < i /\ p[m] = SpanOf(o, z, i) /\ p[m][1] = first(i) /\ p[m][2] = last(i) /\ last(i) <= c
    <2>1. p[m] \in SpansTo(s, c) BY <1>1, <1>2
    <2>2. p[m] \in Spans(s) /\ p[m][2] <= c BY <2>1 DEF SpansTo
    <2>3. PICK i \in 1..n : j < i /\ p[m] = SpanOf(o, z, i) BY <2>2 DEF AreSpans
    <2> QED BY <1>3, <2>2, <2>3
  <1>7. ASSUME NEW i \in 1..n, j < i, last(i) <= c
        PROVE  \E m \in 1..f : p[m] = SpanOf(o, z, i)
    <2>1. SpanOf(o, z, i) \in Spans(s) /\ SpanOf(o, z, i)[2] <= c
      BY <1>3, <1>7 DEF AreSpans
    <2>2. SpanOf(o, z, i) \in SpansTo(s, c) BY <2>1 DEF SpansTo
    <2> QED BY <1>1, <1>2, <2>2
  <1>8. \A i, k \in 1..n : SpanOf(o, z, i) = SpanOf(o, z, k) => i = k
    <2> SUFFICES ASSUME NEW i \in 1..n, NEW k \in 1..n, SpanOf(o, z, i) = SpanOf(o, z, k)
                 PROVE  i = k
      OBVIOUS
    <2>1. last(i) = last(k) BY <1>3
    <2>2. i < k => last(i) < last(k) BY <1>4
    <2>3. k < i => last(k) < last(i) BY <1>4
    <2> QED BY <1>5, <2>1, <2>2, <2>3
  <1>9. \A l, m \in 1..f : l < m => p[l][2] < p[m][1]
    BY <1>1, <1>2
  <1>10. 0 \in T
    OBVIOUS
  <1>11. ASSUME NEW m \in Nat, m \in T PROVE m + 1 \in T
    <2> SUFFICES ASSUME m + 1 <= f PROVE \A l \in 1..(m + 1) : At(l)
      OBVIOUS
    <2>1. \A l \in 1..m : At(l)
      BY <1>2, <1>11
    <2>2. m + 1 \in 1..f
      BY <1>2
    <2>3. PICK t \in 1..n : /\ j < t /\ p[m + 1] = SpanOf(o, z, t)
                            /\ p[m + 1][1] = first(t) /\ p[m + 1][2] = last(t) /\ last(t) <= c
      BY <1>6, <2>2
    <2>4. t >= j + (m + 1)
      <3>1. CASE m = 0 BY <2>3, <3>1
      <3>2. CASE m # 0
        <4>1. m \in 1..m /\ m \in 1..f /\ m < m + 1 BY <1>2, <2>2, <3>2
        <4>2. j + m \in 1..n /\ p[m] = SpanOf(o, z, j + m) BY <2>1, <4>1
        <4>3. last(j + m) < first(t)
          <5>1. p[m][2] < p[m + 1][1] BY <1>9, <2>2, <4>1
          <5>2. p[m][2] = last(j + m) BY <1>3, <4>2
          <5> QED BY <2>3, <5>1, <5>2
        <4>4. first(t) <= last(t)
          <5>1. t - 1 \in 0..n /\ t \in 0..n /\ t - 1 < t BY <1>3
          <5>2. o[t - 1] < o[t] BY <5>1
          <5> QED BY <1>3, <5>2 DEF first, last
        <4>5. ~(t < j + m)
          <5>1. t < j + m => last(t) < last(j + m) BY <1>4, <4>2
          <5> QED BY <1>5, <4>2, <4>3, <4>4, <5>1
        <4>6. t # j + m
          <5>1. t = j + m => last(t) = last(j + m) OBVIOUS
          <5> QED BY <1>5, <4>2, <4>3, <4>4, <5>1
        <4> QED BY <4>5, <4>6
      <3> QED BY <3>1, <3>2
    <2>5. ASSUME t > j + (m + 1) PROVE FALSE
      <3> DEFINE i == j + (m + 1)
      <3>1. i \in 1..n /\ j < i /\ i < t BY <2>5
      <3> HIDE DEF i
      <3>2. last(i) < last(t) /\ last(i) < first(t) BY <1>4, <3>1
      <3>3. last(i) <= c BY <1>5, <2>3, <3>1, <3>2
      <3>4. PICK l \in 1..f : p[l] = SpanOf(o, z, i) BY <1>7, <3>1, <3>3
      <3>5. p[l][2] = last(i) /\ p[l][1] = first(i) BY <1>3, <3>1, <3>4
      <3>6. CASE l <= m
        <4>1. l \in 1..m BY <3>6
        <4>2. j + l \in 1..n /\ p[l] = SpanOf(o, z, j + l) BY <2>1, <4>1
        <4>3. i = j + l BY <1>8, <3>1, <3>4, <4>2
        <4> QED BY <3>6, <4>3 DEF i
      <3>7. CASE l = m + 1
        <4>1. i = t BY <1>8, <2>3, <3>1, <3>4, <3>7
        <4> QED BY <3>1, <4>1
      <3>8. CASE m + 1 < l
        <4>1. p[m + 1][2] < p[l][1] BY <1>9, <2>2, <3>8
        <4>2. last(t) < first(i) BY <2>3, <3>5, <4>1
        <4>3. first(i) <= last(i)
          <5>1. i - 1 \in 0..n /\ i \in 0..n /\ i - 1 < i BY <1>3, <3>1
          <5>2. o[i - 1] < o[i] BY <5>1
          <5>3. o[i - 1] \in Nat /\ o[i] \in Nat BY <1>3, <3>1
          <5> QED BY <5>2, <5>3 DEF first, last
        <4> QED BY <1>5, <3>1, <3>2, <4>2, <4>3
      <3> QED BY <1>2, <3>6, <3>7, <3>8
    <2>6. t = j + (m + 1)
      BY <2>4, <2>5
    <2>7. At(m + 1)
      BY <2>3, <2>6
    <2> HIDE DEF At
    <2>8. \A l \in 1..(m + 1) : l \in 1..m \/ l = m + 1 OBVIOUS
    <2> QED BY <2>1, <2>7, <2>8
  <1>12. \A m \in 1..f : At(m)
    <2>1. Nat \subseteq T
      <3> HIDE DEF T
      <3> QED BY <1>10, <1>11, InductionOnNat
    <2>2. f \in T BY <1>2, <2>1
    <2> HIDE DEF At
    <2> QED BY <1>2, <2>2
  <1>13. ASSUME NEW m \in 1..Len(fs)
         PROVE  j + m \in 1..n /\ fs[m] = SubSeq(s, (o[(j + m) - 1] + 1) - z, o[j + m] - z)
    <2>1. At(m) BY <1>12 DEF f
    <2>2. fs[m] = SubSeq(s, p[m][1], p[m][2]) BY <1>1, <1>2 DEF f
    <2>3. p[m][1] = first(j + m) /\ p[m][2] = last(j + m) BY <1>3, <2>1
    <2> QED BY <2>1, <2>2, <2>3 DEF first, last
  <1>14. ASSUME c = Len(s) PROVE f = n - j
    <2>1. f <= n - j
      <3>1. CASE f = 0 BY <3>1
      <3>2. CASE f # 0
        <4>1. At(f) BY <1>2, <1>12, <3>2
        <4> QED BY <1>2, <4>1
      <3> QED BY <3>1, <3>2
    <2>2. f >= n - j
      <3>1. CASE j = n BY <1>2, <3>1
      <3>2. CASE j # n
        <4>1. n \in 1..n /\ j < n BY <3>2
        <4>2. last(n) <= c
          <5>1. SpanOf(o, z, n) \in Spans(s) BY <4>1 DEF AreSpans
          <5>2. SpanOf(o, z, n)[2] \in 1..Len(s) BY <5>1, SpanTyped
          <5>3. last(n) \in 1..Len(s) BY <1>3, <4>1, <5>2
          <5> QED BY <1>2, <1>14, <5>3
        <4>3. PICK m \in 1..f : p[m] = SpanOf(o, z, n) BY <1>7, <4>1, <4>2
        <4>4. At(m) BY <1>12
        <4>5. j + m = n BY <1>8, <4>1, <4>3, <4>4
        <4> QED BY <1>2, <4>5
      <3> QED BY <3>1, <3>2
    <2> QED BY <1>2, <2>1, <2>2
  <1> QED BY <1>13, <1>14 DEF f, IsTail

Encodings(fs) == [i \in DOMAIN fs |-> Encode(fs[i])]

LEMMA EncodeFramed ==
  ASSUME NEW f \in RawFrames
  PROVE  /\ Encode(f) \in Seq(Byte)
         /\ Len(Encode(f)) >= 2 /\ Encode(f)[1] = START /\ Encode(f)[Len(Encode(f))] = END
         /\ \A k \in 2..(Len(Encode(f)) - 1) : Encode(f)[k] \notin {START, END}
  <1> DEFINE w == Encode(f)
             d == <<f.dest, f.src, f.type>> \o f.payload
             cs == Checksum(StuffBytes(d))
             e == <<cs \div 256, cs % 256>>
             x == Len(StuffBytes(d))
             y == Len(StuffBytes(e))
  <1>1. Encodes(f) BY EncodeIs
  <1>2. /\ x \in Nat /\ y \in Nat /\ w \in Seq(Byte) /\ Len(w) = x + y + 2
        /\ w[1] = START /\ w[x + y + 2] = END
        /\ \A i \in 2..(x + y + 1) : w[i] \notin {START, END}
    BY <1>1 DEF Encodes
  <1> HIDE DEF w, x, y
  <1>3. Len(w) >= 2 /\ Len(w) - 1 = x + y + 1 BY <1>2
  <1>4. /\ w \in Seq(Byte) /\ Len(w) >= 2 /\ w[1] = START /\ w[Len(w)] = END
        /\ \A k \in 2..(Len(w) - 1) : w[k] \notin {START, END}
    BY <1>2, <1>3
  <1> QED BY <1>4 DEF w

LEMMA WireOf ==
  ASSUME NEW fs \in Seq(RawFrames)
  PROVE  /\ Encodings(fs) \in Seq(Seq(Byte)) /\ Len(Encodings(fs)) = Len(fs)
         /\ \A i \in 1..Len(fs) : Encodings(fs)[i] = Encode(fs[i]) /\ fs[i] \in RawFrames
         /\ Framed(Encodings(fs))
         /\ Wire(fs) \in Seq(Byte) /\ \E o : Placed(Encodings(fs), Wire(fs), o)
  <1> DEFINE ee == Encodings(fs)
             n == Len(fs)
  <1>1. n \in Nat /\ DOMAIN fs = 1..n /\ \A i \in 1..n : fs[i] \in RawFrames
    OBVIOUS
  <1>2. \A i \in 1..n : Encode(fs[i]) \in Seq(Byte)
    BY <1>1, EncodeFramed
  <1> HIDE DEF n
  <1>3. ee = [i \in 1..n |-> Encode(fs[i])]
    BY <1>1 DEF Encodings
  <1>4. ee \in Seq(Seq(Byte)) /\ Len(ee) = n
    BY <1>1, <1>2, <1>3
  <1>5. \A i \in 1..n : ee[i] = Encode(fs[i])
    BY <1>3
  <1>6. Wire(fs) = FlattenSeq(ee)
    BY DEF Wire, Encodings
  <1> HIDE DEF ee
  <1>7. Wire(fs) \in Seq(Byte) /\ \E o : Placed(ee, Wire(fs), o)
    BY <1>4, <1>6, FlattenIs
  <1>8. Framed(ee)
    <2> SUFFICES ASSUME NEW i \in 1..n
                 PROVE  /\ Len(ee[i]) >= 2 /\ ee[i][1] = START /\ ee[i][Len(ee[i])] = END
                        /\ \A k \in 2..(Len(ee[i]) - 1) : ee[i][k] \notin {START, END}
      BY <1>4 DEF Framed
    <2>1. ee[i] = Encode(fs[i]) /\ fs[i] \in RawFrames BY <1>1, <1>5
    <2> QED BY <2>1, EncodeFramed
  <1> QED BY <1>1, <1>4, <1>5, <1>7, <1>8 DEF ee, n

\* Where a frame begins is where those before it end.
LEMMA WireOffsets ==
  ASSUME NEW fs \in Seq(RawFrames), NEW i \in 1..Len(fs),
         NEW o, Placed(Encodings(fs), Wire(fs), o)
  PROVE  Len(Wire(SubSeq(fs, 1, i - 1))) = o[i - 1]
  <1> DEFINE g == SubSeq(fs, 1, i - 1)
  <1>1. /\ g \in Seq(RawFrames) /\ Len(g) = i - 1 /\ Len(g) <= Len(fs)
        /\ \A k \in 1..(i - 1) : g[k] = fs[k] /\ k \in 1..Len(fs)
    <2>1. /\ g \in Seq(RawFrames)
          /\ Len(g) = IF 1 <= i - 1 THEN i - 1 - 1 + 1 ELSE 0
          /\ \A k \in 1..(i - 1 - 1 + 1) : g[k] = fs[1 + k - 1]
      BY SubSeqProperties
    <2> HIDE DEF g
    <2>2. Len(g) = i - 1 BY <2>1
    <2>3. \A k \in 1..(i - 1) : k \in 1..(i - 1 - 1 + 1) /\ 1 + k - 1 = k /\ k \in 1..Len(fs) OBVIOUS
    <2> QED BY <2>1, <2>2, <2>3
  <1> HIDE DEF g
  <1>2. /\ Encodings(g) \in Seq(Seq(Byte)) /\ Len(Encodings(g)) = i - 1
        /\ \A k \in 1..(i - 1) : Encodings(g)[k] = Encode(g[k])
        /\ \E p : Placed(Encodings(g), Wire(g), p)
    BY <1>1, WireOf
  <1>3. /\ Encodings(fs) \in Seq(Seq(Byte)) /\ Len(Encodings(fs)) = Len(fs)
        /\ \A k \in 1..Len(fs) : Encodings(fs)[k] = Encode(fs[k])
    BY WireOf
  <1>4. PICK p : Placed(Encodings(g), Wire(g), p)
    BY <1>2
  <1>5. /\ Len(Encodings(g)) <= Len(Encodings(fs))
        /\ \A k \in 1..Len(Encodings(g)) : Encodings(g)[k] = Encodings(fs)[k]
    BY <1>1, <1>2, <1>3
  <1>6. p[Len(Encodings(g))] = o[Len(Encodings(g))]
    <2>1. PICK tt : tt = Encodings(g) OBVIOUS
    <2>2. PICK ss : ss = Encodings(fs) OBVIOUS
    <2>3. /\ tt \in Seq(Seq(Byte)) /\ ss \in Seq(Seq(Byte)) /\ Len(tt) <= Len(ss)
          /\ \A k \in 1..Len(tt) : tt[k] = ss[k]
          /\ Placed(ss, Wire(fs), o) /\ Placed(tt, Wire(g), p)
      BY <1>2, <1>3, <1>4, <1>5, <2>1, <2>2
    <2>4. p[Len(tt)] = o[Len(tt)]
      BY <2>3, PlacedOnce
    <2> QED BY <2>1, <2>4
  <1>7. Len(Wire(g)) = p[Len(Encodings(g))]
    BY <1>4 DEF Placed
  <1> QED BY <1>2, <1>6, <1>7 DEF g

\* The frames that begin in the first z bytes are the first ones.
LEMMA FirstOnes ==
  ASSUME NEW n \in Nat, NEW o \in [0..n -> Nat], \A i, k \in 0..n : i < k => o[i] < o[k],
         NEW z \in Nat
  PROVE  \E j \in 0..n : /\ {i \in 1..n : o[i - 1] < z} = 1..j
                         /\ \A i \in 1..n : j < i <=> o[i - 1] >= z
  <1> DEFINE E == {i \in 1..(n + 1) : i = n + 1 \/ o[i - 1] >= z}
             m == Min(E)
  <1>1. n + 1 \in E /\ E \in SUBSET Nat
    OBVIOUS
  <1>2. m \in E /\ \A y \in E : m <= y
    <2> HIDE DEF E
    <2> QED BY <1>1, MinIs
  <1> HIDE DEF m
  <1>3. m - 1 \in 0..n /\ m \in 1..(n + 1)
    BY <1>2
  <1>4. ASSUME NEW i \in 1..n PROVE m - 1 < i <=> o[i - 1] >= z
    <2>1. i - 1 \in 0..n /\ o[i - 1] \in Nat
      <3>1. i - 1 \in 0..n OBVIOUS
      <3> QED BY <3>1
    <2>2. CASE i < m
      <3>1. i \notin E BY <1>2, <1>3, <2>2
      <3> QED BY <1>3, <2>1, <2>2, <3>1
    <2>3. CASE i = m
      <3>1. o[i - 1] >= z BY <1>2, <2>3
      <3> QED BY <1>3, <2>3, <3>1
    <2>4. CASE m < i
      <3>1. m \in 1..n /\ m - 1 \in 0..n /\ m - 1 < i - 1 BY <1>3, <2>4
      <3>2. o[m - 1] >= z BY <1>2, <3>1
      <3>3. o[m - 1] < o[i - 1] BY <2>1, <3>1
      <3>4. o[m - 1] \in Nat BY <3>1
      <3> QED BY <1>3, <2>1, <2>4, <3>2, <3>3, <3>4
    <2> QED BY <1>3, <2>2, <2>3, <2>4
  <1>5. {i \in 1..n : o[i - 1] < z} = 1..(m - 1)
    <2>1. \A i \in 1..n : o[i - 1] \in Nat
      <3>1. \A i \in 1..n : i - 1 \in 0..n OBVIOUS
      <3> QED BY <3>1
    <2>2. \A i \in 1..n : o[i - 1] < z <=> i \in 1..(m - 1) BY <1>3, <1>4, <2>1
    <2>3. \A i \in 1..(m - 1) : i \in 1..n BY <1>3
    <2> QED BY <2>2, <2>3
  <1> QED BY <1>3, <1>4, <1>5

\* The stream is what is left of the frames that were sent.
FromDevice ==
  sent # <<>> =>
    sent \in Seq(RawFrames) /\ skipped \in 0..Len(Wire(sent)) /\ stream = Joined(sent, skipped)

\* The frames that end at c or before, and what they parse to.
LEMMA DeviceFrames ==
  ASSUME Inv, FromDevice, sent # <<>>, NEW c \in 0..Len(stream), FramesTo(frames, stream, c)
  PROVE  IsPrefix(Parsed, WholeFrames) /\ (c = Len(stream) => Parsed = WholeFrames)
  <1> DEFINE n == Len(sent)
             w == Wire(sent)
             ee == Encodings(sent)
             z == skipped
             s == stream
             f == Len(frames)
  <1>1. sent \in Seq(RawFrames) /\ z \in 0..Len(w) /\ s = SubSeq(w, z + 1, Len(w)) /\ n \in Nat
    BY DEF FromDevice, Joined
  <1>2. /\ ee \in Seq(Seq(Byte)) /\ Len(ee) = n /\ Framed(ee) /\ w \in Seq(Byte)
        /\ \A i \in 1..n : ee[i] = Encode(sent[i]) /\ sent[i] \in RawFrames
        /\ \E o : Placed(ee, w, o)
    BY <1>1, WireOf
  <1>3. s \in Seq(Byte) /\ Len(s) \in Nat /\ frames \in Seq(Seq(Byte)) /\ f \in Nat /\ Len(w) \in Nat
    BY <1>2, InvTyped
  <1> HIDE DEF n, w, ee, z, s, f
  <1>4. PICK o : Placed(ee, w, o)
    BY <1>2
  <1>5. Marked(n, w, o)
    <2>1. Marked(Len(ee), w, o) BY <1>2, <1>4, MarkedIs
    <2> QED BY <1>2, <2>1
  <1>6. /\ o \in [0..n -> Nat] /\ Len(w) = o[n] /\ \A i, k \in 0..n : i < k => o[i] < o[k]
        /\ \A i \in 1..n : o[i] = o[i - 1] + Len(ee[i])
        /\ \A i \in 1..n : \A k \in 1..Len(ee[i]) : w[o[i - 1] + k] = ee[i][k]
    BY <1>2, <1>4, <1>5 DEF Marked, Placed
  <1>7. z \in Nat
    BY <1>1, <1>3
  <1>8. PICK j \in 0..n : /\ {i \in 1..n : o[i - 1] < z} = 1..j
                          /\ \A i \in 1..n : j < i <=> o[i - 1] >= z
    BY <1>1, <1>6, <1>7, FirstOnes
  <1>9. WholeFrames = SubSeq(sent, 1 + j, n)
    <2>1. ASSUME NEW i \in 1..n PROVE Offset(i) = o[i - 1]
      <3>1. i \in 1..Len(sent) /\ Placed(Encodings(sent), Wire(sent), o) BY <1>4 DEF n, w, ee
      <3> QED BY <1>1, <3>1, WireOffsets DEF Offset
    <2>2. DOMAIN sent = 1..n BY <1>1 DEF n
    <2>3. {i \in DOMAIN sent : Offset(i) < skipped} = 1..j
      <3>1. {i \in DOMAIN sent : Offset(i) < skipped} = {i \in 1..n : o[i - 1] < z}
        BY <2>1, <2>2 DEF z
      <3> QED BY <1>8, <3>1
    <2>4. Cardinality(1..j) = j
      <3>1. Cardinality(1..j) = IF 1 > j THEN 0 ELSE j - 1 + 1
        BY <1>1, FS_Interval
      <3> QED BY <1>1, <3>1
    <2>5. Len(sent) = n BY DEF n
    <2> QED BY <2>3, <2>4, <2>5 DEF WholeFrames
  <1>10. Len(s) = Len(w) - z /\ \A k \in 1..Len(s) : s[k] = w[z + k]
    <2>1. /\ Len(s) = IF z + 1 <= Len(w) THEN Len(w) - (z + 1) + 1 ELSE 0
          /\ \A k \in 1..(Len(w) - (z + 1) + 1) : s[k] = w[(z + 1) + k - 1]
      <3>1. z + 1 \in Int /\ Len(w) \in Int /\ \A i \in (z + 1)..Len(w) : w[i] \in Byte
        BY <1>2, <1>3, <1>7
      <3> QED BY <1>1, <3>1, SubSeqProperties
    <2>2. Len(s) = Len(w) - z /\ Len(w) - (z + 1) + 1 = Len(w) - z
      BY <1>1, <1>3, <1>7, <2>1
    <2>3. \A k \in 1..Len(s) : (z + 1) + k - 1 = z + k
      BY <1>3, <1>7
    <2> QED BY <2>1, <2>2, <2>3
  <1>11. AreSpans(Spans(s), n, o, z, j)
    <2>1. IsRest(s, w, z) BY <1>10 DEF IsRest
    <2>2. AreRestSpans(Spans(s), n, o, z)
      BY <1>1, <1>3, <1>5, <2>1, SpansOfRest, Zenon
    <2> QED BY <1>8, <2>2 DEF AreSpans, AreRestSpans
  <1>12. IsTail(frames, s, n, o, z, j, c) /\ (c = Len(s) => f = n - j)
    <2>1. c \in 0..Len(s) /\ FramesTo(frames, s, c) BY DEF s
    <2>2. Ascends(o, n) /\ o \in [0..n -> Nat] BY <1>6 DEF Ascends
    <2>3. IsTail(frames, s, n, o, z, j, c)
      BY <1>1, <1>3, <1>7, <1>11, <2>1, <2>2, TailFrames, Zenon
    <2> QED BY <2>3 DEF f, IsTail
  <1>13. ASSUME NEW m \in 1..f PROVE j + m \in 1..n /\ Parsed[m] = sent[j + m]
    <2> DEFINE i == j + m
               a == o[i - 1]
               b == o[i]
               t == ee[i]
    <2>1. i \in 1..n /\ frames[m] = SubSeq(s, (a + 1) - z, b - z)
      BY <1>12 DEF IsTail, f
    <2>2. j < i BY <1>1, <1>3
    <2> HIDE DEF i
    <2>3. a >= z /\ a \in Nat /\ b \in Nat /\ b = a + Len(t) /\ b <= Len(w)
      <3>1. i - 1 \in 0..n /\ i \in 0..n /\ n \in 0..n BY <1>1, <2>1
      <3>2. b <= o[n]
        <4>1. CASE i = n BY <1>6, <3>1, <4>1
        <4>2. CASE i # n
          <5>1. i < n BY <1>1, <2>1, <4>2
          <5>2. o[i] < o[n] /\ o[i] \in Nat /\ o[n] \in Nat BY <1>6, <3>1, <5>1
          <5> QED BY <5>2
        <4> QED BY <4>1, <4>2
      <3> QED BY <1>6, <1>8, <2>1, <2>2, <3>1, <3>2
    <2>4. t \in Seq(Byte) /\ Len(t) \in Nat /\ Len(t) >= 2 /\ t = Encode(sent[i]) /\ sent[i] \in RawFrames
      <3>1. t \in Seq(Byte) BY <1>2, <2>1
      <3> QED BY <1>2, <2>1, <3>1, LenProperties DEF Framed
    <2>5. \A k \in 1..Len(t) : w[a + k] = t[k]
      BY <1>6, <2>1
    <2> HIDE DEF a, b, t
    <2>6. SubSeq(s, (a + 1) - z, b - z) = t
      <3> DEFINE x == SubSeq(s, (a + 1) - z, b - z)
      <3>1. /\ (a + 1) - z \in Int /\ b - z \in Int /\ (a + 1) - z <= b - z
            /\ (b - z) - ((a + 1) - z) + 1 = Len(t)
        BY <1>7, <2>3, <2>4
      <3>2. \A k \in ((a + 1) - z)..(b - z) : k \in 1..Len(s)
        BY <1>3, <1>7, <1>10, <2>3
      <3>3. \A k \in ((a + 1) - z)..(b - z) : s[k] \in Byte
        BY <1>3, <3>2
      <3>4. /\ x \in Seq(Byte) /\ Len(x) = (b - z) - ((a + 1) - z) + 1
            /\ \A k \in 1..((b - z) - ((a + 1) - z) + 1) : x[k] = s[((a + 1) - z) + k - 1]
        BY <3>1, <3>3, SubSeqProperties
      <3> HIDE DEF x
      <3>5. ASSUME NEW k \in 1..Len(t) PROVE x[k] = t[k]
        <4>1. /\ ((a + 1) - z) + k - 1 = (a + k) - z /\ (a + k) - z \in ((a + 1) - z)..(b - z)
              /\ z + ((a + k) - z) = a + k
          BY <1>7, <2>3, <2>4
        <4>2. x[k] = s[(a + k) - z] BY <3>1, <3>4, <4>1
        <4>3. s[(a + k) - z] = w[a + k] BY <1>10, <3>2, <4>1
        <4> QED BY <2>5, <4>2, <4>3
      <3>6. x = t BY <2>4, <3>1, <3>4, <3>5, SeqEqual
      <3> QED BY <3>6 DEF x
    <2>7. Parsed[m] = Parse(frames[m])
      <3>1. m \in DOMAIN frames BY <1>3 DEF f
      <3> QED BY <3>1 DEF Parsed
    <2>8. Parse(Encode(sent[i])) = sent[i]
      BY <2>4, ParsesEncoded
    <2> QED BY <2>1, <2>4, <2>6, <2>7, <2>8 DEF i
  <1> DEFINE p == Parsed
             v == WholeFrames
  <1>14. /\ v \in Seq(RawFrames) /\ Len(v) = n - j
         /\ \A m \in 1..(n - j) : v[m] = sent[j + m]
    <2>1. /\ 1 + j \in Int /\ n \in Int /\ \A k \in (1 + j)..n : sent[k] \in RawFrames
          /\ n - (1 + j) + 1 = n - j /\ (1 + j <= n \/ n - j = 0)
          /\ \A m \in 1..(n - j) : (1 + j) + m - 1 = j + m
      BY <1>1, <1>2
    <2>2. /\ v \in Seq(RawFrames)
          /\ Len(v) = IF 1 + j <= n THEN n - (1 + j) + 1 ELSE 0
          /\ \A m \in 1..(n - (1 + j) + 1) : v[m] = sent[(1 + j) + m - 1]
      BY <1>9, <2>1, SubSeqProperties
    <2> HIDE DEF v
    <2> QED BY <1>1, <2>1, <2>2
  <1>15. p = [m \in 1..f |-> Parse(frames[m])]
    <2>1. DOMAIN frames = 1..f BY <1>3 DEF f
    <2> QED BY <2>1 DEF Parsed
  <1>16. p \in Seq(RawFrames) /\ Len(p) = f
    <2>1. \A m \in 1..f : Parse(frames[m]) \in RawFrames
      <3> SUFFICES ASSUME NEW m \in 1..f PROVE Parse(frames[m]) \in RawFrames
        OBVIOUS
      <3>1. p[m] = Parse(frames[m]) BY <1>15
      <3>2. p[m] = sent[j + m] /\ j + m \in 1..n BY <1>13
      <3> QED BY <1>2, <3>1, <3>2
    <2> HIDE DEF p
    <2> QED BY <1>3, <1>15, <2>1
  <1>17. f <= n - j
    <2>1. CASE f = 0 BY <1>1, <2>1
    <2>2. CASE f # 0
      <3>1. f \in 1..f BY <1>3, <2>2
      <3>2. j + f \in 1..n BY <1>13, <3>1
      <3> QED BY <1>1, <1>3, <3>2
    <2> QED BY <2>1, <2>2
  <1>18. \A m \in 1..f : p[m] = v[m]
    <2> SUFFICES ASSUME NEW m \in 1..f PROVE p[m] = v[m]
      OBVIOUS
    <2>1. m \in 1..(n - j) BY <1>1, <1>3, <1>17
    <2> QED BY <1>13, <1>14, <2>1
  <1> HIDE DEF p, v
  <1>19. IsPrefix(p, v)
    <2> DEFINE x == SubSeq(p, 1, f)
               y == SubSeq(v, 1, f)
    <2>1. /\ 1 \in Int /\ f \in Int /\ f - 1 + 1 = f
          /\ (1 <= f \/ f = 0)
          /\ \A m \in 1..f : p[m] \in RawFrames /\ v[m] \in RawFrames
          /\ \A m \in 1..f : 1 + m - 1 = m
      BY <1>3, <1>14, <1>16, <1>17
    <2>2. /\ x \in Seq(RawFrames) /\ Len(x) = IF 1 <= f THEN f - 1 + 1 ELSE 0
          /\ \A m \in 1..(f - 1 + 1) : x[m] = p[1 + m - 1]
      BY <2>1, SubSeqProperties
    <2>3. /\ y \in Seq(RawFrames) /\ Len(y) = IF 1 <= f THEN f - 1 + 1 ELSE 0
          /\ \A m \in 1..(f - 1 + 1) : y[m] = v[1 + m - 1]
      BY <2>1, SubSeqProperties
    <2> HIDE DEF x, y
    <2>4. Len(x) = f /\ Len(y) = f /\ \A m \in 1..f : x[m] = y[m]
      BY <1>3, <1>18, <2>1, <2>2, <2>3
    <2>5. x = y BY <2>2, <2>3, <2>4, SeqEqual
    <2> QED BY <1>14, <1>16, <1>17, <2>5 DEF IsPrefix, x, y
  <1>20. ASSUME c = Len(s) PROVE p = v
    <2>1. f = n - j BY <1>12, <1>20
    <2> QED BY <1>14, <1>16, <1>18, <2>1, SeqEqual
  <1> QED BY <1>19, <1>20 DEF p, v, s

LinkInv == Inv /\ Tracks /\ FromDevice

LEMMA LinkInvInit == LinkInit => LinkInv
  BY InvInit, InitTracks, SendableAssumption DEF LinkInit, LinkInv, FromDevice

LEMMA LinkInvNext == LinkInv /\ [LinkNext]_linkVars => LinkInv'
  <1> SUFFICES ASSUME LinkInv, [LinkNext]_linkVars PROVE LinkInv'
    OBVIOUS
  <1>1. [Next]_splitterVars /\ UNCHANGED <<sent, skipped>>
    BY DEF LinkNext, linkVars
  <1>2. Inv' /\ Tracks'
    BY <1>1, InvNext, TracksNext DEF LinkInv
  <1>3. UNCHANGED stream
    BY <1>1 DEF Next, Split, Feed, NoFrame, IncompleteFrame, CompleteFrame, splitterVars
  <1> QED BY <1>1, <1>2, <1>3 DEF LinkInv, FromDevice, Joined, Wire

\* A client that connects anywhere in the stream of a device loses the frame
\* it connects in and no other: what it has parsed are the later frames, the
\* first of them first and each as it was sent, whatever bytes the frames
\* hold, however long they are and however the stream is cut; and when the
\* stream has been read it has parsed all of them.
THEOREM FramesArrive == LinkSpec => []WholeFramesArrive
  <1>1. LinkInv => WholeFramesArrive
    <2> SUFFICES ASSUME LinkInv, sent # <<>>
                 PROVE  /\ IsPrefix(Parsed, WholeFrames)
                        /\ pc = "idle" /\ read = Len(stream) => Parsed = WholeFrames
      BY DEF WholeFramesArrive
    <2>1. Cut \in 0..Len(stream) /\ read \in 0..Len(stream) /\ FramesTo(frames, stream, Cut)
      BY InvTyped DEF LinkInv, Tracks
    <2>2. IsPrefix(Parsed, WholeFrames)
      BY <2>1, DeviceFrames DEF LinkInv
    <2>3. ASSUME pc = "idle", read = Len(stream) PROVE Parsed = WholeFrames
      <3>1. FramesTo(frames, stream, read) BY <2>3, IdleFrames DEF LinkInv
      <3> QED BY <2>1, <2>3, <3>1, DeviceFrames DEF LinkInv
    <2> QED BY <2>2, <2>3
  <1> QED BY <1>1, LinkInvInit, LinkInvNext, PTL DEF LinkSpec

=============================================================================
