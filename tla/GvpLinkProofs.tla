---------------------------- MODULE GvpLinkProofs ----------------------------
(***************************************************************************)
(* GvpLink implements GvpClient, for any streams of the camera and every   *)
(* way the network cuts them: what NullSplitter finds are the messages of  *)
(* the stream, one for one, and everything ConnectionProofs says of a      *)
(* client over whole messages holds for the one over bytes.                *)
(***************************************************************************)
EXTENDS GvpLink, SequenceLemmas

-----------------------------------------------------------------------------
(* What is cut out of a sequence between two positions.                    *)

\* A part of a sequence by its length and its elements.
LEMMA PartIs ==
  ASSUME NEW S, NEW s \in Seq(S), NEW a \in Nat, NEW b \in Nat, 1 <= a, a <= b + 1, b <= Len(s)
  PROVE  /\ SubSeq(s, a, b) \in Seq(S)
         /\ Len(SubSeq(s, a, b)) = b - a + 1
         /\ \A k \in 1..(b - a + 1) : SubSeq(s, a, b)[k] = s[a + k - 1]
  <1>1. \A i \in a..b : s[i] \in S
    <2>1. \A i \in a..b : i \in 1..Len(s) BY LenProperties
    <2> QED BY <2>1, ElementOfSeq
  <1>2. /\ SubSeq(s, a, b) \in Seq(S)
        /\ Len(SubSeq(s, a, b)) = IF a <= b THEN b - a + 1 ELSE 0
        /\ \A k \in 1..(b - a + 1) : SubSeq(s, a, b)[k] = s[a + k - 1]
    BY <1>1, SubSeqProperties
  <1> DEFINE l == Len(SubSeq(s, a, b))
  <1>3. l = b - a + 1
    <2>1. l = IF a <= b THEN b - a + 1 ELSE 0 BY <1>2
    <2> HIDE DEF l
    <2> QED BY <2>1
  <1> QED BY <1>2, <1>3

\* Equal elements, equal parts.
LEMMA SamePart ==
  ASSUME NEW S, NEW s \in Seq(S), NEW t \in Seq(S),
         NEW a \in Nat, NEW b \in Nat, NEW c \in Nat, NEW d \in Nat,
         1 <= a, a <= b + 1, b <= Len(s), 1 <= c, c <= d + 1, d <= Len(t), b - a = d - c,
         \A k \in 1..(b - a + 1) : s[a + k - 1] = t[c + k - 1]
  PROVE  SubSeq(s, a, b) = SubSeq(t, c, d)
  <1> DEFINE x == SubSeq(s, a, b)
             y == SubSeq(t, c, d)
             n == b - a + 1
  <1>1. x \in Seq(S) /\ Len(x) = n /\ \A k \in 1..n : x[k] = s[a + k - 1]
    BY PartIs
  <1>2. d - c + 1 = n OBVIOUS
  <1>3. y \in Seq(S) /\ Len(y) = d - c + 1 /\ \A k \in 1..(d - c + 1) : y[k] = t[c + k - 1]
    BY PartIs
  <1>4. y \in Seq(S) /\ Len(y) = n /\ \A k \in 1..n : y[k] = t[c + k - 1]
    <2> HIDE DEF n, y
    <2> QED BY <1>2, <1>3
  <1>5. \A k \in 1..n : s[a + k - 1] = t[c + k - 1] OBVIOUS
  <1> HIDE DEF x, y, n
  <1>6. x = y BY <1>1, <1>4, <1>5, SeqEqual
  <1> QED BY <1>6 DEF x, y

-----------------------------------------------------------------------------
(* The segments of a stream.                                               *)

\* Where the messages of a stream end, up to a position, and how many do.
Ends(s, p) == {i \in TextEnds(s) : i <= p}
Count(s, p) == Cardinality(Ends(s, p))

\* A segment begins behind the last terminator.
LEMMA SegmentIs ==
  ASSUME NEW s \in Seq(Byte), NEW c \in Nat, NEW i \in (c + 1)..Len(s),
         c = 0 \/ s[c] = NULL, \A j \in (c + 1)..(i - 1) : s[j] # NULL
  PROVE  SegmentAt(s, i) = SubSeq(s, c + 1, i - 1)
  <1> DEFINE B == {j \in 1..(i - 1) : s[j] = NULL}
  <1>1. SegmentAt(s, i) = SubSeq(s, IF B = {} THEN 1 ELSE Max(B) + 1, i - 1)
    BY DEF SegmentAt
  <1>2. \A j \in B : j <= c
    OBVIOUS
  <1>3. CASE c = 0
    <2>1. B = {} BY <1>2, <1>3
    <2> HIDE DEF B
    <2> QED BY <1>1, <1>3, <2>1
  <1>4. CASE c # 0
    <2>1. c \in B BY <1>4
    <2>2. B \in SUBSET (0..(i - 1)) OBVIOUS
    <2>3. i - 1 \in Nat OBVIOUS
    <2> HIDE DEF B
    <2>4. Max(B) \in B /\ Max(B) >= c BY <2>1, <2>2, <2>3, MaxIs
    <2>5. Max(B) = c
      <3>1. Max(B) <= c /\ Max(B) \in 0..(i - 1) BY <1>2, <2>2, <2>4
      <3> QED BY <2>4, <3>1
    <2> QED BY <1>1, <2>1, <2>5
  <1> QED BY <1>3, <1>4

\* There is one before every position.
LEMMA LastNull ==
  ASSUME NEW s \in Seq(Byte), NEW i \in 1..Len(s)
  PROVE  \E c \in 0..(i - 1) :
           /\ c = 0 \/ s[c] = NULL
           /\ \A j \in (c + 1)..(i - 1) : s[j] # NULL
  <1> DEFINE B == {j \in 0..(i - 1) : j = 0 \/ s[j] = NULL}
  <1>1. 0 \in B /\ B \in SUBSET (0..(i - 1)) /\ i - 1 \in Nat
    OBVIOUS
  <1>2. Max(B) \in B /\ \A y \in B : Max(B) >= y
    <2> HIDE DEF B
    <2> QED BY <1>1, MaxIs
  <1>3. ASSUME NEW j \in (Max(B) + 1)..(i - 1) PROVE s[j] # NULL
    <2>1. Max(B) \in 0..(i - 1) BY <1>2
    <2>2. j \in 0..(i - 1) /\ j > Max(B) BY <2>1
    <2>3. j \notin B
      <3>1. j \in B => Max(B) >= j BY <1>2
      <3> QED BY <2>1, <2>2, <3>1
    <2> QED BY <2>2, <2>3
  <1> QED BY <1>2, <1>3

\* A stream has the segments of each of its beginnings.
LEMMA PrefixSegment ==
  ASSUME NEW s \in Seq(Byte), NEW p \in 0..Len(s), NEW i \in 1..p
  PROVE  SegmentAt(SubSeq(s, 1, p), i) = SegmentAt(s, i)
  <1> DEFINE t == SubSeq(s, 1, p)
  <1>1. t \in Seq(Byte) /\ Len(t) = p /\ \A k \in 1..p : t[k] = s[k]
    <2>1. p - 1 + 1 = p /\ \A k \in 1..p : 1 + k - 1 = k OBVIOUS
    <2>2. t \in Seq(Byte) /\ Len(t) = p - 1 + 1 /\ \A k \in 1..(p - 1 + 1) : t[k] = s[1 + k - 1]
      BY PartIs
    <2> HIDE DEF t
    <2> QED BY <2>1, <2>2
  <1> HIDE DEF t
  <1>2. PICK c \in 0..(i - 1) :
          /\ c = 0 \/ s[c] = NULL
          /\ \A j \in (c + 1)..(i - 1) : s[j] # NULL
    <2>1. i \in 1..Len(s) OBVIOUS
    <2> QED BY <2>1, LastNull
  <1>3. c \in Nat /\ i \in (c + 1)..Len(s) /\ i \in (c + 1)..Len(t)
    BY <1>1
  <1>4. SegmentAt(s, i) = SubSeq(s, c + 1, i - 1)
    BY <1>2, <1>3, SegmentIs
  <1>5. c = 0 \/ t[c] = NULL
    <2>1. c # 0 => c \in 1..p OBVIOUS
    <2> QED BY <1>1, <1>2, <2>1
  <1>6. \A j \in (c + 1)..(i - 1) : t[j] # NULL
    <2>1. \A j \in (c + 1)..(i - 1) : j \in 1..p OBVIOUS
    <2> QED BY <1>1, <1>2, <2>1
  <1>7. SegmentAt(t, i) = SubSeq(t, c + 1, i - 1)
    BY <1>1, <1>3, <1>5, <1>6, SegmentIs
  <1>8. SubSeq(s, c + 1, i - 1) = SubSeq(t, c + 1, i - 1)
    <2> DEFINE a == c + 1
               b == i - 1
    <2>1. a \in Nat /\ b \in Nat /\ 1 <= a /\ a <= b + 1 /\ b <= Len(s) /\ b <= Len(t)
      BY <1>1
    <2>2. \A k \in 1..(b - a + 1) : a + k - 1 \in 1..p OBVIOUS
    <2>3. \A k \in 1..(b - a + 1) : s[a + k - 1] = t[a + k - 1] BY <1>1, <2>2
    <2>4. b - a = b - a OBVIOUS
    <2> HIDE DEF a, b
    <2>5. SubSeq(s, a, b) = SubSeq(t, a, b) BY <1>1, <2>1, <2>3, <2>4, SamePart
    <2> QED BY <2>5 DEF a, b
  <1> QED BY <1>4, <1>7, <1>8 DEF t

LEMMA PrefixEnds ==
  ASSUME NEW s \in Seq(Byte), NEW p \in 0..Len(s)
  PROVE  TextEnds(SubSeq(s, 1, p)) = Ends(s, p)
  <1> DEFINE t == SubSeq(s, 1, p)
  <1>1. t \in Seq(Byte) /\ Len(t) = p /\ DOMAIN t = 1..p /\ \A k \in 1..p : t[k] = s[k]
    <2>1. p - 1 + 1 = p /\ \A k \in 1..p : 1 + k - 1 = k OBVIOUS
    <2>2. t \in Seq(Byte) /\ Len(t) = p - 1 + 1 /\ \A k \in 1..(p - 1 + 1) : t[k] = s[1 + k - 1]
      BY PartIs
    <2>3. DOMAIN t = 1..Len(t) BY <2>2, LenProperties
    <2> HIDE DEF t
    <2> QED BY <2>1, <2>2, <2>3
  <1>2. \A i \in 1..p : SegmentAt(t, i) = SegmentAt(s, i)
    BY PrefixSegment
  <1> HIDE DEF t
  <1>3. TextEnds(t) = {i \in 1..p : t[i] = NULL /\ HasText(SegmentAt(t, i))}
    BY <1>1 DEF TextEnds
  <1>4. Ends(s, p) = {i \in 1..p : s[i] = NULL /\ HasText(SegmentAt(s, i))}
    <2>1. DOMAIN s = 1..Len(s) /\ Len(s) \in Nat BY LenProperties
    <2>2. \A i : i \in 1..p <=> i \in 1..Len(s) /\ i <= p BY <2>1
    <2> QED BY <2>1, <2>2 DEF Ends, TextEnds
  <1>5. TextEnds(t) = Ends(s, p) BY <1>1, <1>2, <1>3, <1>4
  <1> QED BY <1>5 DEF t

LEMMA EndsFinite ==
  ASSUME NEW s \in Seq(Byte), NEW p \in Nat
  PROVE  IsFiniteSet(Ends(s, p)) /\ Count(s, p) \in Nat /\ Count(s, p) <= Cardinality(TextEnds(s))
  <1>1. IsFiniteSet(1..Len(s))
    BY FS_Interval, LenProperties
  <1>2. TextEnds(s) \in SUBSET (1..Len(s)) /\ Ends(s, p) \in SUBSET TextEnds(s)
    BY LenProperties DEF TextEnds, Ends
  <1>3. IsFiniteSet(TextEnds(s)) BY <1>1, <1>2, FS_Subset
  <1>4. IsFiniteSet(Ends(s, p)) /\ Count(s, p) <= Cardinality(TextEnds(s))
    BY <1>2, <1>3, FS_Subset DEF Count
  <1> QED BY <1>4, FS_CardinalityType DEF Count

\* Up to the next terminator there is one message more or none.
LEMMA NextEnd ==
  ASSUME NEW s \in Seq(Byte), NEW c \in Nat, NEW i \in (c + 1)..Len(s),
         c = 0 \/ s[c] = NULL, \A j \in (c + 1)..(i - 1) : s[j] # NULL, s[i] = NULL
  PROVE  /\ i \notin Ends(s, c)
         /\ SegmentAt(s, i) = SubSeq(s, c + 1, i - 1)
         /\ Ends(s, i) = IF HasText(SubSeq(s, c + 1, i - 1)) THEN Ends(s, c) \cup {i} ELSE Ends(s, c)
  <1>1. SegmentAt(s, i) = SubSeq(s, c + 1, i - 1)
    BY SegmentIs
  <1>2. TextEnds(s) \subseteq 1..Len(s) /\ DOMAIN s = 1..Len(s) /\ Len(s) \in Nat
    BY LenProperties DEF TextEnds
  <1>3. \A j \in TextEnds(s) : s[j] = NULL
    BY DEF TextEnds
  <1>4. i \in TextEnds(s) <=> HasText(SubSeq(s, c + 1, i - 1))
    <2>1. i \in DOMAIN s BY <1>2
    <2> QED BY <1>1, <2>1 DEF TextEnds
  <1>5. \A j \in TextEnds(s) : j <= i <=> j <= c \/ j = i
    BY <1>2, <1>3
  <1>6. ~(i <= c) OBVIOUS
  <1> QED BY <1>1, <1>4, <1>5, <1>6, Zenon DEF Ends

LEMMA NoEnd ==
  ASSUME NEW s \in Seq(Byte), NEW c \in Nat, NEW p \in c..Len(s),
         \A j \in (c + 1)..p : s[j] # NULL
  PROVE  Ends(s, p) = Ends(s, c)
  <1>1. TextEnds(s) \subseteq 1..Len(s) /\ Len(s) \in Nat
    BY LenProperties DEF TextEnds
  <1>2. \A j \in TextEnds(s) : s[j] = NULL
    BY DEF TextEnds
  <1>3. \A j \in TextEnds(s) : j <= p <=> j <= c
    BY <1>1, <1>2
  <1> QED BY <1>3, Zenon DEF Ends

\* Trim cuts a message out of a segment that has text.
LEMMA TrimIs ==
  ASSUME NEW s \in Seq(Byte)
  PROVE  /\ Trim(s) \in Seq(Byte)
         /\ Trim(s) # <<>> <=> \E i \in DOMAIN s : s[i] # Blank
         /\ Trim(s) # <<>> => IsMessageOf(Trim(s), s) /\ NumberOf(Trim(s)) = NumberOf(s)
  <1> DEFINE I == {i \in DOMAIN s : s[i] # Blank}
  <1>1. DOMAIN s = 1..Len(s) /\ Len(s) \in Nat BY LenProperties
  <1>2. Trim(s) = IF I = {} THEN <<>> ELSE SubSeq(s, Min(I), Max(I)) BY DEF Trim
  <1>3. CASE I = {}
    <2>1. Trim(s) = <<>> BY <1>2, <1>3
    <2>2. ~ \E i \in DOMAIN s : s[i] # Blank BY <1>3
    <2> QED BY <2>1, <2>2, EmptySeq
  <1>4. CASE I # {}
    <2> DEFINE a == Min(I)
               b == Max(I)
               t == SubSeq(s, a, b)
    <2>1. I \in SUBSET Nat /\ I \in SUBSET (0..Len(s)) /\ I \subseteq 1..Len(s) BY <1>1
    <2>2. a \in I /\ \A y \in I : a <= y
      <3> HIDE DEF I
      <3> QED BY <1>4, <2>1, MinIs
    <2>3. b \in I /\ \A y \in I : b >= y
      <3> HIDE DEF I
      <3> QED BY <1>1, <1>4, <2>1, MaxIs
    <2>4. /\ a \in 1..Len(s) /\ b \in 1..Len(s) /\ s[a] # Blank /\ s[b] # Blank
          /\ \A i \in DOMAIN s : s[i] # Blank => i \in a..b
      <3>1. a \in DOMAIN s /\ b \in DOMAIN s /\ s[a] # Blank /\ s[b] # Blank
        <4> HIDE DEF a, b
        <4> QED BY <2>2, <2>3
      <3>2. ASSUME NEW i \in DOMAIN s, s[i] # Blank PROVE i \in a..b
        <4>1. i \in I BY <3>2
        <4>2. a <= i /\ b >= i
          <5> HIDE DEF a, b, I
          <5> QED BY <2>2, <2>3, <4>1
        <4>3. i \in Nat BY <1>1
        <4> HIDE DEF a, b
        <4> QED BY <1>1, <3>1, <4>2, <4>3
      <3> HIDE DEF a, b
      <3> QED BY <1>1, <3>1, <3>2
    <2>5. t = Trim(s) BY <1>2, <1>4
    <2> HIDE DEF a, b
    <2>6. a <= b /\ a \in Nat /\ b \in Nat /\ 1 <= a /\ a <= b + 1 /\ b <= Len(s)
      BY <1>1, <2>4
    <2>7. t \in Seq(Byte) /\ Len(t) = b - a + 1 /\ \A k \in 1..(b - a + 1) : t[k] = s[a + k - 1]
      BY <2>6, PartIs
    <2>8. IsMessageOf(t, s)
      <3>1. a \in DOMAIN s /\ b \in DOMAIN s BY <1>1, <2>4
      <3> QED BY <2>4, <3>1 DEF IsMessageOf
    <2>9. DOMAIN t = 1..(b - a + 1) BY <2>7, LenProperties
    <2> HIDE DEF t
    <2>10. t # <<>> BY <2>6, <2>7, EmptySeq
    <2>11. NumbersIn(t) = NumbersIn(s)
      <3>1. ASSUME NEW n \in 1..26, NEW i \in DOMAIN t, t[i] \in {64 + n, 160 + n}
            PROVE  \E j \in DOMAIN s : s[j] \in {64 + n, 160 + n}
        <4>1. i \in 1..(b - a + 1) /\ a + i - 1 \in DOMAIN s BY <1>1, <2>6, <2>9
        <4> QED BY <2>7, <3>1, <4>1
      <3>2. ASSUME NEW n \in 1..26, NEW j \in DOMAIN s, s[j] \in {64 + n, 160 + n}
            PROVE  \E i \in DOMAIN t : t[i] \in {64 + n, 160 + n}
        <4>1. s[j] # Blank BY <3>2 DEF Blank
        <4>2. j \in a..b BY <2>4, <4>1
        <4>3. j - a + 1 \in 1..(b - a + 1) /\ a + (j - a + 1) - 1 = j BY <2>6, <4>2
        <4>4. t[j - a + 1] = s[j] BY <2>7, <4>3
        <4> QED BY <2>9, <3>2, <4>3, <4>4
      <3> QED BY <3>1, <3>2, Zenon DEF NumbersIn
    <2>12. NumberOf(t) = NumberOf(s) BY <2>11 DEF NumberOf
    <2>13. \E i \in DOMAIN s : s[i] # Blank BY <1>4
    <2> QED BY <2>5, <2>7, <2>8, <2>10, <2>12, <2>13
  <1> QED BY <1>3, <1>4

-----------------------------------------------------------------------------
(* Numbers of texts, and the frames that are on their way.                 *)

Text == {t \in Seq(Byte) : t # <<>> /\ NumberOf(t) \in DOMAIN Content}

LEMMA ContentIs ==
  /\ Len(Content) \in Nat /\ DOMAIN Content = 1..Len(Content)
  /\ \A n \in DOMAIN Content : Content[n] \in Json
  <1>1. PICK n \in 0..26 : Content \in [1..n -> Json] BY GvpLinkAssumption
  <1>2. Content \in Seq(Json) BY <1>1
  <1> QED BY <1>1, <1>2, LenProperties

\* decode() returns an event or one of its errors.
LEMMA DecodeIs ==
  /\ \A n \in DOMAIN Content : Decode(Content[n]) \in Events \cup DecodeErrors
  /\ "Config" \in Events
  /\ \A r \in Events : r \notin DecodeErrors /\ r # "None" /\ r # "Disconnected"
  <1>1. DOMAIN Variant = {"CONFIG", "STATUS", "LOG", "RESULT", "MT_VIDEO_AVAILABLE"}
    BY DEF Variant
  <1>2. Events = {"Config", "Status", "Log", "Result", "VideoAvailable", "Unknown"}
    BY DEF Events, Variant
  <1>3. ASSUME NEW j \in Json PROVE Decode(j) \in Events \cup DecodeErrors
    <2>1. j.json \in BOOLEAN BY DEF Json
    <2>2. CASE ~j.json
      BY <2>2 DEF Decode, DecodeErrors
    <2>3. CASE j.json /\ j.type = ""
      <3>1. j.type \notin DOMAIN Variant BY <1>1, <2>3
      <3>2. Decode(j) = "ProtocolError" BY <2>3, <3>1 DEF Decode
      <3> QED BY <3>2 DEF DecodeErrors
    <2>4. CASE j.json /\ j.type # "" /\ j.type \in DOMAIN Variant
      <3>1. Variant[j.type] \in Events BY <2>4 DEF Events
      <3>2. Decode(j) = IF j.body THEN Variant[j.type] ELSE "JsonError" BY <2>4 DEF Decode
      <3> QED BY <3>1, <3>2 DEF DecodeErrors
    <2>5. CASE j.json /\ j.type # "" /\ j.type \notin DOMAIN Variant
      <3>1. Decode(j) = "Unknown" BY <2>5 DEF Decode
      <3> QED BY <3>1, <1>2
    <2> QED BY <2>1, <2>2, <2>3, <2>4, <2>5
  <1> QED BY <1>2, <1>3, ContentIs DEF DecodeErrors

LEMMA NumbersIs ==
  ASSUME NEW s \in Seq(Text)
  PROVE  /\ Len(s) \in Nat /\ DOMAIN s = 1..Len(s)
         /\ Numbers(s) \in Seq(Nat) /\ Len(Numbers(s)) = Len(s)
         /\ DOMAIN Numbers(s) = 1..Len(s)
         /\ \A i \in 1..Len(s) : /\ s[i] \in Text
                                 /\ Numbers(s)[i] = NumberOf(s[i])
                                 /\ NumberOf(s[i]) \in 1..Len(Content)
  <1>1. Len(s) \in Nat /\ DOMAIN s = 1..Len(s) BY LenProperties
  <1>2. \A i \in 1..Len(s) : s[i] \in Text BY ElementOfSeq
  <1>3. \A i \in 1..Len(s) : NumberOf(s[i]) \in 1..Len(Content) BY <1>2, ContentIs DEF Text
  <1>4. Numbers(s) = [i \in 1..Len(s) |-> NumberOf(s[i])] BY <1>1 DEF Numbers
  <1>5. \A i \in 1..Len(s) : NumberOf(s[i]) \in Nat BY <1>3, ContentIs
  <1>6. Numbers(s) \in Seq(Nat) /\ Len(Numbers(s)) = Len(s) BY <1>1, <1>4, <1>5, SMT
  <1> QED BY <1>1, <1>2, <1>3, <1>4, <1>6

LEMMA NumbersAppend ==
  ASSUME NEW s \in Seq(Text), NEW t \in Text
  PROVE  Numbers(Append(s, t)) = Append(Numbers(s), NumberOf(t))
  <1> DEFINE x == Append(s, t)
             n == NumberOf(t)
             y == Append(Numbers(s), n)
  <1>1. /\ x \in Seq(Text) /\ Len(x) = Len(s) + 1
        /\ \A i \in 1..Len(s) : x[i] = s[i]
        /\ x[Len(s) + 1] = t
    BY AppendProperties
  <1>2. n \in Nat BY ContentIs DEF Text
  <1>3. Len(s) \in Nat /\ Numbers(s) \in Seq(Nat) /\ Len(Numbers(s)) = Len(s)
        /\ \A i \in 1..Len(s) : Numbers(s)[i] = NumberOf(s[i])
    BY NumbersIs
  <1>4. /\ y \in Seq(Nat) /\ Len(y) = Len(s) + 1
        /\ \A i \in 1..Len(s) : y[i] = Numbers(s)[i]
        /\ y[Len(s) + 1] = n
    BY <1>2, <1>3, AppendProperties
  <1>5. Numbers(x) \in Seq(Nat) /\ Len(Numbers(x)) = Len(x)
        /\ \A i \in 1..Len(x) : Numbers(x)[i] = NumberOf(x[i])
    BY <1>1, NumbersIs
  <1>6. n = NumberOf(t) OBVIOUS
  <1> HIDE DEF x, y, n
  <1>7. \A i \in 1..Len(Numbers(x)) : Numbers(x)[i] = y[i]
    <2> SUFFICES ASSUME NEW i \in 1..(Len(s) + 1) PROVE Numbers(x)[i] = y[i]
      BY <1>1, <1>5
    <2>1. CASE i = Len(s) + 1
      BY <1>1, <1>4, <1>5, <1>6, <2>1
    <2>2. CASE i # Len(s) + 1
      <3>1. i \in 1..Len(s) BY <1>3, <2>2
      <3>2. Numbers(x)[i] = NumberOf(x[i]) BY <1>1, <1>5
      <3> QED BY <1>1, <1>3, <1>4, <3>1, <3>2
    <2> QED BY <2>1, <2>2
  <1>8. Numbers(x) = y BY <1>1, <1>4, <1>5, <1>7, SeqEqual
  <1> QED BY <1>8 DEF x, y, n

\* The numbers behind t up to s.
Queue(t, s) == [i \in 1..(s - t) |-> t + i]

LEMMA QueueIs ==
  ASSUME NEW t \in Nat, NEW s \in Nat, t <= s
  PROVE  /\ Queue(t, s) \in Seq(Nat) /\ Len(Queue(t, s)) = s - t
         /\ \A i \in 1..(s - t) : Queue(t, s)[i] = t + i
  <1>1. Queue(t, s) = [i \in 1..(s - t) |-> t + i] BY DEF Queue
  <1>2. s - t \in Nat /\ \A i \in 1..(s - t) : t + i \in Nat OBVIOUS
  <1> QED BY <1>1, <1>2, SMT

LEMMA QueueAppend ==
  ASSUME NEW t \in Nat, NEW s \in Nat, t <= s
  PROVE  Queue(t, s + 1) = Append(Queue(t, s), s + 1)
  <1> DEFINE x == Queue(t, s + 1)
             q == Queue(t, s)
             y == Append(q, s + 1)
  <1>1. /\ q \in Seq(Nat) /\ Len(q) = s - t /\ \A i \in 1..(s - t) : q[i] = t + i
    BY QueueIs
  <1>2. s + 1 \in Nat /\ t <= s + 1 /\ s + 1 - t = s - t + 1 OBVIOUS
  <1>3. /\ x \in Seq(Nat) /\ Len(x) = s + 1 - t /\ \A i \in 1..(s + 1 - t) : x[i] = t + i
    BY <1>2, QueueIs
  <1> HIDE DEF x, q
  <1>4. /\ y \in Seq(Nat) /\ Len(y) = Len(q) + 1
        /\ \A i \in 1..Len(q) : y[i] = q[i]
        /\ y[Len(q) + 1] = s + 1
    BY <1>1, <1>2, AppendProperties
  <1> HIDE DEF y
  <1>5. Len(x) = Len(y) /\ \A i \in 1..Len(x) : x[i] = y[i]
    <2>1. Len(x) = Len(y) BY <1>1, <1>2, <1>3, <1>4
    <2> SUFFICES ASSUME NEW i \in 1..(s + 1 - t) PROVE x[i] = y[i]
      BY <1>3, <2>1
    <2>2. CASE i = s - t + 1
      <3>1. t + i = s + 1 BY <2>2
      <3> QED BY <1>1, <1>3, <1>4, <2>2, <3>1
    <2>3. CASE i # s - t + 1
      <3>1. i \in 1..(s - t) BY <2>3
      <3> QED BY <1>1, <1>3, <1>4, <3>1
    <2> QED BY <2>2, <2>3
  <1>6. x = y BY <1>3, <1>4, <1>5, SeqEqual
  <1> QED BY <1>6 DEF x, y, q

LEMMA QueueTake ==
  ASSUME NEW t \in Nat, NEW s \in Nat, t <= s, NEW k \in 1..(s - t)
  PROVE  /\ SubSeq(Queue(t, s), 1, k) = Queue(t, t + k)
         /\ SubSeq(Queue(t, s), k + 1, Len(Queue(t, s))) = Queue(t + k, s)
  <1> DEFINE q == Queue(t, s)
             l == s - t
             a == SubSeq(q, 1, k)
             b == SubSeq(q, k + 1, l)
             x == Queue(t, t + k)
             y == Queue(t + k, s)
  <1>1. q \in Seq(Nat) /\ Len(q) = l /\ \A i \in 1..l : q[i] = t + i
    BY QueueIs
  <1>2. /\ l \in Nat /\ k \in 1..l /\ t + k \in Nat /\ t <= t + k /\ t + k <= s
        /\ (t + k) - t = k /\ s - (t + k) = l - k
    OBVIOUS
  <1>3. x \in Seq(Nat) /\ Len(x) = k /\ \A i \in 1..k : x[i] = t + i
    BY <1>2, QueueIs
  <1>4. y \in Seq(Nat) /\ Len(y) = l - k /\ \A i \in 1..(l - k) : y[i] = (t + k) + i
    BY <1>2, QueueIs
  <1> HIDE DEF q, x, y, l
  <1>5. a \in Seq(Nat) /\ Len(a) = k - 1 + 1 /\ \A i \in 1..(k - 1 + 1) : a[i] = q[1 + i - 1]
    BY <1>1, <1>2, PartIs
  <1>6. b \in Seq(Nat) /\ Len(b) = l - (k + 1) + 1
        /\ \A i \in 1..(l - (k + 1) + 1) : b[i] = q[(k + 1) + i - 1]
    <2>1. k + 1 \in Nat /\ 1 <= k + 1 /\ k + 1 <= l + 1 BY <1>2
    <2> QED BY <1>1, <1>2, <2>1, PartIs
  <1> HIDE DEF a, b
  <1>7. a = x
    <2>1. k - 1 + 1 = k /\ \A i \in 1..k : 1 + i - 1 = i /\ i \in 1..l BY <1>2
    <2>2. Len(a) = Len(x) /\ \A i \in 1..Len(a) : a[i] = x[i]
      BY <1>1, <1>3, <1>5, <2>1
    <2> QED BY <1>3, <1>5, <2>2, SeqEqual
  <1>8. b = y
    <2>1. l - (k + 1) + 1 = l - k
          /\ \A i \in 1..(l - k) : (k + 1) + i - 1 = k + i /\ k + i \in 1..l /\ t + (k + i) = (t + k) + i
      BY <1>2
    <2>2. Len(b) = Len(y) /\ \A i \in 1..Len(b) : b[i] = y[i]
      BY <1>1, <1>4, <1>6, <2>1
    <2> QED BY <1>4, <1>6, <2>2, SeqEqual
  <1> QED BY <1>1, <1>7, <1>8 DEF a, b, x, y, q

-----------------------------------------------------------------------------
(* The client over whole messages.                                         *)

\* What GvpClient knows of the state.
ConfigOf(c) == IF c = <<>> THEN 0 ELSE NumberOf(c)
RejectedOf(R) == {NumberOf(t) : t \in R}
RetOf(r) ==
  CASE r \in Events -> "Message"
    [] r \in DecodeErrors -> "WireError"
    [] OTHER -> r

\* The proofs about GvpClient, read for GvpLink.
P ==
  INSTANCE ConnectionProofs
    WITH MaxFrames <- Len(Content),
         Corrupt <- NumbersWhere(DecodeErrors),
         Configs <- NumbersWhere({"Config"}),
         sent <- Sent,
         wire <- Queue(Taken, Sent),
         pending <- Numbers(pending),
         delivered <- Numbers(delivered),
         rejected <- RejectedOf(rejected),
         config <- ConfigOf(config),
         ret <- RetOf(ret)

LEMMA SameInit == P!GvpInit => Client!GvpInit
  BY DEF P!GvpInit, Client!GvpInit, P!Init, Client!Init, ConfigOf, RejectedOf, RetOf, Unread, Queue

LEMMA SameNext == [P!GvpNext]_(P!gvpVars) => [Client!GvpNext]_(Client!gvpVars)
  BY DEF P!GvpNext, Client!GvpNext, P!gvpVars, Client!gvpVars, P!vars, Client!vars,
         P!PollMessage, Client!PollMessage, P!PollOther, Client!PollOther, P!Camera, Client!Camera,
         P!RecvPending, Client!RecvPending, P!RecvRead, Client!RecvRead,
         P!RecvNothing, Client!RecvNothing, P!RecvDisconnected, Client!RecvDisconnected,
         P!DeviceSends, Client!DeviceSends, P!DeviceCloses, Client!DeviceCloses,
         P!HandOut, Client!HandOut, P!Cached, Client!Cached,
         P!First, Client!First, P!Stash, Client!Stash, P!Front, Client!Front,
         P!Last, Client!Last, P!Reverse, Client!Reverse,
         ConfigOf, RejectedOf, RetOf, Unread, Queue

-----------------------------------------------------------------------------
(* The invariant.                                                          *)

Results == Events \cup DecodeErrors \cup {"None", "Disconnected"}

Typed ==
  /\ stream \in Streams /\ written \in 0..Len(stream) /\ read \in 0..written
  /\ open \in BOOLEAN /\ pc \in {"idle", "split"}
  /\ buf \in Seq(Byte) /\ Len(buf) <= read
  /\ messages \in Seq(Text) /\ pending \in Seq(Text) /\ delivered \in Seq(Text)
  /\ rejected \in SUBSET Text /\ IsFiniteSet(rejected)
  /\ config = <<>> \/ config \in Text
  /\ ret \in Results

\* The buffer holds what has been read behind Cut, where a segment begins.
Cut == read - Len(buf)
Boundary(p) == p = 0 \/ stream[p] = NULL

InPlace ==
  /\ Boundary(written) /\ Boundary(Cut)
  /\ \A i \in 1..Len(buf) : buf[i] = stream[Cut + i]
  /\ pc = "idle" => \A i \in 1..Len(buf) : buf[i] # NULL

\* The messages up to Cut have been taken, but for those of the running feed(),
\* which are the next ones.
Batch == IF pc = "split" THEN messages ELSE <<>>

Counted ==
  /\ Taken + Len(Batch) = Count(stream, Cut)
  /\ \A i \in 1..Len(Batch) : NumberOf(Batch[i]) = Taken + i
  /\ pc = "split" => pending = <<>>

Found ==
  \A i \in Ends(stream, Cut) :
    \E t \in Elements(pending) \cup Handed \cup Elements(Batch) :
      IsMessageOf(t, SegmentAt(stream, i))

Tracks == Typed /\ InPlace /\ Counted /\ Found
IInv == Tracks /\ P!IInv

\* Numbers and positions, as far as the steps need them.
LEMMA Known ==
  ASSUME IInv
  PROVE  /\ stream \in Seq(Byte) /\ Len(stream) \in Nat /\ DOMAIN stream = 1..Len(stream)
         /\ buf \in Seq(Byte) /\ Len(buf) \in Nat
         /\ Cut \in 0..read /\ read = Cut + Len(buf) /\ read \in 0..written
         /\ written \in 0..Len(stream)
         /\ Len(pending) \in Nat /\ Len(delivered) \in Nat /\ Cardinality(rejected) \in Nat
         /\ Len(Batch) \in Nat /\ Batch \in Seq(Text)
         /\ Taken \in Nat /\ Sent \in Nat /\ Len(Content) \in Nat
         /\ Sent = Count(stream, written)
         /\ Taken + Len(Batch) <= Sent /\ Sent <= Len(Content)
  <1>1. stream \in Seq(Byte) /\ Len(stream) \in Nat /\ DOMAIN stream = 1..Len(stream)
    BY GvpLinkAssumption, LenProperties DEF IInv, Tracks, Typed
  <1>2. buf \in Seq(Byte) /\ Len(buf) \in Nat /\ read \in 0..written /\ written \in 0..Len(stream)
        /\ Len(buf) <= read
    BY LenProperties DEF IInv, Tracks, Typed
  <1>3. Cut \in 0..read /\ read = Cut + Len(buf)
    BY <1>1, <1>2 DEF Cut
  <1>4. Len(pending) \in Nat /\ Len(delivered) \in Nat /\ Cardinality(rejected) \in Nat
    BY LenProperties, FS_CardinalityType DEF IInv, Tracks, Typed
  <1>5. Batch \in Seq(Text) /\ Len(Batch) \in Nat
    <2>1. Batch \in Seq(Text) BY EmptySeq DEF IInv, Tracks, Typed, Batch
    <2> QED BY <2>1, LenProperties
  <1>6. Taken \in Nat BY <1>4 DEF Taken
  <1>7. Sent = Count(stream, written)
    BY <1>1, <1>2, PrefixEnds DEF Sent, Count
  <1>8. Count(stream, Cut) <= Count(stream, written) /\ Sent \in Nat /\ Count(stream, Cut) \in Nat
    <2>1. Cut \in Nat /\ written \in Nat /\ Cut <= written BY <1>1, <1>2, <1>3
    <2>2. TextEnds(stream) \subseteq Int BY <1>1 DEF TextEnds
    <2>3. Ends(stream, Cut) \in SUBSET Ends(stream, written) BY <2>1, <2>2 DEF Ends
    <2>4. IsFiniteSet(Ends(stream, written)) BY <1>1, <2>1, EndsFinite
    <2>5. Count(stream, Cut) <= Count(stream, written)
      BY <2>3, <2>4, FS_Subset DEF Count
    <2> QED BY <1>1, <1>7, <2>1, <2>5, EndsFinite
  <1>9. Sent <= Len(Content) /\ Len(Content) \in Nat
    <2>1. Cardinality(TextEnds(stream)) <= Len(Content)
      BY GvpLinkAssumption DEF IInv, Tracks, Typed
    <2>2. written \in Nat BY <1>1, <1>2
    <2>3. Count(stream, written) <= Cardinality(TextEnds(stream)) BY <1>1, <2>2, EndsFinite
    <2>4. IsFiniteSet(TextEnds(stream))
      <3>1. TextEnds(stream) \in SUBSET (1..Len(stream)) BY <1>1 DEF TextEnds
      <3>2. IsFiniteSet(1..Len(stream)) BY <1>1, FS_Interval
      <3> QED BY <3>1, <3>2, FS_Subset
    <2>5. Cardinality(TextEnds(stream)) \in Nat BY <2>4, FS_CardinalityType
    <2> QED BY <1>7, <1>8, <2>1, <2>3, <2>5, ContentIs
  <1>10. Taken + Len(Batch) = Count(stream, Cut) BY DEF IInv, Tracks, Counted
  <1> QED BY <1>1, <1>2, <1>3, <1>4, <1>5, <1>6, <1>7, <1>8, <1>9, <1>10

\* What GvpClient's invariant says of the texts pending and rejected.
LEMMA Ordered ==
  ASSUME IInv
  PROVE  /\ Len(pending) > 0 => Len(pending) < Taken
         /\ \A i \in 1..Len(pending) : NumberOf(pending[i]) = Taken - i
         /\ \A t \in rejected : /\ NumberOf(t) <= Taken
                                /\ Len(pending) > 0 => NumberOf(t) # Taken - Len(pending)
  <1>1. Taken \in Nat /\ Sent \in Nat /\ Taken <= Sent /\ Len(pending) \in Nat
    BY Known
  <1>2. Len(Queue(Taken, Sent)) = Sent - Taken
    BY <1>1, QueueIs
  <1>3. P!Top = Taken
    BY <1>1, <1>2 DEF P!Top
  <1>4. Len(Numbers(pending)) = Len(pending)
        /\ \A i \in 1..Len(pending) : Numbers(pending)[i] = NumberOf(pending[i])
    BY NumbersIs DEF IInv, Tracks, Typed
  <1>5. /\ Len(pending) > 0 => Len(pending) < Taken
        /\ \A i \in 1..Len(pending) : NumberOf(pending[i]) = Taken - i
    BY <1>3, <1>4 DEF IInv, P!IInv, P!Shape
  <1>6. P!Handed = {n \in 1..Taken : n = Taken \/ n < Taken - Len(pending)}
    BY <1>3, <1>4 DEF IInv, P!IInv, P!HandedOnes
  <1>7. \A t \in rejected : NumberOf(t) \in P!Handed
    BY DEF P!Handed, RejectedOf
  <1>8. \A t \in rejected : /\ NumberOf(t) <= Taken
                            /\ Len(pending) > 0 => NumberOf(t) # Taken - Len(pending)
    BY <1>1, <1>6, <1>7
  <1> QED BY <1>5, <1>8
-----------------------------------------------------------------------------
(* One text handed out.                                                    *)

LEMMA RetIs ==
  /\ \A r \in Events : RetOf(r) = "Message"
  /\ \A r \in DecodeErrors : RetOf(r) = "WireError"
  /\ RetOf("None") = "None" /\ RetOf("Disconnected") = "Disconnected"
  <1>1. ASSUME NEW r \in Events PROVE RetOf(r) = "Message"
    BY DecodeIs DEF RetOf
  <1>2. ASSUME NEW r \in DecodeErrors PROVE RetOf(r) = "WireError"
    <2>1. r \notin Events BY DecodeIs
    <2> QED BY <2>1 DEF RetOf
  <1>3. RetOf("None") = "None" /\ RetOf("Disconnected") = "Disconnected"
    <2>1. "None" \notin Events /\ "Disconnected" \notin Events BY DecodeIs
    <2>2. "None" \notin DecodeErrors /\ "Disconnected" \notin DecodeErrors BY DEF DecodeErrors
    <2> QED BY <2>1, <2>2 DEF RetOf
  <1> QED BY <1>1, <1>2, <1>3

\* One text handed out is one message handed out, as its event or its error,
\* and the configuration is cached in both.
LEMMA HandOutIs ==
  ASSUME IInv, NEW text \in Text, text \notin rejected, HandOut(text)
  PROVE  /\ P!HandOut(NumberOf(text))
         /\ ConfigOf(config)' =
              IF RetOf(ret)' = "Message" THEN P!Cached(P!Last(Numbers(delivered)')) ELSE ConfigOf(config)
         /\ delivered' \in Seq(Text)
         /\ rejected' \in SUBSET Text /\ IsFiniteSet(rejected')
         /\ Len(delivered') + Cardinality(rejected') = Len(delivered) + Cardinality(rejected) + 1
         /\ Handed' = Handed \cup {text}
         /\ config' = <<>> \/ config' \in Text
         /\ ret' \in Results
  <1> DEFINE n == NumberOf(text)
             result == Decode(Content[n])
  <1>1. n \in DOMAIN Content /\ text # <<>>
    BY DEF Text
  <1>2. result \in Events \cup DecodeErrors
    BY <1>1, DecodeIs
  <1>3. ret' = result BY DEF HandOut
  <1>4. RetOf(ret)' = RetOf(ret') /\ ConfigOf(config)' = ConfigOf(config')
        /\ Numbers(delivered)' = Numbers(delivered') /\ RejectedOf(rejected)' = RejectedOf(rejected')
    BY DEF RetOf, ConfigOf, Numbers, RejectedOf
  <1>5. /\ delivered \in Seq(Text) /\ rejected \in SUBSET Text /\ IsFiniteSet(rejected)
        /\ config = <<>> \/ config \in Text
        /\ Len(delivered) \in Nat /\ Cardinality(rejected) \in Nat
    BY Known DEF IInv, Tracks, Typed
  <1>6. CASE result \in DecodeErrors
    <2>1. rejected' = rejected \cup {text} /\ config' = config /\ delivered' = delivered
      BY <1>6 DEF HandOut
    <2>2. n \in NumbersWhere(DecodeErrors)
      BY <1>1, <1>6 DEF NumbersWhere
    <2>3. RetOf(ret)' = "WireError"
      BY <1>3, <1>4, <1>6, RetIs
    <2>4. RejectedOf(rejected') = RejectedOf(rejected) \cup {n}
      BY <2>1 DEF RejectedOf
    <2>5. P!HandOut(n)
      BY <1>4, <2>1, <2>2, <2>3, <2>4 DEF P!HandOut
    <2>6. Handed' = Handed \cup {text}
      BY <2>1 DEF Handed, Elements
    <2>7. IsFiniteSet(rejected') /\ Cardinality(rejected') = Cardinality(rejected) + 1
      BY <1>5, <2>1, FS_AddElement
    <2>8. ret' \in Results BY <1>3, <1>6 DEF Results
    <2>9. ConfigOf(config)' = ConfigOf(config) BY <1>4, <2>1
    <2>10. rejected' \in SUBSET Text BY <1>5, <2>1
    <2> QED BY <1>5, <2>1, <2>3, <2>5, <2>6, <2>7, <2>8, <2>9, <2>10
  <1>7. CASE result \notin DecodeErrors
    <2>1. rejected' = rejected /\ config' = Cache(text, result) /\ delivered' = Append(delivered, text)
      BY <1>7 DEF HandOut
    <2>2. n \notin NumbersWhere(DecodeErrors)
      BY <1>7 DEF NumbersWhere
    <2>3. RetOf(ret)' = "Message"
      BY <1>2, <1>3, <1>4, <1>7, RetIs
    <2>4. Numbers(delivered') = Append(Numbers(delivered), n)
      BY <1>5, <2>1, NumbersAppend
    <2>5. P!HandOut(n)
      BY <1>4, <2>1, <2>2, <2>3, <2>4 DEF P!HandOut
    <2>6. /\ delivered' \in Seq(Text) /\ Len(delivered') = Len(delivered) + 1
          /\ \A i \in 1..Len(delivered) : delivered'[i] = delivered[i]
          /\ delivered'[Len(delivered) + 1] = text
      BY <1>5, <2>1, AppendProperties
    <2>7. Elements(delivered') = Elements(delivered) \cup {text}
      <3>1. DOMAIN delivered = 1..Len(delivered) /\ DOMAIN delivered' = 1..(Len(delivered) + 1)
        BY <1>5, <2>6, LenProperties
      <3> QED BY <1>5, <2>6, <3>1 DEF Elements
    <2>8. Handed' = Handed \cup {text}
      <3>1. Elements(delivered)' = Elements(delivered') BY DEF Elements
      <3> QED BY <2>1, <2>7, <3>1 DEF Handed
    <2>9. P!Last(Numbers(delivered)') = n
      <3>1. Numbers(delivered) \in Seq(Nat) BY <1>5, NumbersIs
      <3>2. n \in Nat BY <1>1, ContentIs
      <3> DEFINE d == Append(Numbers(delivered), n)
      <3>3. Len(d) = Len(Numbers(delivered)) + 1 /\ d[Len(Numbers(delivered)) + 1] = n
        BY <3>1, <3>2, AppendProperties
      <3> HIDE DEF d, n
      <3>4. P!Last(d) = n BY <3>3 DEF P!Last
      <3> QED BY <1>4, <2>4, <3>4 DEF d
    <2>10. ConfigOf(config') = P!Cached(n)
      <3>1. n \in NumbersWhere({"Config"}) <=> result = "Config"
        BY <1>1 DEF NumbersWhere
      <3>2. config' = IF result = "Config" THEN text ELSE config
        BY <2>1 DEF Cache
      <3> HIDE DEF n, result
      <3>3. ConfigOf(text) = n BY <1>1 DEF ConfigOf, n
      <3> QED BY <3>1, <3>2, <3>3 DEF P!Cached
    <2>11. config' = <<>> \/ config' \in Text
      BY <1>5, <2>1 DEF Cache
    <2>12. ret' \in Results BY <1>2, <1>3 DEF Results
    <2> QED BY <1>4, <1>5, <2>1, <2>3, <2>5, <2>6, <2>8, <2>9, <2>10, <2>11, <2>12
  <1> QED BY <1>6, <1>7

\* What happens to the bytes is nothing to the client over messages.
LEMMA Invisible ==
  ASSUME UNCHANGED <<stream, written, open, pending, config, delivered, rejected, ret>>
  PROVE  /\ UNCHANGED P!gvpVars /\ Sent' = Sent /\ Taken' = Taken
         /\ Handed' = Handed /\ Elements(pending)' = Elements(pending)
  <1>1. Sent' = Sent /\ Taken' = Taken
    BY DEF Sent, Taken
  <1> QED BY <1>1 DEF P!gvpVars, P!vars, Queue, Numbers, ConfigOf, RejectedOf, RetOf, Handed, Elements

\* A segment with its terminator is one message more, or none.
LEMMA CameraWritesStep ==
  ASSUME IInv, CameraWrites
  PROVE  Tracks' /\ [P!GvpNext]_(P!gvpVars)
  <1> DEFINE N == {i \in DOMAIN stream : i > written /\ stream[i] = NULL}
             w == Min(N)
  <1>1. /\ stream \in Seq(Byte) /\ Len(stream) \in Nat /\ DOMAIN stream = 1..Len(stream)
        /\ written \in 0..Len(stream) /\ written < Len(stream) /\ read \in 0..written
        /\ Taken \in Nat /\ Sent \in Nat /\ Taken <= Sent /\ Sent = Count(stream, written)
    BY Known DEF CameraWrites
  <1>2. /\ open /\ written' = w
        /\ stream' = stream /\ open' = open /\ read' = read /\ buf' = buf
        /\ messages' = messages /\ pc' = pc /\ pending' = pending /\ config' = config
        /\ delivered' = delivered /\ rejected' = rejected /\ ret' = ret
    BY DEF CameraWrites, splitterVars, clientVars
  <1>3. w \in N /\ \A y \in N : w <= y
    <2>1. stream[Len(stream)] = NULL
      BY GvpLinkAssumption DEF IInv, Tracks, Typed, Last
    <2>2. Len(stream) \in N /\ N \in SUBSET Nat BY <1>1, <2>1
    <2> HIDE DEF N
    <2> QED BY <2>2, MinIs
  <1>4. /\ w \in (written + 1)..Len(stream) /\ stream[w] = NULL
        /\ \A j \in (written + 1)..(w - 1) : stream[j] # NULL
    <2>1. w \in 1..Len(stream) /\ w > written /\ stream[w] = NULL
      <3> HIDE DEF w
      <3> QED BY <1>1, <1>3
    <2>2. ASSUME NEW j \in (written + 1)..(w - 1) PROVE stream[j] # NULL
      <3>1. j \in 1..Len(stream) /\ j > written /\ ~(w <= j)
        <4> HIDE DEF w
        <4> QED BY <1>1, <2>1
      <3>2. j \notin N
        <4> HIDE DEF w, N
        <4> QED BY <1>3, <3>1
      <3> QED BY <1>1, <3>1, <3>2
    <2> HIDE DEF w
    <2> QED BY <1>1, <2>1, <2>2
  <1> HIDE DEF w, N
  <1>5. written = 0 \/ stream[written] = NULL
    BY DEF IInv, Tracks, InPlace, Boundary
  <1>6. /\ w \notin Ends(stream, written)
        /\ Ends(stream, w) = Ends(stream, written) \cup {w} \/ Ends(stream, w) = Ends(stream, written)
    <2>1. written \in Nat BY <1>1
    <2> QED BY <1>1, <1>4, <1>5, <2>1, NextEnd
  <1>7. Sent' = Count(stream, w)
    <2>1. w \in 0..Len(stream) BY <1>1, <1>4
    <2> QED BY <1>1, <1>2, <2>1, PrefixEnds DEF Sent, Count
  <1>8. Sent' = Sent + 1 \/ Sent' = Sent
    <2>1. IsFiniteSet(Ends(stream, written))
      <3>1. written \in Nat BY <1>1
      <3> QED BY <1>1, <3>1, EndsFinite
    <2>2. Cardinality(Ends(stream, written) \cup {w}) = Cardinality(Ends(stream, written)) + 1
      BY <1>6, <2>1, FS_AddElement
    <2> QED BY <1>1, <1>6, <1>7, <2>2 DEF Count
  <1>9. Taken' = Taken BY <1>2 DEF Taken
  <1>10. Tracks'
    <2>1. Typed'
      <3>1. w \in 0..Len(stream) /\ read \in 0..w BY <1>1, <1>4
      <3> QED BY <1>2, <3>1 DEF IInv, Tracks, Typed
    <2>2. Cut' = Cut BY <1>2 DEF Cut
    <2>3. InPlace' BY <1>2, <1>4, <2>2 DEF IInv, Tracks, InPlace, Boundary
    <2>4. Batch' = Batch BY <1>2 DEF Batch
    <2>5. Counted' BY <1>2, <1>9, <2>2, <2>4 DEF IInv, Tracks, Counted
    <2>6. Found' BY <1>2, <2>2, <2>4 DEF IInv, Tracks, Found, Handed, Elements
    <2> QED BY <2>1, <2>3, <2>5, <2>6 DEF Tracks
  <1>11. [P!GvpNext]_(P!gvpVars)
    <2>1. /\ Numbers(pending)' = Numbers(pending) /\ Numbers(delivered)' = Numbers(delivered)
          /\ RejectedOf(rejected)' = RejectedOf(rejected) /\ ConfigOf(config)' = ConfigOf(config)
          /\ RetOf(ret)' = RetOf(ret)
      BY <1>2 DEF Numbers, RejectedOf, ConfigOf, RetOf
    <2>2. Queue(Taken, Sent)' = Queue(Taken', Sent') BY DEF Queue
    <2>3. CASE Sent' = Sent
      <3>1. UNCHANGED P!gvpVars
        BY <1>2, <1>9, <2>1, <2>2, <2>3 DEF P!gvpVars, P!vars
      <3> QED BY <3>1
    <2>4. CASE Sent' = Sent + 1
      <3>1. Queue(Taken, Sent)' = Append(Queue(Taken, Sent), Sent + 1)
        <4>1. Queue(Taken', Sent') = Queue(Taken, Sent + 1) BY <1>9, <2>4
        <4> QED BY <1>1, <2>2, <4>1, QueueAppend
      <3>2. Sent < Len(Content)
        <4>1. Cardinality(TextEnds(stream)) <= Len(Content)
          BY GvpLinkAssumption DEF IInv, Tracks, Typed
        <4>2. w \in Nat BY <1>1, <1>4
        <4>3. Count(stream, w) <= Cardinality(TextEnds(stream)) BY <1>1, <4>2, EndsFinite
        <4>4. Cardinality(TextEnds(stream)) \in Nat
          <5>1. TextEnds(stream) \in SUBSET (1..Len(stream)) BY <1>1 DEF TextEnds
          <5>2. IsFiniteSet(1..Len(stream)) BY <1>1, FS_Interval
          <5> QED BY <5>1, <5>2, FS_Subset, FS_CardinalityType
        <4> QED BY <1>1, <1>7, <2>4, <4>1, <4>3, <4>4, ContentIs
      <3>3. P!DeviceSends
        BY <1>2, <2>1, <2>4, <3>1, <3>2 DEF P!DeviceSends
      <3> QED BY <2>1, <3>3 DEF P!GvpNext, P!Camera
    <2> QED BY <1>8, <2>3, <2>4
  <1> QED BY <1>10, <1>11

LEMMA CameraClosesStep ==
  ASSUME IInv, CameraCloses
  PROVE  Tracks' /\ [P!GvpNext]_(P!gvpVars)
  <1>1. /\ open /\ open' = FALSE
        /\ stream' = stream /\ written' = written /\ read' = read /\ buf' = buf
        /\ messages' = messages /\ pc' = pc /\ pending' = pending /\ config' = config
        /\ delivered' = delivered /\ rejected' = rejected /\ ret' = ret
    BY DEF CameraCloses, splitterVars, clientVars
  <1>2. Tracks'
    <2>1. Typed' BY <1>1 DEF IInv, Tracks, Typed
    <2>2. Cut' = Cut /\ Batch' = Batch /\ Taken' = Taken BY <1>1 DEF Cut, Batch, Taken
    <2>3. InPlace' BY <1>1, <2>2 DEF IInv, Tracks, InPlace, Boundary
    <2>4. Counted' BY <1>1, <2>2 DEF IInv, Tracks, Counted
    <2>5. Found' BY <1>1, <2>2 DEF IInv, Tracks, Found, Handed, Elements
    <2> QED BY <2>1, <2>3, <2>4, <2>5 DEF Tracks
  <1>3. P!DeviceCloses /\ ConfigOf(config)' = ConfigOf(config)
    <2>1. /\ Numbers(pending)' = Numbers(pending) /\ Numbers(delivered)' = Numbers(delivered)
          /\ RejectedOf(rejected)' = RejectedOf(rejected) /\ ConfigOf(config)' = ConfigOf(config)
          /\ RetOf(ret)' = RetOf(ret)
      BY <1>1 DEF Numbers, RejectedOf, ConfigOf, RetOf
    <2>2. Sent' = Sent /\ Taken' = Taken BY <1>1 DEF Sent, Taken
    <2>3. Queue(Taken, Sent)' = Queue(Taken, Sent) BY <2>2 DEF Queue
    <2> QED BY <1>1, <2>1, <2>2, <2>3 DEF P!DeviceCloses
  <1> QED BY <1>2, <1>3 DEF P!GvpNext, P!Camera

\* The texts of a sequence but the last, and their numbers.
LEMMA FrontIs ==
  ASSUME NEW s \in Seq(Text), s # <<>>
  PROVE  /\ Len(s) \in Nat \ {0}
         /\ Last(s) = s[Len(s)] /\ Last(s) \in Text
         /\ Front(s) \in Seq(Text) /\ Len(Front(s)) = Len(s) - 1
         /\ \A i \in 1..(Len(s) - 1) : Front(s)[i] = s[i]
         /\ Elements(s) = Elements(Front(s)) \cup {Last(s)}
         /\ P!Last(Numbers(s)) = NumberOf(Last(s))
         /\ P!Front(Numbers(s)) = Numbers(Front(s))
  <1> DEFINE l == Len(s)
             f == Front(s)
             k == l - 1
             x == Numbers(s)
             g == P!Front(x)
  <1>1. l \in Nat /\ l > 0 /\ DOMAIN s = 1..l /\ \A i \in 1..l : s[i] \in Text
    BY EmptySeq, LenProperties, ElementOfSeq
  <1>2. f = SubSeq(s, 1, k) BY DEF Front
  <1>3. f \in Seq(Text) /\ Len(f) = k /\ \A i \in 1..k : f[i] = s[i]
    <2> DEFINE t == SubSeq(s, 1, k)
    <2>1. k \in Nat /\ 1 <= k + 1 /\ k <= l /\ k - 1 + 1 = k /\ \A i \in 1..k : 1 + i - 1 = i BY <1>1
    <2>2. t \in Seq(Text) /\ Len(t) = k - 1 + 1 /\ \A i \in 1..(k - 1 + 1) : t[i] = s[1 + i - 1]
      <3> HIDE DEF k
      <3> QED BY <2>1, PartIs
    <2> HIDE DEF t, k
    <2>3. t \in Seq(Text) /\ Len(t) = k /\ \A i \in 1..k : t[i] = s[i] BY <2>1, <2>2
    <2> QED BY <1>2, <2>3 DEF t
  <1>4. x \in Seq(Nat) /\ Len(x) = l /\ \A i \in 1..l : x[i] = NumberOf(s[i])
    BY NumbersIs
  <1>5. Last(s) = s[l] /\ P!Last(x) = x[l]
    BY <1>4 DEF Last, P!Last
  <1>6. Elements(s) = Elements(f) \cup {Last(s)}
    <2>1. DOMAIN f = 1..k BY <1>3, LenProperties
    <2>2. /\ \A i \in 1..l : i \in 1..k \/ i = l
          /\ \A i \in 1..k : i \in 1..l
          /\ l \in 1..l
      <3> HIDE DEF l
      <3> QED BY <1>1
    <2> HIDE DEF f, k, l
    <2> QED BY <1>1, <1>3, <1>5, <2>1, <2>2 DEF Elements
  <1>7. g = Numbers(f)
    <2>1. g = SubSeq(x, 1, k) BY <1>4 DEF P!Front
    <2> DEFINE t == SubSeq(x, 1, k)
    <2>2. k \in Nat /\ 1 <= k + 1 /\ k <= l /\ k - 1 + 1 = k /\ \A i \in 1..k : 1 + i - 1 = i /\ i \in 1..l
      BY <1>1
    <2>3. t \in Seq(Nat) /\ Len(t) = k - 1 + 1 /\ \A i \in 1..(k - 1 + 1) : t[i] = x[1 + i - 1]
      <3> HIDE DEF k, x
      <3> QED BY <1>4, <2>2, PartIs
    <2>4. Numbers(f) \in Seq(Nat) /\ Len(Numbers(f)) = k /\ \A i \in 1..k : Numbers(f)[i] = NumberOf(f[i])
      BY <1>3, NumbersIs
    <2> HIDE DEF t, k, f, x, g
    <2>5. Len(t) = Len(Numbers(f)) /\ \A i \in 1..Len(t) : t[i] = Numbers(f)[i]
      BY <1>3, <1>4, <2>2, <2>3, <2>4
    <2>6. t = Numbers(f) BY <2>3, <2>4, <2>5, SeqEqual
    <2> QED BY <2>1, <2>6 DEF t
  <1>8. l \in 1..l BY <1>1
  <1> QED BY <1>1, <1>3, <1>4, <1>5, <1>6, <1>7, <1>8

\* What one read hands out and stashes, and the numbers of both.
LEMMA StashIs ==
  ASSUME NEW s \in Seq(Text), s # <<>>
  PROVE  /\ Len(s) \in Nat \ {0}
         /\ First(s) = s[Len(s)] /\ First(s) \in Text
         /\ Stash(s) \in Seq(Text) /\ Len(Stash(s)) = Len(s) - 1
         /\ Elements(s) = Elements(Stash(s)) \cup {First(s)}
         /\ P!First(Numbers(s)) = NumberOf(First(s))
         /\ P!Stash(Numbers(s)) = Numbers(Stash(s))
  <1> DEFINE l == Len(s)
             f == Front(s)
             k == l - 1
             r == Stash(s)
             x == Numbers(s)
  <1>1. /\ l \in Nat \ {0} /\ Last(s) = s[l] /\ Last(s) \in Text
        /\ f \in Seq(Text) /\ Len(f) = k
        /\ Elements(s) = Elements(f) \cup {Last(s)}
        /\ P!Last(x) = NumberOf(Last(s))
        /\ P!Front(x) = Numbers(f)
    BY FrontIs
  <1>2. r = [i \in 1..Len(f) |-> f[(Len(f) - i) + 1]]
    BY DEF Stash, Reverse
  <1>3. k \in Nat /\ DOMAIN f = 1..k /\ \A i \in 1..k : f[i] \in Text /\ (k - i) + 1 \in 1..k
    <2>1. k \in Nat BY <1>1
    <2> HIDE DEF f, k
    <2> QED BY <1>1, <2>1, LenProperties, ElementOfSeq
  <1> HIDE DEF f, k
  <1>4. r = [i \in 1..k |-> f[(k - i) + 1]] BY <1>1, <1>2
  <1>5. \A i \in 1..k : f[(k - i) + 1] \in Text BY <1>3
  <1>6. r \in Seq(Text) /\ Len(r) = k /\ DOMAIN r = 1..k BY <1>3, <1>4, <1>5, SMT
  <1>7. Elements(r) = Elements(f)
    <2>1. ASSUME NEW i \in 1..k PROVE \E j \in 1..k : r[i] = f[j]
      BY <1>3, <1>4
    <2>2. ASSUME NEW j \in 1..k PROVE \E i \in 1..k : r[i] = f[j]
      <3>1. (k - j) + 1 \in 1..k /\ (k - ((k - j) + 1)) + 1 = j BY <1>3
      <3> HIDE DEF r
      <3> QED BY <1>4, <3>1
    <2> HIDE DEF r
    <2>3. Elements(r) = {r[i] : i \in 1..k} BY <1>6 DEF Elements
    <2>4. Elements(f) = {f[i] : i \in 1..k} BY <1>3 DEF Elements
    <2> QED BY <2>1, <2>2, <2>3, <2>4
  <1>8. P!Stash(x) = Numbers(r)
    <2> DEFINE g == Numbers(f)
    <2>1. P!Stash(x) = P!Reverse(g) BY <1>1 DEF P!Stash
    <2>2. Len(g) = k /\ \A i \in 1..k : g[i] = NumberOf(f[i]) BY <1>1, NumbersIs
    <2>3. P!Reverse(g) = [i \in 1..Len(g) |-> g[(Len(g) - i) + 1]] BY DEF P!Reverse
    <2> HIDE DEF g
    <2>4. P!Reverse(g) = [i \in 1..k |-> g[(k - i) + 1]] BY <2>2, <2>3
    <2>5. \A i \in 1..k : g[(k - i) + 1] = NumberOf(f[(k - i) + 1]) BY <1>3, <2>2
    <2>6. \A i \in 1..k : r[i] = f[(k - i) + 1] BY <1>4
    <2> HIDE DEF r
    <2>7. Numbers(r) = [i \in 1..k |-> NumberOf(r[i])] BY <1>6 DEF Numbers
    <2>8. P!Reverse(g) = Numbers(r) BY <2>4, <2>5, <2>6, <2>7
    <2> QED BY <2>1, <2>8
  <1>9. First(s) = Last(s) /\ P!First(x) = P!Last(x)
    BY DEF First, P!First
  <1> QED BY <1>1, <1>6, <1>7, <1>8, <1>9 DEF k

LEMMA RecvPendingStep ==
  ASSUME IInv, RecvPending
  PROVE  Tracks' /\ [P!GvpNext]_(P!gvpVars)
  <1> DEFINE t == Last(pending)
             n == NumberOf(t)
             l == Len(pending)
  <1>1. /\ pc = "idle" /\ pending # <<>> /\ HandOut(t) /\ pending' = Front(pending)
        /\ stream' = stream /\ written' = written /\ open' = open /\ read' = read
        /\ buf' = buf /\ messages' = messages /\ pc' = pc
    BY DEF RecvPending, cameraVars, splitterVars
  <1>2. /\ pending \in Seq(Text) /\ l \in Nat \ {0} /\ t = pending[l] /\ t \in Text
        /\ pending' \in Seq(Text) /\ Len(pending') = l - 1
        /\ Elements(pending) = Elements(pending') \cup {t}
        /\ P!Last(Numbers(pending)) = n
        /\ P!Front(Numbers(pending)) = Numbers(pending')
    <2>1. pending \in Seq(Text) BY DEF IInv, Tracks, Typed
    <2> QED BY <1>1, <2>1, FrontIs
  <1>3. t \notin rejected
    <2>1. l \in 1..l /\ l > 0 BY <1>2
    <2>2. n = Taken - l BY <1>2, <2>1, Ordered
    <2> QED BY <2>1, <2>2, Ordered
  <1> HIDE DEF t
  <1>4. /\ P!HandOut(n)
        /\ ConfigOf(config)' =
             IF RetOf(ret)' = "Message" THEN P!Cached(P!Last(Numbers(delivered)')) ELSE ConfigOf(config)
        /\ delivered' \in Seq(Text)
        /\ rejected' \in SUBSET Text /\ IsFiniteSet(rejected')
        /\ Len(delivered') + Cardinality(rejected') = Len(delivered) + Cardinality(rejected) + 1
        /\ Handed' = Handed \cup {t}
        /\ config' = <<>> \/ config' \in Text
        /\ ret' \in Results
    BY <1>1, <1>2, <1>3, HandOutIs
  <1>5. Taken' = Taken
    <2>1. Taken = Len(pending) + Len(delivered) + Cardinality(rejected)
          /\ Taken' = Len(pending') + Len(delivered') + Cardinality(rejected')
      BY DEF Taken
    <2>2. Len(delivered) \in Nat /\ Cardinality(rejected) \in Nat /\ Taken \in Nat BY Known
    <2>3. Len(delivered') \in Nat /\ Cardinality(rejected') \in Nat
      BY <1>4, LenProperties, FS_CardinalityType
    <2> HIDE DEF l
    <2>4. Len(pending) = l BY DEF l
    <2>5. l \in Nat /\ Len(pending') = l - 1 BY <1>2
    <2>6. Len(delivered') + Cardinality(rejected') = Len(delivered) + Cardinality(rejected) + 1
      BY <1>4
    <2> QED BY <2>1, <2>2, <2>3, <2>4, <2>5, <2>6
  <1>6. Tracks'
    <2>1. Typed' BY <1>1, <1>2, <1>4 DEF IInv, Tracks, Typed
    <2>2. Cut' = Cut /\ Batch' = Batch BY <1>1 DEF Cut, Batch
    <2>3. InPlace' BY <1>1, <2>2 DEF IInv, Tracks, InPlace, Boundary
    <2>4. Counted' BY <1>1, <1>5, <2>2 DEF IInv, Tracks, Counted
    <2>5. Elements(pending)' \cup Handed' \cup Elements(Batch)'
            = Elements(pending) \cup Handed \cup Elements(Batch)
      <3>1. Elements(pending)' = Elements(pending') /\ Elements(Batch)' = Elements(Batch)
        BY <2>2 DEF Elements
      <3> QED BY <1>2, <1>4, <3>1
    <2>6. Found' BY <1>1, <2>2, <2>5 DEF IInv, Tracks, Found
    <2> QED BY <2>1, <2>3, <2>4, <2>6 DEF Tracks
  <1>7. P!RecvPending
    <2>1. Sent' = Sent BY <1>1 DEF Sent
    <2>2. Queue(Taken, Sent)' = Queue(Taken, Sent) BY <1>5, <2>1 DEF Queue
    <2>3. Numbers(pending)' = Numbers(pending') BY DEF Numbers
    <2>4. Numbers(pending) # <<>>
      <3>1. Len(Numbers(pending)) = l BY <1>2, NumbersIs
      <3> QED BY <1>2, <3>1
    <2> QED BY <1>1, <1>2, <1>4, <2>1, <2>2, <2>3, <2>4 DEF P!RecvPending
  <1>8. P!PollMessage
    BY <1>4, <1>7 DEF P!PollMessage
  <1> QED BY <1>6, <1>8 DEF P!GvpNext

\* A poll() that returns no message.
LEMMA RecvOtherStep ==
  ASSUME IInv, RecvNothing \/ RecvDisconnected
  PROVE  Tracks' /\ [P!GvpNext]_(P!gvpVars)
  <1>1. /\ pc = "idle" /\ pending = <<>>
        /\ stream' = stream /\ written' = written /\ open' = open /\ read' = read
        /\ buf' = buf /\ messages' = messages /\ pc' = pc
        /\ pending' = pending /\ config' = config
        /\ delivered' = delivered /\ rejected' = rejected
        /\ (open /\ ret' = "None") \/ (~open /\ read = written /\ ret' = "Disconnected")
    BY DEF RecvNothing, RecvDisconnected, cameraVars, splitterVars
  <1>2. Tracks'
    <2>1. Typed' BY <1>1 DEF IInv, Tracks, Typed, Results
    <2>2. Cut' = Cut /\ Batch' = Batch /\ Taken' = Taken BY <1>1 DEF Cut, Batch, Taken
    <2>3. InPlace' BY <1>1, <2>2 DEF IInv, Tracks, InPlace, Boundary
    <2>4. Counted' BY <1>1, <2>2 DEF IInv, Tracks, Counted
    <2>5. Found' BY <1>1, <2>2 DEF IInv, Tracks, Found, Handed, Elements
    <2> QED BY <2>1, <2>3, <2>4, <2>5 DEF Tracks
  <1>3. /\ Numbers(pending)' = Numbers(pending) /\ Numbers(delivered)' = Numbers(delivered)
        /\ RejectedOf(rejected)' = RejectedOf(rejected) /\ ConfigOf(config)' = ConfigOf(config)
        /\ RetOf(ret)' = RetOf(ret') /\ Sent' = Sent /\ Queue(Taken, Sent)' = Queue(Taken, Sent)
        /\ Numbers(pending) = <<>>
    BY <1>1 DEF Numbers, RejectedOf, ConfigOf, RetOf, Sent, Taken, Queue
  <1>4. CASE open /\ ret' = "None"
    <2>1. RetOf(ret)' = "None" BY <1>3, <1>4, RetIs
    <2>2. P!RecvNothing BY <1>1, <1>3, <1>4, <2>1 DEF P!RecvNothing
    <2> QED BY <1>2, <1>3, <2>2 DEF P!GvpNext, P!PollOther
  <1>5. CASE ~open /\ read = written /\ ret' = "Disconnected"
    <2>1. RetOf(ret)' = "Disconnected" BY <1>3, <1>5, RetIs
    <2>2. Queue(Taken, Sent) = <<>>
      <3>1. /\ stream \in Seq(Byte) /\ Cut \in 0..read /\ read = Cut + Len(buf) /\ read \in 0..Len(stream)
            /\ Len(stream) \in Nat /\ Len(buf) \in Nat
            /\ Taken \in Nat /\ Sent \in Nat /\ Sent = Count(stream, read)
        BY <1>5, Known
      <3>2. Ends(stream, read) = Ends(stream, Cut)
        <4>1. ASSUME NEW j \in (Cut + 1)..read PROVE stream[j] # NULL
          <5>1. j - Cut \in 1..Len(buf) /\ Cut + (j - Cut) = j BY <3>1
          <5>2. buf[j - Cut] = stream[j] BY <5>1 DEF IInv, Tracks, InPlace
          <5>3. buf[j - Cut] # NULL BY <1>1, <5>1 DEF IInv, Tracks, InPlace
          <5> QED BY <5>2, <5>3
        <4>2. Cut \in Nat /\ read \in Cut..Len(stream) BY <3>1
        <4> QED BY <3>1, <4>1, <4>2, NoEnd
      <3>3. Taken + Len(Batch) = Count(stream, Cut) /\ Len(Batch) = 0
        BY <1>1 DEF IInv, Tracks, Counted, Batch
      <3>4. Sent = Taken BY <3>1, <3>2, <3>3 DEF Count
      <3>5. Queue(Taken, Sent) \in Seq(Nat) /\ Len(Queue(Taken, Sent)) = 0
        <4>1. Taken <= Sent /\ Sent - Taken = 0 BY <3>1, <3>4
        <4>2. Len(Queue(Taken, Sent)) = Sent - Taken /\ Queue(Taken, Sent) \in Seq(Nat)
          BY <3>1, <4>1, QueueIs
        <4> QED BY <4>1, <4>2
      <3> QED BY <3>5, EmptySeq
    <2>3. P!RecvDisconnected BY <1>1, <1>3, <1>5, <2>1, <2>2 DEF P!RecvDisconnected
    <2> QED BY <1>2, <1>3, <2>3 DEF P!GvpNext, P!PollOther
  <1> QED BY <1>1, <1>4, <1>5

-----------------------------------------------------------------------------
(* Reading and splitting.                                                  *)

\* NullPos is the place of the first terminator of the buffer, or 0.
LEMMA NullPosIs ==
  ASSUME buf \in Seq(Byte)
  PROVE  /\ NullPos = 0 => \A i \in 1..Len(buf) : buf[i] # NULL
         /\ NullPos # 0 => /\ NullPos \in 1..Len(buf) /\ buf[NullPos] = NULL
                           /\ \A i \in 1..(NullPos - 1) : buf[i] # NULL
  <1> DEFINE I == {i \in 1..Len(buf) : IsNull(buf[i])}
  <1>1. NullPos = IF I # {} THEN Min(I) ELSE 0
    BY DEF NullPos, SelectInSeq
  <1>2. I \in SUBSET Nat /\ I \subseteq 1..Len(buf) /\ Len(buf) \in Nat
    OBVIOUS
  <1>3. I # {} => Min(I) \in I /\ \A y \in I : Min(I) <= y
    <2> HIDE DEF I
    <2> QED BY <1>2, MinIs
  <1>4. CASE I = {}
    <2>1. NullPos = 0 BY <1>1, <1>4
    <2>2. \A i \in 1..Len(buf) : buf[i] # NULL BY <1>4 DEF IsNull
    <2> QED BY <2>1, <2>2
  <1>5. CASE I # {}
    <2>1. NullPos \in I /\ \A y \in I : NullPos <= y BY <1>1, <1>3, <1>5
    <2>2. NullPos \in 1..Len(buf) /\ buf[NullPos] = NULL BY <2>1 DEF IsNull
    <2>3. ASSUME NEW i \in 1..(NullPos - 1) PROVE buf[i] # NULL
      <3>1. i \in 1..Len(buf) /\ ~(NullPos <= i) BY <1>2, <2>2
      <3>2. i \notin I
        <4> HIDE DEF I
        <4> QED BY <2>1, <3>1
      <3> QED BY <3>1, <3>2 DEF IsNull
    <2> HIDE DEF I
    <2> QED BY <1>2, <2>2, <2>3
  <1> QED BY <1>4, <1>5

\* A read puts more bytes behind those in the buffer.
LEMMA ReadStep ==
  ASSUME IInv, Read
  PROVE  Tracks' /\ [P!GvpNext]_(P!gvpVars)
  <1>1. PICK n \in 1..(written - read) :
          Feed(SubSeq(stream, read + 1, read + n)) /\ read' = read + n
    BY DEF Read
  <1> DEFINE data == SubSeq(stream, read + 1, read + n)
             b == Len(buf)
  <1>2. /\ pc = "idle" /\ pending = <<>>
        /\ buf' = buf \o data /\ messages' = <<>> /\ pc' = "split"
        /\ stream' = stream /\ written' = written /\ open' = open
        /\ pending' = pending /\ config' = config
        /\ delivered' = delivered /\ rejected' = rejected /\ ret' = ret
    BY <1>1 DEF Read, Feed, cameraVars, clientVars
  <1>3. /\ stream \in Seq(Byte) /\ Len(stream) \in Nat
        /\ buf \in Seq(Byte) /\ b \in Nat
        /\ Cut \in 0..read /\ read = Cut + b /\ read \in 0..written /\ written \in 0..Len(stream)
    BY Known
  <1>4. data \in Seq(Byte) /\ Len(data) = n /\ \A k \in 1..n : data[k] = stream[read + k]
    <2> DEFINE u == read + 1
               v == read + n
    <2>1. /\ u \in Nat /\ v \in Nat /\ 1 <= u /\ u <= v + 1 /\ v <= Len(stream)
          /\ v - u + 1 = n /\ \A k \in 1..n : u + k - 1 = read + k
      BY <1>3
    <2> HIDE DEF u, v
    <2>2. /\ SubSeq(stream, u, v) \in Seq(Byte) /\ Len(SubSeq(stream, u, v)) = v - u + 1
          /\ \A k \in 1..(v - u + 1) : SubSeq(stream, u, v)[k] = stream[u + k - 1]
      BY <1>3, <2>1, PartIs
    <2> DEFINE d == SubSeq(stream, u, v)
    <2> HIDE DEF d
    <2>3. d \in Seq(Byte) /\ Len(d) = n /\ \A k \in 1..n : d[k] = stream[read + k]
      BY <2>1, <2>2 DEF d
    <2> QED BY <2>3 DEF d, u, v
  <1> HIDE DEF data
  <1>5. /\ buf' \in Seq(Byte) /\ Len(buf') = b + n
        /\ \A i \in 1..(b + n) : buf'[i] = IF i <= b THEN buf[i] ELSE data[i - b]
    <2> DEFINE x == buf \o data
    <2>1. /\ x \in Seq(Byte) /\ Len(x) = b + Len(data)
          /\ \A i \in 1..(b + Len(data)) : x[i] = IF i <= b THEN buf[i] ELSE data[i - b]
      BY <1>3, <1>4, ConcatProperties, Zenon
    <2> HIDE DEF x, b
    <2> QED BY <1>2, <1>4, <2>1 DEF x
  <1>6. Cut' = Cut
    <2>1. Cut' = read' - Len(buf') /\ Cut = read - b BY DEF Cut
    <2> HIDE DEF b
    <2>2. read \in Int /\ n \in Int /\ (read + n) - (b + n) = read - b BY <1>3
    <2>3. read' = read + n BY <1>1
    <2>4. Len(buf') = b + n BY <1>5
    <2> QED BY <2>1, <2>2, <2>3, <2>4
  <1>7. ASSUME NEW i \in 1..Len(buf') PROVE buf'[i] = stream[Cut + i]
    <2>1. CASE i <= b
      <3>1. i \in 1..b /\ i \in 1..(b + n) BY <1>3, <1>5, <2>1
      <3>2. buf[i] = stream[Cut + i] BY <3>1 DEF IInv, Tracks, InPlace
      <3> QED BY <1>5, <2>1, <3>1, <3>2
    <2>2. CASE i > b
      <3>1. i \in 1..(b + n) /\ i - b \in 1..n /\ read + (i - b) = Cut + i
        BY <1>3, <1>5, <2>2
      <3>2. buf'[i] = data[i - b] BY <1>3, <1>5, <2>2, <3>1
      <3>3. data[i - b] = stream[read + (i - b)] BY <1>4, <3>1
      <3> QED BY <3>1, <3>2, <3>3
    <2> QED BY <1>3, <1>5, <2>1, <2>2
  <1>8. Batch = <<>> /\ Batch' = <<>> BY <1>2 DEF Batch
  <1>9. Taken' = Taken /\ Handed' = Handed /\ Elements(pending)' = Elements(pending) /\ UNCHANGED P!gvpVars
    BY <1>2, Invisible
  <1>10. Typed'
    <2>1. read' \in 0..written' /\ Len(buf') <= read' BY <1>1, <1>2, <1>3, <1>5
    <2>2. messages' \in Seq(Text) BY <1>2, EmptySeq
    <2> QED BY <1>2, <1>5, <2>1, <2>2 DEF IInv, Tracks, Typed
  <1>11. InPlace'
    BY <1>2, <1>6, <1>7 DEF IInv, Tracks, InPlace, Boundary
  <1>12. Counted'
    <2>1. Len(Batch) = 0 /\ Len(Batch)' = 0 /\ Len(Batch') = 0 BY <1>8
    <2>2. Taken + Len(Batch) = Count(stream, Cut) BY DEF IInv, Tracks, Counted
    <2>3. \A i \in 1..Len(Batch') : FALSE BY <2>1
    <2> QED BY <1>2, <1>6, <1>9, <2>1, <2>2, <2>3 DEF Counted
  <1>13. Found'
    <2>1. Elements(Batch)' = Elements(Batch) BY <1>8 DEF Elements
    <2> QED BY <1>2, <1>6, <1>9, <2>1 DEF IInv, Tracks, Found
  <1> QED BY <1>9, <1>10, <1>11, <1>12, <1>13 DEF Tracks

\* A round of feed(): the segment is that of the stream, the rest stays.
LEMMA RoundIs ==
  ASSUME IInv, pc = "split", NullPos # 0
  PROVE  LET i == Cut + NullPos
             rest == SubSeq(buf, NullPos + 1, Len(buf))
         IN /\ i \in (Cut + 1)..read /\ i \in 1..Len(stream) /\ stream[i] = NULL
            /\ Segment \in Seq(Byte)
            /\ Segment = SegmentAt(stream, i)
            /\ i \notin Ends(stream, Cut)
            /\ Ends(stream, i) = IF HasText(Segment) THEN Ends(stream, Cut) \cup {i} ELSE Ends(stream, Cut)
            /\ rest \in Seq(Byte) /\ Len(rest) = Len(buf) - NullPos /\ read - Len(rest) = i
            /\ \A k \in 1..Len(rest) : rest[k] = stream[i + k]
  <1> DEFINE i == Cut + NullPos
             b == Len(buf)
             rest == SubSeq(buf, NullPos + 1, b)
  <1>1. /\ stream \in Seq(Byte) /\ Len(stream) \in Nat
        /\ buf \in Seq(Byte) /\ b \in Nat
        /\ Cut \in 0..read /\ read = Cut + b /\ read \in 0..written /\ written \in 0..Len(stream)
    BY Known
  <1>2. /\ NullPos \in 1..b /\ buf[NullPos] = NULL
        /\ \A k \in 1..(NullPos - 1) : buf[k] # NULL
    BY <1>1, NullPosIs
  <1>3. \A k \in 1..b : buf[k] = stream[Cut + k]
    BY DEF IInv, Tracks, InPlace
  <1>4. i \in (Cut + 1)..read /\ i \in 1..Len(stream) /\ stream[i] = NULL
    BY <1>1, <1>2, <1>3
  <1>5. \A j \in (Cut + 1)..(i - 1) : stream[j] # NULL
    <2> SUFFICES ASSUME NEW j \in (Cut + 1)..(i - 1) PROVE stream[j] # NULL
      OBVIOUS
    <2>1. j - Cut \in 1..(NullPos - 1) /\ j - Cut \in 1..b /\ Cut + (j - Cut) = j BY <1>1, <1>2
    <2>2. buf[j - Cut] = stream[j] BY <1>3, <2>1
    <2> QED BY <1>2, <2>1, <2>2
  <1>6. Cut = 0 \/ stream[Cut] = NULL BY DEF IInv, Tracks, InPlace, Boundary
  <1>7. Segment = SubSeq(stream, Cut + 1, i - 1) /\ Segment \in Seq(Byte)
    <2> DEFINE u == NullPos - 1
               v == Cut + 1
               w == i - 1
    <2>1. /\ u \in Nat /\ 1 <= u + 1 /\ u <= b
          /\ v \in Nat /\ w \in Nat /\ 1 <= v /\ v <= w + 1 /\ w <= Len(stream) /\ u - 1 = w - v
      BY <1>1, <1>2
    <2>2. \A k \in 1..(u - 1 + 1) : buf[1 + k - 1] = stream[v + k - 1]
      <3> SUFFICES ASSUME NEW k \in 1..(u - 1 + 1) PROVE buf[1 + k - 1] = stream[v + k - 1]
        OBVIOUS
      <3>1. k \in 1..b /\ 1 + k - 1 = k /\ v + k - 1 = Cut + k BY <1>1, <1>2
      <3> QED BY <1>3, <3>1
    <2> HIDE DEF u, v, w
    <2>3. SubSeq(buf, 1, u) = SubSeq(stream, v, w) BY <1>1, <2>1, <2>2, SamePart
    <2>4. SubSeq(buf, 1, u) \in Seq(Byte) BY <1>1, <2>1, PartIs
    <2> QED BY <2>3, <2>4 DEF Segment, u, v, w
  <1>8. /\ i \notin Ends(stream, Cut)
        /\ SegmentAt(stream, i) = SubSeq(stream, Cut + 1, i - 1)
        /\ Ends(stream, i) = IF HasText(SubSeq(stream, Cut + 1, i - 1))
                             THEN Ends(stream, Cut) \cup {i} ELSE Ends(stream, Cut)
    <2>1. Cut \in Nat /\ i \in (Cut + 1)..Len(stream) BY <1>1, <1>2
    <2> HIDE DEF i
    <2> QED BY <1>1, <1>4, <1>5, <1>6, <2>1, NextEnd
  <1>9. /\ rest \in Seq(Byte) /\ Len(rest) = b - NullPos /\ read - Len(rest) = i
        /\ \A k \in 1..Len(rest) : rest[k] = stream[i + k]
    <2> DEFINE u == NullPos + 1
               r == SubSeq(buf, u, b)
    <2>1. u \in Nat /\ 1 <= u /\ u <= b + 1 /\ b - u + 1 = b - NullPos BY <1>1, <1>2
    <2> HIDE DEF u
    <2>2. r \in Seq(Byte) /\ Len(r) = b - u + 1 /\ \A k \in 1..(b - u + 1) : r[k] = buf[u + k - 1]
      BY <1>1, <2>1, PartIs
    <2> HIDE DEF r
    <2>3. ASSUME NEW k \in 1..Len(r) PROVE r[k] = stream[i + k]
      <3>1. k \in 1..(b - NullPos) BY <2>1, <2>2
      <3>2. u + k - 1 = NullPos + k /\ NullPos + k \in 1..b /\ Cut + (NullPos + k) = i + k
        BY <1>1, <1>2, <3>1 DEF u
      <3>3. r[k] = buf[NullPos + k] BY <2>1, <2>2, <3>1, <3>2
      <3> QED BY <1>3, <3>2, <3>3
    <2>4. read - Len(r) = i
      <3>1. read - (b - NullPos) = i BY <1>1, <1>2
      <3> QED BY <2>1, <2>2, <3>1
    <2> QED BY <2>1, <2>2, <2>3, <2>4 DEF r, u
  <1> QED BY <1>4, <1>7, <1>8, <1>9

\* A segment with text becomes the next message of the batch.
LEMMA MessageStep ==
  ASSUME IInv, Message, UNCHANGED <<cameraVars, read, clientVars>>
  PROVE  Tracks' /\ [P!GvpNext]_(P!gvpVars)
  <1> DEFINE i == Cut + NullPos
             rest == SubSeq(buf, NullPos + 1, Len(buf))
             t == Trim(Segment)
  <1>1. /\ pc = "split" /\ NullPos # 0 /\ IsUtf8(Segment) /\ t # <<>>
        /\ messages' = Append(messages, t) /\ buf' = rest /\ pc' = pc
        /\ stream' = stream /\ written' = written /\ open' = open /\ read' = read
        /\ pending' = pending /\ config' = config
        /\ delivered' = delivered /\ rejected' = rejected /\ ret' = ret
    BY DEF Message, cameraVars, clientVars
  <1>2. /\ stream \in Seq(Byte) /\ Len(stream) \in Nat /\ buf \in Seq(Byte) /\ Len(buf) \in Nat
        /\ Cut \in 0..read /\ read \in 0..written /\ written \in 0..Len(stream)
        /\ Taken \in Nat /\ Len(Batch) \in Nat /\ Len(Content) \in Nat
    BY Known
  <1>3. /\ i \in (Cut + 1)..read /\ i \in 1..Len(stream) /\ stream[i] = NULL
        /\ Segment \in Seq(Byte)
        /\ Segment = SegmentAt(stream, i)
        /\ i \notin Ends(stream, Cut)
        /\ Ends(stream, i) = IF HasText(Segment) THEN Ends(stream, Cut) \cup {i} ELSE Ends(stream, Cut)
        /\ rest \in Seq(Byte) /\ Len(rest) = Len(buf) - NullPos /\ read - Len(rest) = i
        /\ \A k \in 1..Len(rest) : rest[k] = stream[i + k]
    BY <1>1, RoundIs
  <1> HIDE DEF i, rest
  <1>4. HasText(Segment) /\ IsMessageOf(t, Segment) /\ NumberOf(t) = NumberOf(Segment) /\ t \in Seq(Byte)
    BY <1>1, <1>3, TrimIs DEF HasText
  <1> HIDE DEF t
  <1>5. Cut' = i
    BY <1>1, <1>3 DEF Cut
  <1>6. Ends(stream, i) = Ends(stream, Cut) \cup {i}
    BY <1>3, <1>4
  <1>7. Count(stream, i) = Count(stream, Cut) + 1 /\ Count(stream, i) <= Len(Content)
    <2>1. Cut \in Nat /\ i \in Nat BY <1>2, <1>3
    <2>2. IsFiniteSet(Ends(stream, Cut)) BY <1>2, <2>1, EndsFinite
    <2>3. Count(stream, i) = Count(stream, Cut) + 1
      BY <1>3, <1>6, <2>2, FS_AddElement DEF Count
    <2>4. Count(stream, i) <= Cardinality(TextEnds(stream)) /\ Count(stream, i) \in Nat
      BY <1>2, <2>1, EndsFinite
    <2>5. Cardinality(TextEnds(stream)) <= Len(Content)
      BY GvpLinkAssumption DEF IInv, Tracks, Typed
    <2>6. Cardinality(TextEnds(stream)) \in Nat
      <3>1. TextEnds(stream) \in SUBSET (1..Len(stream)) BY <1>2, LenProperties DEF TextEnds
      <3>2. IsFiniteSet(1..Len(stream)) BY <1>2, FS_Interval
      <3> QED BY <3>1, <3>2, FS_Subset, FS_CardinalityType
    <2> QED BY <1>2, <2>3, <2>4, <2>5, <2>6
  <1>8. Batch = messages /\ Batch' = messages'
    BY <1>1 DEF Batch
  <1>9. Taken + Len(messages) = Count(stream, Cut) /\ pending = <<>>
        /\ \A k \in 1..Len(messages) : NumberOf(messages[k]) = Taken + k
    BY <1>1, <1>8 DEF IInv, Tracks, Counted
  <1>10. NumberOf(t) = Taken + Len(messages) + 1
    <2>1. i \in TextEnds(stream) BY <1>6 DEF Ends
    <2>2. NumberOf(SegmentAt(stream, i)) = Count(stream, i)
      BY <2>1, GvpLinkAssumption DEF IInv, Tracks, Typed, Count, Ends
    <2> QED BY <1>3, <1>4, <1>7, <1>9, <2>2
  <1>11. t \in Text
    <2>1. NumberOf(t) \in 1..Len(Content)
      BY <1>2, <1>7, <1>8, <1>9, <1>10
    <2> QED BY <1>1, <1>4, <2>1, ContentIs DEF Text, t
  <1>12. /\ messages \in Seq(Text) /\ messages' \in Seq(Text) /\ Len(messages') = Len(messages) + 1
         /\ \A k \in 1..Len(messages) : messages'[k] = messages[k]
         /\ messages'[Len(messages) + 1] = t
    <2>1. messages \in Seq(Text) BY DEF IInv, Tracks, Typed
    <2> QED BY <1>1, <1>11, <2>1, AppendProperties DEF t
  <1>13. Taken' = Taken /\ Handed' = Handed /\ Elements(pending)' = Elements(pending) /\ UNCHANGED P!gvpVars
    BY <1>1, Invisible
  <1>14. Typed'
    <2>1. Len(rest) <= read BY <1>2, <1>3
    <2> QED BY <1>1, <1>3, <1>12, <2>1 DEF IInv, Tracks, Typed
  <1>15. InPlace'
    BY <1>1, <1>3, <1>5 DEF IInv, Tracks, InPlace, Boundary
  <1>16. Counted'
    <2>1. Taken' + Len(Batch') = Count(stream', Cut')
      BY <1>1, <1>2, <1>5, <1>7, <1>8, <1>9, <1>12, <1>13
    <2>2. ASSUME NEW k \in 1..Len(messages') PROVE NumberOf(messages'[k]) = Taken + k
      <3>1. CASE k = Len(messages) + 1 BY <1>2, <1>8, <1>10, <1>12, <3>1
      <3>2. CASE k # Len(messages) + 1
        <4>1. k \in 1..Len(messages) BY <1>2, <1>8, <1>12, <3>2
        <4> QED BY <1>9, <1>12, <4>1
      <3> QED BY <3>1, <3>2
    <2> QED BY <1>1, <1>8, <1>9, <1>13, <2>1, <2>2 DEF Counted
  <1>17. Found'
    <2>1. Elements(Batch') = Elements(Batch) \cup {t}
      <3>1. DOMAIN messages = 1..Len(messages) /\ DOMAIN messages' = 1..(Len(messages) + 1)
            /\ Len(messages) \in Nat
        BY <1>12, LenProperties
      <3>2. Elements(messages) = {messages[k] : k \in 1..Len(messages)} BY <3>1 DEF Elements
      <3>3. Elements(messages') = {messages'[k] : k \in 1..(Len(messages) + 1)} BY <3>1 DEF Elements
      <3>4. Elements(messages') = Elements(messages) \cup {t} BY <1>12, <3>1, <3>2, <3>3
      <3> QED BY <1>8, <3>4
    <2>2. Elements(Batch)' = Elements(Batch') BY DEF Elements
    <2>3. ASSUME NEW j \in Ends(stream, i)
          PROVE  \E x \in Elements(pending) \cup Handed \cup Elements(Batch') :
                   IsMessageOf(x, SegmentAt(stream, j))
      <3>1. CASE j = i BY <1>3, <1>4, <2>1, <3>1
      <3>2. CASE j \in Ends(stream, Cut)
        BY <2>1, <3>2 DEF IInv, Tracks, Found
      <3> QED BY <1>6, <3>1, <3>2
    <2> QED BY <1>1, <1>5, <1>13, <2>2, <2>3 DEF Found
  <1> QED BY <1>13, <1>14, <1>15, <1>16, <1>17 DEF Tracks

\* An empty segment, or one that is not UTF-8, leaves nothing.
LEMMA SkipStep ==
  ASSUME IInv, Skip, UNCHANGED <<cameraVars, read, clientVars>>
  PROVE  Tracks' /\ [P!GvpNext]_(P!gvpVars)
  <1> DEFINE i == Cut + NullPos
             rest == SubSeq(buf, NullPos + 1, Len(buf))
  <1>1. /\ pc = "split" /\ NullPos # 0 /\ (~IsUtf8(Segment) \/ Trim(Segment) = <<>>)
        /\ messages' = messages /\ buf' = rest /\ pc' = pc
        /\ stream' = stream /\ written' = written /\ open' = open /\ read' = read
        /\ pending' = pending /\ config' = config
        /\ delivered' = delivered /\ rejected' = rejected /\ ret' = ret
    BY DEF Skip, cameraVars, clientVars
  <1>2. /\ Cut \in 0..read /\ read \in 0..written /\ written \in 0..Len(stream) /\ Len(stream) \in Nat
        /\ Len(buf) \in Nat
    BY Known
  <1>3. /\ i \in (Cut + 1)..read /\ i \in 1..Len(stream) /\ stream[i] = NULL
        /\ Segment \in Seq(Byte)
        /\ Segment = SegmentAt(stream, i)
        /\ i \notin Ends(stream, Cut)
        /\ Ends(stream, i) = IF HasText(Segment) THEN Ends(stream, Cut) \cup {i} ELSE Ends(stream, Cut)
        /\ rest \in Seq(Byte) /\ Len(rest) = Len(buf) - NullPos /\ read - Len(rest) = i
        /\ \A k \in 1..Len(rest) : rest[k] = stream[i + k]
    BY <1>1, RoundIs
  <1> HIDE DEF i, rest
  <1>4. ~HasText(Segment)
    BY <1>1, <1>3, TrimIs DEF HasText
  <1>5. Cut' = i /\ Ends(stream, i) = Ends(stream, Cut)
    BY <1>1, <1>3, <1>4 DEF Cut
  <1>6. Batch' = Batch BY <1>1 DEF Batch
  <1>7. Taken' = Taken /\ Handed' = Handed /\ Elements(pending)' = Elements(pending) /\ UNCHANGED P!gvpVars
    BY <1>1, Invisible
  <1>8. Typed'
    <2>1. Len(rest) <= read BY <1>2, <1>3
    <2> QED BY <1>1, <1>3, <2>1 DEF IInv, Tracks, Typed
  <1>9. InPlace'
    <2>1. Boundary(written)' BY <1>1 DEF IInv, Tracks, InPlace, Boundary
    <2>2. Boundary(Cut)' BY <1>1, <1>3, <1>5 DEF Boundary
    <2>3. \A k \in 1..Len(buf') : buf'[k] = stream'[Cut' + k] BY <1>1, <1>3, <1>5
    <2>4. pc' # "idle" BY <1>1
    <2> QED BY <2>1, <2>2, <2>3, <2>4 DEF InPlace
  <1>10. Counted'
    BY <1>1, <1>5, <1>6, <1>7 DEF IInv, Tracks, Counted, Count
  <1>11. Found'
    <2>1. Elements(Batch)' = Elements(Batch) BY <1>6 DEF Elements
    <2> QED BY <1>1, <1>5, <1>7, <2>1 DEF IInv, Tracks, Found
  <1> QED BY <1>7, <1>8, <1>9, <1>10, <1>11 DEF Tracks

\* feed() has found no message.
LEMMA ReadMoreStep ==
  ASSUME IInv, ReadMore
  PROVE  Tracks' /\ [P!GvpNext]_(P!gvpVars)
  <1>1. /\ pc = "split" /\ NullPos = 0 /\ messages = <<>> /\ pc' = "idle"
        /\ messages' = messages /\ buf' = buf
        /\ stream' = stream /\ written' = written /\ open' = open /\ read' = read
        /\ pending' = pending /\ config' = config
        /\ delivered' = delivered /\ rejected' = rejected /\ ret' = ret
    BY DEF ReadMore, NoNull, cameraVars, clientVars
  <1>2. \A i \in 1..Len(buf) : buf[i] # NULL
    BY <1>1, Known, NullPosIs
  <1>3. Cut' = Cut /\ Batch' = Batch BY <1>1 DEF Cut, Batch
  <1>4. Taken' = Taken /\ Handed' = Handed /\ Elements(pending)' = Elements(pending) /\ UNCHANGED P!gvpVars
    BY <1>1, Invisible
  <1>5. Typed' BY <1>1 DEF IInv, Tracks, Typed
  <1>6. InPlace' BY <1>1, <1>2, <1>3 DEF IInv, Tracks, InPlace, Boundary
  <1>7. Counted' BY <1>1, <1>3, <1>4 DEF IInv, Tracks, Counted
  <1>8. Found'
    <2>1. Elements(Batch)' = Elements(Batch) BY <1>3 DEF Elements
    <2> QED BY <1>1, <1>3, <1>4, <2>1 DEF IInv, Tracks, Found
  <1> QED BY <1>4, <1>5, <1>6, <1>7, <1>8 DEF Tracks

\* The last message of the batch is handed out, the others are stashed.
LEMMA RecvReadStep ==
  ASSUME IInv, RecvRead
  PROVE  Tracks' /\ [P!GvpNext]_(P!gvpVars)
  <1> DEFINE t == First(messages)
             n == NumberOf(t)
             l == Len(messages)
             q == Queue(Taken, Sent)
  <1>1. /\ pc = "split" /\ NullPos = 0 /\ messages # <<>> /\ pc' = "idle"
        /\ HandOut(t) /\ pending' = Stash(messages)
        /\ stream' = stream /\ written' = written /\ open' = open /\ read' = read
        /\ buf' = buf /\ messages' = messages
    BY DEF RecvRead, NoNull, cameraVars
  <1>2. messages \in Seq(Text) BY DEF IInv, Tracks, Typed
  <1>3. /\ l \in Nat \ {0} /\ t = messages[l] /\ t \in Text
        /\ pending' \in Seq(Text) /\ Len(pending') = l - 1
        /\ Elements(messages) = Elements(pending') \cup {t}
        /\ P!First(Numbers(messages)) = n
        /\ P!Stash(Numbers(messages)) = Numbers(pending')
    BY <1>1, <1>2, StashIs
  <1>4. Batch = messages /\ Batch' = <<>> /\ pending = <<>>
    BY <1>1 DEF Batch, IInv, Tracks, Counted
  <1>5. /\ Taken + l = Count(stream, Cut)
        /\ \A k \in 1..l : NumberOf(messages[k]) = Taken + k
    BY <1>4 DEF IInv, Tracks, Counted
  <1>6. /\ Taken \in Nat /\ Sent \in Nat /\ Taken + l <= Sent
        /\ Len(delivered) \in Nat /\ Cardinality(rejected) \in Nat
    BY <1>4, Known
  <1>7. n = Taken + l
    BY <1>3, <1>5
  <1>8. t \notin rejected
    BY <1>3, <1>6, <1>7, Ordered
  <1> HIDE DEF t
  <1>9. /\ P!HandOut(n)
        /\ ConfigOf(config)' =
             IF RetOf(ret)' = "Message" THEN P!Cached(P!Last(Numbers(delivered)')) ELSE ConfigOf(config)
        /\ delivered' \in Seq(Text)
        /\ rejected' \in SUBSET Text /\ IsFiniteSet(rejected')
        /\ Len(delivered') + Cardinality(rejected') = Len(delivered) + Cardinality(rejected) + 1
        /\ Handed' = Handed \cup {t}
        /\ config' = <<>> \/ config' \in Text
        /\ ret' \in Results
    BY <1>1, <1>3, <1>8, HandOutIs
  <1>10. Taken' = Taken + l
    <2>1. Taken = Len(pending) + Len(delivered) + Cardinality(rejected)
          /\ Taken' = Len(pending') + Len(delivered') + Cardinality(rejected')
      BY DEF Taken
    <2>2. Len(delivered') \in Nat /\ Cardinality(rejected') \in Nat
      BY <1>9, LenProperties, FS_CardinalityType
    <2>3. Len(pending) = 0 BY <1>4
    <2>4. Len(pending') = l - 1 /\ l \in Nat BY <1>3
    <2>5. Len(delivered') + Cardinality(rejected') = Len(delivered) + Cardinality(rejected) + 1
      BY <1>9
    <2>6. Taken = Len(delivered) + Cardinality(rejected)
      BY <1>6, <2>1, <2>3
    <2>7. Taken' = (l - 1) + Len(delivered') + Cardinality(rejected') BY <2>1, <2>4
    <2>8. \A a, b, c, d, e \in Nat : a = b + c /\ d + e = b + c + 1 => (l - 1) + d + e = a + l
      BY <2>4
    <2> QED BY <1>6, <2>2, <2>5, <2>6, <2>7, <2>8
  <1>11. Cut' = Cut BY <1>1 DEF Cut
  <1>12. Tracks'
    <2>1. Typed' BY <1>1, <1>3, <1>9 DEF IInv, Tracks, Typed
    <2>2. \A i \in 1..Len(buf) : buf[i] # NULL BY <1>1, Known, NullPosIs
    <2>3. InPlace' BY <1>1, <1>11, <2>2 DEF IInv, Tracks, InPlace, Boundary
    <2>4. Counted'
      <3>1. Len(Batch') = 0 BY <1>4
      <3>2. Taken' + Len(Batch') = Count(stream', Cut')
        BY <1>1, <1>3, <1>5, <1>6, <1>10, <1>11, <3>1
      <3>3. \A k \in 1..Len(Batch') : FALSE BY <3>1
      <3> QED BY <1>1, <3>2, <3>3 DEF Counted
    <2>5. Found'
      <3>1. Elements(pending)' = Elements(pending') /\ Elements(Batch)' = Elements(Batch')
        BY DEF Elements
      <3>2. Elements(pending) = {} BY <1>4 DEF Elements
      <3>3. Elements(Batch) = Elements(pending') \cup {t} BY <1>3, <1>4
      <3>4. Elements(pending) \cup Handed \cup Elements(Batch)
              \subseteq Elements(pending)' \cup Handed' \cup Elements(Batch)'
        BY <1>9, <3>1, <3>2, <3>3
      <3> QED BY <1>1, <1>11, <3>4 DEF IInv, Tracks, Found
    <2> QED BY <2>1, <2>3, <2>4, <2>5 DEF Tracks
  <1>13. P!RecvRead
    <2>1. Sent' = Sent BY <1>1 DEF Sent
    <2>2. Numbers(pending) = <<>> BY <1>4 DEF Numbers
    <2>3. Numbers(pending)' = Numbers(pending') BY DEF Numbers
    <2>4. q' = Queue(Taken + l, Sent) BY <1>10, <2>1 DEF Queue
    <2>5. l \in 1..(Sent - Taken) /\ Taken <= Sent BY <1>3, <1>6
    <2>6. Len(q) = Sent - Taken BY <1>6, <2>5, QueueIs
    <2>7. SubSeq(q, 1, l) = Queue(Taken, Taken + l) /\ SubSeq(q, l + 1, Len(q)) = Queue(Taken + l, Sent)
      BY <1>6, <2>5, QueueTake
    <2>8. Numbers(messages) = Queue(Taken, Taken + l)
      <3>1. DOMAIN messages = 1..l /\ (Taken + l) - Taken = l BY <1>2, <1>3, <1>6, LenProperties
      <3>2. Numbers(messages) = [k \in 1..l |-> NumberOf(messages[k])] BY <3>1 DEF Numbers
      <3>3. Queue(Taken, Taken + l) = [k \in 1..l |-> Taken + k]
        <4> HIDE DEF l
        <4> QED BY <3>1 DEF Queue
      <3> QED BY <1>5, <3>2, <3>3
    <2> HIDE DEF q, l, n
    <2>9. l \in 1..Len(q) BY <2>5, <2>6
    <2>10. P!HandOut(P!First(SubSeq(q, 1, l))) /\ Numbers(pending)' = P!Stash(SubSeq(q, 1, l))
           /\ q' = SubSeq(q, l + 1, Len(q))
      BY <1>3, <1>9, <2>3, <2>4, <2>7, <2>8
    <2> QED BY <1>1, <2>1, <2>2, <2>9, <2>10 DEF P!RecvRead, q
  <1>14. P!PollMessage
    BY <1>9, <1>13 DEF P!PollMessage
  <1> QED BY <1>12, <1>14 DEF P!GvpNext

-----------------------------------------------------------------------------
(* The theorems.                                                           *)

LEMMA InitIInv == Init => IInv /\ P!GvpInit
  <1> SUFFICES ASSUME Init PROVE IInv /\ P!GvpInit
    OBVIOUS
  <1>1. /\ stream \in Streams /\ stream \in Seq(Byte) /\ Len(stream) \in Nat
        /\ written = 0 /\ open = TRUE /\ read = 0
        /\ buf = <<>> /\ messages = <<>> /\ pc = "idle"
        /\ pending = <<>> /\ config = <<>> /\ delivered = <<>> /\ rejected = {} /\ ret = "None"
    BY GvpLinkAssumption, LenProperties DEF Init, SplitterInit
  <1>2. Len(buf) = 0 /\ Len(pending) = 0 /\ Len(delivered) = 0 /\ Cardinality(rejected) = 0
        /\ IsFiniteSet(rejected) /\ <<>> \in Seq(Byte) /\ <<>> \in Seq(Text)
    BY <1>1, EmptySeq, FS_EmptySet
  <1>3. Taken = 0 BY <1>2 DEF Taken
  <1>4. Cut = 0 /\ Batch = <<>> /\ Len(Batch) = 0
    <2>1. 0 - 0 = 0 OBVIOUS
    <2> QED BY <1>1, <1>2, <2>1 DEF Cut, Batch
  <1>5. Ends(stream, 0) = {} /\ Count(stream, 0) = 0
    <2>1. \A i \in TextEnds(stream) : ~(i <= 0) BY <1>1, LenProperties DEF TextEnds
    <2>2. Ends(stream, 0) = {} BY <2>1 DEF Ends
    <2> QED BY <2>2, FS_EmptySet DEF Count
  <1>6. Sent = 0
    <2>1. 0 \in 0..Len(stream) BY <1>1
    <2>2. TextEnds(SubSeq(stream, 1, 0)) = Ends(stream, 0) BY <1>1, <2>1, PrefixEnds
    <2> QED BY <1>1, <1>5, <2>2 DEF Sent, Count
  <1>7. Tracks
    <2>1. Typed BY <1>1, <1>2 DEF Typed, Results
    <2>2. InPlace BY <1>1, <1>2, <1>4 DEF InPlace, Boundary
    <2>3. Counted
      <3>1. \A i \in 1..Len(Batch) : FALSE BY <1>4
      <3>2. Taken + Len(Batch) = 0 BY <1>3, <1>4
      <3> QED BY <1>1, <1>4, <1>5, <3>1, <3>2 DEF Counted
    <2>4. Found BY <1>4, <1>5 DEF Found
    <2> QED BY <2>1, <2>2, <2>3, <2>4 DEF Tracks
  <1>8. P!GvpInit
    <2>1. Queue(Taken, Sent) = <<>>
      <3>1. Queue(0, 0) \in Seq(Nat) /\ Len(Queue(0, 0)) = 0
        <4>1. 0 - 0 = 0 OBVIOUS
        <4> QED BY <4>1, QueueIs
      <3> QED BY <1>3, <1>6, <3>1, EmptySeq
    <2>2. Numbers(pending) = <<>> /\ Numbers(delivered) = <<>> /\ RejectedOf(rejected) = {}
      BY <1>1 DEF Numbers, RejectedOf
    <2>3. ConfigOf(config) = 0 BY <1>1 DEF ConfigOf
    <2>4. RetOf(ret) = "None" BY <1>1, RetIs
    <2> QED BY <1>1, <1>6, <2>1, <2>2, <2>3, <2>4 DEF P!GvpInit, P!Init
  <1>9. P!IInv
    <2>1. P!Init BY <1>8 DEF P!GvpInit
    <2> QED BY <2>1, P!InitInv
  <1> QED BY <1>7, <1>8, <1>9 DEF IInv

LEMMA NextStep == ASSUME IInv, Next PROVE Tracks' /\ [P!GvpNext]_(P!gvpVars)
  <1>1. CASE CameraWrites     BY <1>1, CameraWritesStep
  <1>2. CASE CameraCloses     BY <1>2, CameraClosesStep
  <1>3. CASE RecvPending      BY <1>3, RecvPendingStep
  <1>4. CASE Read             BY <1>4, ReadStep
  <1>5. CASE Split
    <2>1. UNCHANGED <<cameraVars, read, clientVars>> /\ (Message \/ Skip)
      BY <1>5 DEF Split, Round
    <2> QED BY <2>1, MessageStep, SkipStep
  <1>6. CASE ReadMore         BY <1>6, ReadMoreStep
  <1>7. CASE RecvRead         BY <1>7, RecvReadStep
  <1>8. CASE RecvNothing \/ RecvDisconnected
    BY <1>8, RecvOtherStep
  <1> QED BY <1>1, <1>2, <1>3, <1>4, <1>5, <1>6, <1>7, <1>8 DEF Next, Camera, Receive

LEMMA StutterStep == ASSUME IInv, UNCHANGED vars PROVE Tracks' /\ UNCHANGED P!gvpVars
  <1>1. /\ stream' = stream /\ written' = written /\ open' = open /\ read' = read
        /\ buf' = buf /\ messages' = messages /\ pc' = pc /\ pending' = pending /\ config' = config
        /\ delivered' = delivered /\ rejected' = rejected /\ ret' = ret
    BY DEF vars, cameraVars, splitterVars, clientVars
  <1>2. Taken' = Taken /\ Handed' = Handed /\ Elements(pending)' = Elements(pending) /\ UNCHANGED P!gvpVars
    BY <1>1, Invisible
  <1>3. Cut' = Cut /\ Batch' = Batch BY <1>1 DEF Cut, Batch
  <1>4. Typed' BY <1>1 DEF IInv, Tracks, Typed
  <1>5. InPlace' BY <1>1, <1>3 DEF IInv, Tracks, InPlace, Boundary
  <1>6. Counted' BY <1>1, <1>2, <1>3 DEF IInv, Tracks, Counted
  <1>7. Found'
    <2>1. Elements(Batch)' = Elements(Batch) BY <1>3 DEF Elements
    <2> QED BY <1>1, <1>2, <1>3, <2>1 DEF IInv, Tracks, Found
  <1> QED BY <1>2, <1>4, <1>5, <1>6, <1>7 DEF Tracks

LEMMA NextIInv == IInv /\ [Next]_vars => IInv' /\ [P!GvpNext]_(P!gvpVars)
  <1> SUFFICES ASSUME IInv, [Next]_vars PROVE IInv' /\ [P!GvpNext]_(P!gvpVars)
    OBVIOUS
  <1>1. Tracks' /\ [P!GvpNext]_(P!gvpVars)
    <2>1. CASE Next BY <2>1, NextStep
    <2>2. CASE UNCHANGED vars BY <2>2, StutterStep
    <2> QED BY <2>1, <2>2
  <1>2. [P!Next]_(P!vars)
    BY <1>1 DEF P!GvpNext, P!gvpVars, P!PollMessage, P!PollOther, P!Camera, P!Next, P!Recv
  <1>3. P!IInv'
    BY <1>2, P!NextInv DEF IInv
  <1> QED BY <1>1, <1>3 DEF IInv

LEMMA IInvHolds == Spec => []IInv
  BY InitIInv, NextIInv, PTL DEF Spec

\* The client over null-terminated JSON is the client over whole messages,
\* however the stream is cut and whatever else is between its messages.
THEOREM ImplementsTheClient == Spec => ImplementsClient
  <1>1. Init => Client!GvpInit BY InitIInv, SameInit
  <1>2. IInv /\ [Next]_vars => [Client!GvpNext]_(Client!gvpVars)
    BY NextIInv, SameNext
  <1> QED BY <1>1, <1>2, IInvHolds, PTL DEF Spec, ImplementsClient, Client!GvpSpec

LEMMA OverMessages == Spec => P!GvpSpec
  <1>1. Init => P!GvpInit BY InitIInv
  <1> QED BY <1>1, NextIInv, IInvHolds, PTL DEF Spec, P!GvpSpec

LEMMA OverFrames == Spec => P!Spec
  <1>1. P!GvpInit => P!Init BY DEF P!GvpInit
  <1>2. [P!GvpNext]_(P!gvpVars) => [P!Next]_(P!vars)
    BY DEF P!GvpNext, P!gvpVars, P!PollMessage, P!PollOther, P!Camera, P!Next, P!Recv
  <1> QED BY OverMessages, <1>1, <1>2, PTL DEF P!GvpSpec, P!Spec

\* A message is overtaken by at most one later one on its way through pending.
THEOREM OvertakenByOne == Spec => []OvertakenOnce
  <1>1. P!OvertakenOnce => OvertakenOnce
    BY DEF P!OvertakenOnce, Client!OvertakenOnce, OvertakenOnce
  <1> QED BY <1>1, OverFrames, P!Overtaken, PTL

\* poll() reports a disconnect only when every message has been handed out.
THEOREM NothingIsLeft == Spec => []NothingLeftBehind
  <1>1. P!NothingLeftBehind => NothingLeftBehind
    BY DEF P!NothingLeftBehind, Client!NothingLeftBehind, NothingLeftBehind, RetOf, RejectedOf,
           P!Elements, Client!Elements
  <1> QED BY <1>1, OverFrames, P!Nothing, PTL

\* The configuration config() returns arrived, and at most one that arrived
\* is newer.
THEOREM ConfigIsRecent == Spec => []ConfigLagsByOne
  <1>1. P!ConfigLagsByOne => ConfigLagsByOne
    <2>1. P!ConfigsReturned = Client!ConfigsReturned
      BY DEF P!ConfigsReturned, Client!ConfigsReturned, P!Elements, Client!Elements
    <2>2. ASSUME NEW S PROVE P!Cardinality(S) = Client!Cardinality(S)
      BY Zenon DEF P!Cardinality, Client!Cardinality, P!IsFiniteSet, Client!IsFiniteSet
    <2>3. {n \in P!ConfigsReturned : n > ConfigOf(config)} = {n \in Client!ConfigsReturned : n > ConfigOf(config)}
      BY <2>1
    <2>4. ConfigLagsByOne
            <=> /\ ConfigOf(config) = 0 <=> Client!ConfigsReturned = {}
                /\ ConfigOf(config) # 0 => ConfigOf(config) \in Client!ConfigsReturned
                /\ Client!Cardinality({n \in Client!ConfigsReturned : n > ConfigOf(config)}) <= 1
      BY Zenon DEF ConfigLagsByOne, Client!ConfigLagsByOne, ConfigOf
    <2>5. P!ConfigLagsByOne
            <=> /\ ConfigOf(config) = 0 <=> P!ConfigsReturned = {}
                /\ ConfigOf(config) # 0 => ConfigOf(config) \in P!ConfigsReturned
                /\ P!Cardinality({n \in P!ConfigsReturned : n > ConfigOf(config)}) <= 1
      BY Zenon DEF P!ConfigLagsByOne
    <2> HIDE DEF P!ConfigsReturned, Client!ConfigsReturned
    <2> QED BY <2>1, <2>2, <2>3, <2>4, <2>5, Zenon
  <1> QED BY <1>1, OverMessages, P!ConfigLag, PTL

\* What has come out of the splitter are the texts of all bytes read so far,
\* one for one: a segment cut anywhere, empty or corrupt costs no other.
THEOREM SegmentsAreMessages == Spec => []OneMessagePerSegment
  <1>1. ASSUME IInv PROVE OneMessagePerSegment
    <2> DEFINE fed == SubSeq(stream, 1, read)
    <2> SUFFICES ASSUME pc = "idle"
                 PROVE  /\ Taken = Cardinality(TextEnds(fed))
                        /\ \A i \in TextEnds(fed) :
                             \E t \in Elements(pending) \cup Handed : IsMessageOf(t, SegmentAt(fed, i))
      BY DEF OneMessagePerSegment, Taken
    <2>1. /\ stream \in Seq(Byte) /\ Len(stream) \in Nat /\ Len(buf) \in Nat
          /\ Cut \in 0..read /\ read = Cut + Len(buf) /\ read \in 0..Len(stream) /\ Taken \in Nat
      BY <1>1, Known
    <2>2. TextEnds(fed) = Ends(stream, read) BY <2>1, PrefixEnds
    <2>3. Ends(stream, read) = Ends(stream, Cut)
      <3>1. ASSUME NEW j \in (Cut + 1)..read PROVE stream[j] # NULL
        <4>1. j - Cut \in 1..Len(buf) /\ Cut + (j - Cut) = j BY <2>1
        <4>2. buf[j - Cut] = stream[j] BY <1>1, <4>1 DEF IInv, Tracks, InPlace
        <4>3. buf[j - Cut] # NULL BY <1>1, <4>1 DEF IInv, Tracks, InPlace
        <4> QED BY <4>2, <4>3
      <3>2. Cut \in Nat /\ read \in Cut..Len(stream) BY <2>1
      <3> QED BY <2>1, <3>1, <3>2, NoEnd
    <2>4. Batch = <<>> /\ Len(Batch) = 0 BY DEF Batch
    <2>5. Taken = Count(stream, Cut)
      <3>1. Taken + Len(Batch) = Count(stream, Cut) BY <1>1 DEF IInv, Tracks, Counted
      <3> QED BY <2>1, <2>4, <3>1
    <2>6. \A i \in Ends(stream, Cut) : SegmentAt(fed, i) = SegmentAt(stream, i)
      <3>1. \A i \in Ends(stream, Cut) : i \in 1..read
        BY <2>1, LenProperties DEF Ends, TextEnds
      <3> QED BY <2>1, <3>1, PrefixSegment
    <2>7. Elements(Batch) = {} BY <2>4 DEF Elements
    <2>8. ASSUME NEW i \in Ends(stream, Cut)
          PROVE  \E t \in Elements(pending) \cup Handed : IsMessageOf(t, SegmentAt(stream, i))
      BY <1>1, <2>7 DEF IInv, Tracks, Found
    <2> HIDE DEF fed
    <2> QED BY <2>2, <2>3, <2>5, <2>6, <2>8 DEF Count
  <1> QED BY <1>1, IInvHolds, PTL

=============================================================================
