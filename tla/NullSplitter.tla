---------------------------- MODULE NullSplitter ----------------------------
(***************************************************************************)
(* NullSplitter of src/gvp/splitter.rs: JSON messages end with a null byte *)
(* and arrive in segments of any length, which may cut a message, and a    *)
(* character of it, in two.  One action is one round of the loop of        *)
(* feed(), whose caller is GvpLink.                                        *)
(***************************************************************************)
EXTENDS Integers, Sequences, SequencesExt

\* Bytes as far as feed() tells them apart: the terminator, white space,
\* characters of one byte, and the bytes of characters of two.
NULL == 0
Blank == 32
Plain == 65..90
Lead == 195
Cont == 161..186
Byte == {NULL, Blank, Lead} \cup Plain \cup Cont

VARIABLES
  buf,       \* buf
  messages,  \* the messages the running or last feed() has found, in order
  pc         \* "idle" between two calls of feed(), "split" in its loop

splitterVars == <<buf, messages, pc>>

SplitterInit == buf = <<>> /\ messages = <<>> /\ pc = "idle"

Feed(data) ==
  /\ pc = "idle"
  /\ buf' = buf \o data
  /\ messages' = <<>>
  /\ pc' = "split"

\* from_utf8: no character is cut.
IsUtf8(s) ==
  \A i \in DOMAIN s :
    /\ s[i] = Lead => i < Len(s) /\ s[i + 1] \in Cont
    /\ s[i] \in Cont => i > 1 /\ s[i - 1] = Lead

Trim(s) ==
  LET Ink == {i \in DOMAIN s : s[i] # Blank}
  IN IF Ink = {} THEN <<>> ELSE SubSeq(s, Min(Ink), Max(Ink))

IsNull(b) == b = NULL
NullPos == SelectInSeq(buf, IsNull)
Segment == SubSeq(buf, 1, NullPos - 1)

Message ==
  /\ pc = "split" /\ NullPos # 0
  /\ IsUtf8(Segment) /\ Trim(Segment) # <<>>
  /\ messages' = Append(messages, Trim(Segment))
  /\ buf' = SubSeq(buf, NullPos + 1, Len(buf))
  /\ UNCHANGED pc

\* Faulty variant: a corrupt segment takes the rest of the buffer with it.
SkipAll ==
  /\ pc = "split" /\ NullPos # 0
  /\ ~IsUtf8(Segment) \/ Trim(Segment) = <<>>
  /\ buf' = <<>>
  /\ UNCHANGED <<messages, pc>>

\* Empty segments and corrupt ones are skipped.
Skip ==
  /\ pc = "split" /\ NullPos # 0
  /\ ~IsUtf8(Segment) \/ Trim(Segment) = <<>>
  /\ buf' = SubSeq(buf, NullPos + 1, Len(buf))
  /\ UNCHANGED <<messages, pc>>

NoNull ==
  /\ pc = "split" /\ NullPos = 0
  /\ pc' = "idle"
  /\ UNCHANGED <<buf, messages>>

Round == Message \/ Skip

-----------------------------------------------------------------------------
(* The reference the splitter is compared with.                            *)

\* The segment of a stream that ends at i, and where those with text end.
SegmentAt(s, i) ==
  LET Before == {j \in 1..(i - 1) : s[j] = NULL}
  IN SubSeq(s, IF Before = {} THEN 1 ELSE Max(Before) + 1, i - 1)
HasText(s) == IsUtf8(s) /\ \E i \in DOMAIN s : s[i] # Blank
TextEnds(s) == {i \in DOMAIN s : s[i] = NULL /\ HasText(SegmentAt(s, i))}

\* A message is a segment without the white space around it.
IsMessageOf(t, s) ==
  \E first, last \in DOMAIN s :
    /\ t = SubSeq(s, first, last)
    /\ s[first] # Blank /\ s[last] # Blank
    /\ \A i \in DOMAIN s : s[i] # Blank => i \in first..last

=============================================================================
