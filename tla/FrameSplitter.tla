---------------------------- MODULE FrameSplitter ----------------------------
(***************************************************************************)
(* FrameSplitter of src/frame.rs: bytes arrive in segments of any length,  *)
(* feed() appends a segment to a buffer and cuts complete frames off it.   *)
(* One action is one round of the loop of feed().                          *)
(***************************************************************************)
EXTENDS FrameCodec

CONSTANT Streams  \* the byte streams that may arrive

ASSUME StreamsAssumption == Streams \subseteq Seq(Byte)

VARIABLES
  stream,  \* the bytes that arrive, all of them (never changes)
  read,    \* how many of them have been fed
  buf,     \* buf
  frames,  \* the frames feed() has returned, in order (history)
  pc       \* "idle" between two calls of feed(), "split" in its loop

splitterVars == <<stream, read, buf, frames, pc>>

Init ==
  /\ stream \in Streams
  /\ read = 0 /\ buf = <<>> /\ frames = <<>> /\ pc = "idle"

Feed ==
  /\ pc = "idle"
  /\ \E n \in 1..(Len(stream) - read) :
       /\ buf' = buf \o SubSeq(stream, read + 1, read + n)
       /\ read' = read + n
  /\ pc' = "split"
  /\ UNCHANGED <<stream, frames>>

IsStart(b) == b = START
IsEnd(b) == b = END

\* The position of the first start marker, and of the first end marker
\* behind it; 0 when there is none.  Faulty variant: the first end marker
\* anywhere.
StartPos == SelectInSeq(buf, IsStart)
EndPosAnywhere == SelectInSeq(buf, IsEnd)
EndPos == SelectInSubSeq(buf, StartPos + 1, Len(buf), IsEnd)

\* Faulty variant: the loop is not left.
NoFrameGoesOn ==
  /\ pc = "split" /\ StartPos = 0
  /\ buf' = <<>>
  /\ UNCHANGED <<stream, read, frames, pc>>
NoFrame ==
  /\ pc = "split" /\ StartPos = 0
  /\ buf' = <<>>
  /\ pc' = "idle"
  /\ UNCHANGED <<stream, read, frames>>

\* Faulty variant: the bytes in front of an incomplete frame are kept.
KeepGarbage ==
  /\ pc = "split" /\ StartPos # 0 /\ EndPos = 0
  /\ pc' = "idle"
  /\ UNCHANGED <<stream, read, buf, frames>>
IncompleteFrame ==
  /\ pc = "split" /\ StartPos # 0 /\ EndPos = 0
  /\ buf' = SubSeq(buf, StartPos, Len(buf))
  /\ pc' = "idle"
  /\ UNCHANGED <<stream, read, frames>>

\* Faulty variant: only one frame is cut off in a call.
OneFrame ==
  /\ pc = "split" /\ StartPos # 0 /\ EndPos # 0
  /\ frames' = Append(frames, SubSeq(buf, StartPos, EndPos))
  /\ buf' = SubSeq(buf, EndPos + 1, Len(buf))
  /\ pc' = "idle"
  /\ UNCHANGED <<stream, read>>
CompleteFrame ==
  /\ pc = "split" /\ StartPos # 0 /\ EndPos # 0
  /\ frames' = Append(frames, SubSeq(buf, StartPos, EndPos))
  /\ buf' = SubSeq(buf, EndPos + 1, Len(buf))
  /\ UNCHANGED <<stream, read, pc>>

Split == NoFrame \/ IncompleteFrame \/ CompleteFrame

Next == Feed \/ Split

Spec == Init /\ [][Next]_splitterVars

\* Segments keep arriving, feed() runs to its end.
FairSpec == Spec /\ WF_splitterVars(Next)

-----------------------------------------------------------------------------
(* Properties.                                                             *)

\* The frames of a whole stream, by position: from a start marker to the next
\* end marker, where no start marker comes between the end marker before (or
\* the beginning) and the start.
IsSpan(s, i, j) ==
  /\ i < j /\ s[i] = START /\ s[j] = END
  /\ \A k \in i..(j - 1) : s[k] # END
  /\ \A k \in 1..(i - 1) : s[k] = START => \E m \in k..(i - 1) : s[m] = END
Spans(s) == {p \in (DOMAIN s) \X (DOMAIN s) : IsSpan(s, p[1], p[2])}

\* fs are the frames of s: its spans, all of them, from first to last.
AreFramesOf(fs, s) ==
  \E p \in [DOMAIN fs -> Spans(s)] :
    /\ \A n \in DOMAIN fs : fs[n] = SubSeq(s, p[n][1], p[n][2])
    /\ \A m, n \in DOMAIN fs : m < n => p[m][2] < p[n][1]
    /\ \A q \in Spans(s) : \E n \in DOMAIN fs : p[n] = q

\* Every variable has the type the struct gives it.
TypeOK ==
  /\ stream \in Seq(Byte) /\ read \in 0..Len(stream)
  /\ buf \in Seq(Byte) /\ frames \in Seq(Seq(Byte))
  /\ pc \in {"idle", "split"}

\* However the stream is cut into segments, the frames returned so far are
\* those of all bytes fed so far: none is late, none depends on the cuts, and
\* bytes outside frames only disappear.
SplitsLikeWhole ==
  pc = "idle" => AreFramesOf(frames, SubSeq(stream, 1, read))

\* Between two calls the buffer is empty or one open frame: it begins with a
\* start marker and holds no end marker.
BufferIsOpenFrame ==
  pc = "idle" /\ buf # <<>> =>
    buf[1] = START /\ \A i \in DOMAIN buf : buf[i] # END

\* Each frame handed on has its markers at both ends and no end marker inside.
FramesAreFramed ==
  \A n \in DOMAIN frames :
    LET f == frames[n] IN
    /\ Len(f) >= 2 /\ f[1] = START /\ f[Len(f)] = END
    /\ \A i \in 1..(Len(f) - 1) : f[i] # END

\* feed() returns, and the whole stream is read.
StreamIsRead == <>(pc = "idle" /\ read = Len(stream))

=============================================================================
