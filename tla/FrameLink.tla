------------------------------ MODULE FrameLink ------------------------------
(***************************************************************************)
(* The two halves of src/frame.rs together: the device encodes frames, the *)
(* client connects at some byte of its stream, splits and parses.          *)
(***************************************************************************)
EXTENDS FrameSplitter

CONSTANT Sendable  \* the sequences of frames the device may send

ASSUME SendableAssumption == Sendable \subseteq Seq(RawFrames)

VARIABLES
  sent,     \* the frames the device sends
  skipped   \* the bytes of them that went by before the client connected

linkVars == <<splitterVars, sent, skipped>>

Wire(fs) == FlattenSeq([i \in DOMAIN fs |-> Encode(fs[i])])
Joined(fs, n) == SubSeq(Wire(fs), n + 1, Len(Wire(fs)))

\* The stream is that of a device, or bytes of any other origin.
LinkInit ==
  /\ Init
  /\ \/ /\ sent \in Sendable
        /\ skipped \in 0..Len(Wire(sent))
        /\ stream = Joined(sent, skipped)
     \/ sent = <<>> /\ skipped = 0

LinkNext == Next /\ UNCHANGED <<sent, skipped>>

LinkSpec == LinkInit /\ [][LinkNext]_linkVars

\* The connection is read to its end.
LinkFairSpec == LinkSpec /\ WF_linkVars(LinkNext)

-----------------------------------------------------------------------------

\* What decode_wire parses of the frames that were split off.
Parsed == [n \in DOMAIN frames |-> Parse(frames[n])]

\* The frames that begin behind the place where the client connected.
Offset(i) == Len(Wire(SubSeq(sent, 1, i - 1)))
WholeFrames == SubSeq(sent, 1 + Cardinality({i \in DOMAIN sent : Offset(i) < skipped}), Len(sent))

\* A client that connects in the middle of a frame loses that frame and no
\* other: all later ones parse, unchanged and in order, whatever bytes their
\* fields and their checksums hold and however the stream is cut.
WholeFramesArrive ==
  sent # <<>> =>
    /\ IsPrefix(Parsed, WholeFrames)
    /\ pc = "idle" /\ read = Len(stream) => Parsed = WholeFrames

=============================================================================
