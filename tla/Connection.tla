----------------------------- MODULE Connection -----------------------------
(***************************************************************************)
(* The receiving half of BinaryConnection in src/conn.rs: recv() and its   *)
(* pending vector.  GvpConnection of src/gvp/conn.rs has the same recv().  *)
(*                                                                         *)
(* Frames are numbered in the order the device sends them.  One read of    *)
(* the stream returns bytes that complete some number of frames: how many  *)
(* is up to the network, a partial frame stays in the splitter.            *)
(***************************************************************************)
EXTENDS Integers, ReadBatch

CONSTANTS MaxFrames,  \* the device sends at most this many frames
          Corrupt     \* the numbers of frames that decode_wire rejects

VARIABLES
  sent,       \* number of frames the device has sent
  wire,       \* frames sent and not read yet
  open,       \* whether the device has its end of the stream open
  pending,    \* pending: frames read and not handed out, the last one next
  delivered,  \* the frames recv() has returned, in order (history)
  rejected,   \* the frames recv() has returned a wire error for (history)
  ret         \* what the last recv() returned

vars == <<sent, wire, open, pending, delivered, rejected, ret>>

Init ==
  /\ sent = 0 /\ wire = <<>> /\ open = TRUE
  /\ pending = <<>>
  /\ delivered = <<>> /\ rejected = {} /\ ret = "None"

\* The device.
DeviceSends ==
  /\ open /\ sent < MaxFrames
  /\ sent' = sent + 1 /\ wire' = Append(wire, sent + 1)
  /\ UNCHANGED <<open, pending, delivered, rejected, ret>>

DeviceCloses ==
  /\ open
  /\ open' = FALSE
  /\ UNCHANGED <<sent, wire, pending, delivered, rejected, ret>>

\* decode_wire: the frame becomes a message, or the error recv() returns.
HandOut(n) ==
  IF n \in Corrupt
  THEN rejected' = rejected \cup {n} /\ ret' = "WireError" /\ UNCHANGED delivered
  ELSE delivered' = Append(delivered, n) /\ ret' = "Message" /\ UNCHANGED rejected

\* A pending frame is handed out before anything is read.
RecvPending ==
  /\ pending # <<>>
  /\ HandOut(Last(pending))
  /\ pending' = Front(pending)
  /\ UNCHANGED <<sent, wire, open>>

\* A read that completes the next k frames.
RecvRead ==
  /\ pending = <<>>
  /\ \E k \in 1..Len(wire) :
       LET frames == SubSeq(wire, 1, k) IN
       /\ HandOut(First(frames))
       /\ pending' = Stash(frames)
       /\ wire' = SubSeq(wire, k + 1, Len(wire))
  /\ UNCHANGED <<sent, open>>

\* No complete frame: WouldBlock or TimedOut.
RecvNothing ==
  /\ pending = <<>> /\ open
  /\ ret' = "None"
  /\ UNCHANGED <<sent, wire, open, pending, delivered, rejected>>

\* Faulty variant: the end of the stream is reported before what is pending.
RecvDisconnectedEarly ==
  /\ wire = <<>> /\ ~open
  /\ ret' = "Disconnected"
  /\ UNCHANGED <<sent, wire, open, pending, delivered, rejected>>

\* The peer has closed and everything it sent was read.
RecvDisconnected ==
  /\ pending = <<>> /\ wire = <<>> /\ ~open
  /\ ret' = "Disconnected"
  /\ UNCHANGED <<sent, wire, open, pending, delivered, rejected>>

Recv == RecvPending \/ RecvRead \/ RecvNothing \/ RecvDisconnected

Next == DeviceSends \/ DeviceCloses \/ Recv

Spec == Init /\ [][Next]_vars

\* The caller keeps calling recv(), and what was sent arrives in the end.
FairSpec == Spec /\ WF_vars(RecvPending) /\ WF_vars(RecvRead) /\ WF_vars(RecvDisconnected)

-----------------------------------------------------------------------------
(* Properties.                                                             *)

Elements(s) == {s[i] : i \in DOMAIN s}

\* Every variable has the type the struct gives it.
TypeOK ==
  /\ sent \in Nat /\ open \in BOOLEAN
  /\ wire \in Seq(1..sent) /\ pending \in Seq(1..sent) /\ delivered \in Seq(1..sent)
  /\ rejected \in SUBSET (1..sent)
  /\ ret \in {"None", "Message", "WireError", "Disconnected"}

Frames == INSTANCE FrameBag
            WITH inFlight <- Elements(wire) \cup Elements(pending),
                 handed <- Elements(delivered) \cup rejected

\* No frame is lost, duplicated or invented on its way through the pending
\* vector, also when another frame of the same read does not decode.
EachFrameOnce == Frames!Spec

\* How far order can suffer: a frame is overtaken by at most one later frame,
\* the last one of the read that brought both.
OvertakenOnce ==
  \A i \in DOMAIN delivered :
    \A j, k \in 1..(i - 1) :
      delivered[j] > delivered[i] /\ delivered[k] > delivered[i] => j = k

\* A disconnect is reported only when every frame has been handed out.
NothingLeftBehind ==
  ret = "Disconnected" => Elements(delivered) \cup rejected = 1..sent

\* Every frame sent is handed out in the end.
EveryFrameArrives ==
  \A n \in 1..MaxFrames : sent >= n ~> n \in Elements(delivered) \cup rejected

\* conn.rs: extras are stashed in arrival order, so that frames come out in
\* the order they arrived.  The frame popped first is the last of its read.
InArrivalOrder ==
  \A i, j \in DOMAIN delivered : i < j => delivered[i] < delivered[j]

=============================================================================
