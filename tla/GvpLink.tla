------------------------------- MODULE GvpLink -------------------------------
(***************************************************************************)
(* The GVP side of the program from the bytes of the camera to the events  *)
(* of GvpClient::poll(): recv() of src/gvp/conn.rs reads bytes, feeds them *)
(* to NullSplitter, stashes what one read completed, decodes one message   *)
(* at a time and lets the client cache a CONFIG.                           *)
(*                                                                         *)
(* The n-th message of a stream is written with the n-th character of      *)
(* Plain or of Cont, so that it can be said which one was handed out.      *)
(***************************************************************************)
EXTENDS NullSplitter, ReadBatch, GvpMessages, FiniteSets

CONSTANTS Streams,  \* the byte streams the camera may send
          Content   \* what serde_json finds in the messages, by number

NumbersIn(text) == {n \in 1..26 : \E i \in DOMAIN text : text[i] \in {64 + n, 160 + n}}
NumberOf(text) == CHOOSE n \in NumbersIn(text) : TRUE

\* Every stream is made of whole segments with numbered messages.
ASSUME GvpLinkAssumption ==
  /\ \E n \in 0..26 : Content \in [1..n -> Json]
  /\ \A s \in Streams :
       /\ s \in Seq(Byte) /\ Last(s) = NULL
       /\ \A i \in TextEnds(s) :
            NumberOf(SegmentAt(s, i)) = Cardinality({j \in TextEnds(s) : j <= i})
       /\ Cardinality(TextEnds(s)) <= Len(Content)

VARIABLES
  stream,     \* the bytes the camera sends, all of them (never changes)
  written,    \* how many of them it has sent
  open,       \* whether the camera has its end of the stream open
  read,       \* how many of them were read
  pending,    \* pending: texts read and not decoded, the last one next
  config,     \* the text of the cached configuration, <<>> when there is none
  delivered,  \* the texts poll() has returned an event for, in order (history)
  rejected,   \* the texts poll() has failed on (history)
  ret         \* what the last poll() returned

cameraVars == <<stream, written, open>>
clientVars == <<pending, config, delivered, rejected, ret>>
vars == <<cameraVars, read, splitterVars, clientVars>>

Init ==
  /\ stream \in Streams /\ written = 0 /\ open = TRUE
  /\ read = 0 /\ SplitterInit
  /\ pending = <<>> /\ config = <<>>
  /\ delivered = <<>> /\ rejected = {} /\ ret = "None"

\* The camera writes a segment with its terminator at a time.
CameraWrites ==
  /\ open /\ written < Len(stream)
  /\ written' = Min({i \in DOMAIN stream : i > written /\ stream[i] = NULL})
  /\ UNCHANGED <<stream, open, read, splitterVars, clientVars>>

CameraCloses ==
  /\ open
  /\ open' = FALSE
  /\ UNCHANGED <<stream, written, read, splitterVars, clientVars>>

\* Faulty variant: a CONFIG does not replace the one that is cached.
CacheFirst(text, event) == IF event = "Config" /\ config = <<>> THEN text ELSE config
Cache(text, event) == IF event = "Config" THEN text ELSE config

\* poll() decodes one text: an event, cached if it is a CONFIG, or an error.
HandOut(text) ==
  LET result == Decode(Content[NumberOf(text)]) IN
  /\ ret' = result
  /\ IF result \in DecodeErrors
     THEN rejected' = rejected \cup {text} /\ UNCHANGED <<config, delivered>>
     ELSE /\ delivered' = Append(delivered, text)
          /\ config' = Cache(text, result)
          /\ UNCHANGED rejected

RecvPending ==
  /\ pc = "idle" /\ pending # <<>>
  /\ HandOut(Last(pending))
  /\ pending' = Front(pending)
  /\ UNCHANGED <<cameraVars, read, splitterVars>>

\* Any number of the bytes that were sent arrives.
Read ==
  /\ pending = <<>>
  /\ \E n \in 1..(written - read) :
       Feed(SubSeq(stream, read + 1, read + n)) /\ read' = read + n
  /\ UNCHANGED <<cameraVars, clientVars>>

Split ==
  /\ Round
  /\ UNCHANGED <<cameraVars, read, clientVars>>

\* No complete message: recv() reads again.
ReadMore ==
  /\ NoNull /\ messages = <<>>
  /\ UNCHANGED <<cameraVars, read, clientVars>>

RecvRead ==
  /\ NoNull /\ messages # <<>>
  /\ HandOut(First(messages))
  /\ pending' = Stash(messages)
  /\ UNCHANGED <<cameraVars, read>>

\* WouldBlock or TimedOut.
RecvNothing ==
  /\ pc = "idle" /\ pending = <<>> /\ open
  /\ ret' = "None"
  /\ UNCHANGED <<cameraVars, read, splitterVars, pending, config, delivered, rejected>>

\* Faulty variant: the end of the stream is looked at before what is pending.
RecvDisconnectedEarly ==
  /\ pc = "idle" /\ ~open /\ read = written
  /\ ret' = "Disconnected"
  /\ UNCHANGED <<cameraVars, read, splitterVars, pending, config, delivered, rejected>>
RecvDisconnected ==
  /\ pc = "idle" /\ pending = <<>> /\ ~open /\ read = written
  /\ ret' = "Disconnected"
  /\ UNCHANGED <<cameraVars, read, splitterVars, pending, config, delivered, rejected>>

Camera == CameraWrites \/ CameraCloses
Receive == RecvPending \/ Read \/ Split \/ ReadMore \/ RecvRead

Next == Camera \/ Receive \/ RecvNothing \/ RecvDisconnected

Spec == Init /\ [][Next]_vars

\* poll() is called again and again, and what was sent arrives in the end.
FairSpec == Spec /\ WF_vars(Receive)

-----------------------------------------------------------------------------
(* Properties.                                                             *)

Elements(s) == {s[i] : i \in DOMAIN s}
Handed == Elements(delivered) \cup rejected

\* However the network cuts the stream, also within a character, the texts
\* that came out of the splitter are the non-empty valid segments of all bytes
\* read so far, one for one and trimmed: a corrupt segment costs only itself.
OneMessagePerSegment ==
  pc = "idle" =>
    LET fed == SubSeq(stream, 1, read) IN
    /\ Len(pending) + Len(delivered) + Cardinality(rejected) = Cardinality(TextEnds(fed))
    /\ \A i \in TextEnds(fed) :
         \E t \in Elements(pending) \cup Handed : IsMessageOf(t, SegmentAt(fed, i))

-----------------------------------------------------------------------------
(* Refinement: bytes and segments are invisible, messages are frames.      *)

Numbers(s) == [i \in DOMAIN s |-> NumberOf(s[i])]
NumbersWhere(results) == {n \in DOMAIN Content : Decode(Content[n]) \in results}

\* What was sent and is neither pending nor handed out, wherever its bytes are.
Sent == Cardinality(TextEnds(SubSeq(stream, 1, written)))
Taken == Len(pending) + Len(delivered) + Cardinality(rejected)
Unread == [i \in 1..(Sent - Taken) |-> Taken + i]

Client ==
  INSTANCE GvpClient
    WITH MaxFrames <- Len(Content),
         Corrupt <- NumbersWhere(DecodeErrors),
         Configs <- NumbersWhere({"Config"}),
         sent <- Sent,
         wire <- Unread,
         pending <- Numbers(pending),
         delivered <- Numbers(delivered),
         rejected <- {NumberOf(t) : t \in rejected},
         config <- IF config = <<>> THEN 0 ELSE NumberOf(config),
         ret <- CASE ret \in Events -> "Message"
                  [] ret \in DecodeErrors -> "WireError"
                  [] OTHER -> ret

\* The client over null-terminated JSON is the client over frames: every
\* message of the camera reaches poll() once, as its event or its error, and
\* the bad ones leave the others and the cached configuration alone.
ImplementsClient == Client!GvpSpec

\* How far order can suffer: a message is overtaken by at most one later one,
\* the last of the read that brought both.
OvertakenOnce == Client!OvertakenOnce

\* A disconnect is reported only when every message has been handed out.
NothingLeftBehind == Client!NothingLeftBehind

\* The cached configuration is one that arrived, and at most one that arrived
\* is newer: the one that overtook it in its read.  So config() is not always
\* the latest configuration, as its comment says, and never lags further.
ConfigLagsByOne == Client!ConfigLagsByOne

\* Every message sent is handed out in the end.
EveryMessageArrives ==
  \A n \in DOMAIN Content : Sent >= n ~> n \in {NumberOf(t) : t \in Handed}

=============================================================================
