------------------------------ MODULE Blocking ------------------------------
(***************************************************************************)
(* The blocking functions of src/seq.rs: drive(), which runs a sequencer   *)
(* to its end, the wrappers around it, and recv_msg(), send_recv() and     *)
(* keepalive(), which wait for single answers with recv_timeout() of       *)
(* src/conn.rs.  A call is a loop:                                         *)
(*   "idle"  no call is running                                            *)
(*   "loop"  the deadline of the call is checked, and recv() entered       *)
(*   "read"  recv() waits in read() for the read timeout of the stream     *)
(* recv() returns only with a complete frame or when a read times out: a   *)
(* read that completes no frame is followed by another one, without end    *)
(* and without a look at the deadline.  Time passes only in reads.         *)
(***************************************************************************)
EXTENDS Sequencers

CONSTANTS CallTimeout,      \* the 30 s of the functions that drive, in ticks
          ReadTimeout,      \* their 100 ms of read timeout
          ExchangeTimeout,  \* TIMEOUT, for a single answer
          FramesInPieces,   \* whether a read may complete no frame
          SettingsChoices,  \* the AvrSettings a caller may pass
          Envelopes,        \* the envelopes the peer may send
          SendMayFail       \* whether a write to the stream may fail

ASSUME BlockingAssumption ==
  /\ CallTimeout \in Nat \ {0}
  /\ ReadTimeout \in Nat \ {0}
  /\ ExchangeTimeout \in Nat \ {0}
  /\ FramesInPieces \in BOOLEAN
  /\ SettingsChoices \subseteq Settings
  /\ Envelopes \subseteq AllEnvelopes
  /\ SendMayFail \in BOOLEAN

VARIABLES
  call,         \* the function that runs, or last ran
  seq,          \* the sequencer it drives, NoSeq when it drives none
  poll,         \* the poll of keepalive() that waits for its answer
  left,         \* ticks until the deadline of the loop
  readTimeout,  \* the read timeout of the stream
  readLeft,     \* ticks until the current read times out
  late,         \* ticks after the deadline since a read last brought part of
                \* a frame (history)
  pc,           \* where the call is
  ret,          \* what it returned, "Pending" while it runs
  out           \* the commands the last step wrote to the stream

clockVars == <<left, late>>
readVars == <<readTimeout, readLeft>>
vars == <<call, seq, poll, clockVars, readVars, pc, ret, out>>

NoSeq == [kind |-> "None"]

\* The functions that drive a sequencer, and those that wait for one answer.
Driven ==
  [sync_dsp |-> "Dsp", sync_avr |-> "Avr", sync_pi |-> "Pi",
   configure_avr |-> "AvrConfig", configure_camera |-> "Camera",
   arm |-> "Arm", complete_shot |-> "Shot"]
Exchanging == {"recv_msg", "keepalive"}

Returns == {"Ok", "Timeout", "Protocol", "RecvError", "Io"}

Init ==
  /\ call = "recv_msg" /\ seq = NoSeq /\ poll = 0
  /\ left = 0 /\ late = 0
  /\ readTimeout = ReadTimeout /\ readLeft = 0
  /\ pc = "idle" /\ ret = "Ok" /\ out = <<>>

Return(r) == pc' = "idle" /\ ret' = r
GoOn(l) == pc' = l /\ ret' = "Pending"

\* The deadline of a loop is set.
Deadline(ticks) == left' = ticks /\ late' = 0

\* The write of one command of cmds fails; those before it are out.
WriteFails(cmds) ==
  /\ SendMayFail
  /\ \E k \in 1..Len(cmds) : out' = SubSeq(cmds, 1, k - 1)
  /\ Return("Io")

\* cmds are written and the call goes on at l, or a write fails.
Write(cmds, l) == (out' = cmds /\ GoOn(l)) \/ WriteFails(cmds)

-----------------------------------------------------------------------------
(* The calls.                                                              *)

CallDriven ==
  /\ pc = "idle"
  /\ \E f \in DOMAIN Driven, cfg \in SettingsChoices :
       /\ call' = f
       /\ seq' = NewSeq(Driven[f], cfg)
       /\ Write(InitialSends[Driven[f]], "loop")
  /\ readTimeout' = ReadTimeout
  /\ Deadline(CallTimeout)
  /\ UNCHANGED <<poll, readLeft>>

Polls == <<"Dsp", "Avr", "Pi">>

CallKeepalive ==
  /\ pc = "idle"
  /\ call' = "keepalive" /\ seq' = NoSeq /\ poll' = 1
  /\ Write(<<Cmd("StatusPoll", Polls[1])>>, "loop")
  /\ Deadline(ExchangeTimeout)
  /\ UNCHANGED readVars

CallRecvMsg ==
  /\ pc = "idle"
  /\ call' = "recv_msg" /\ seq' = NoSeq
  /\ Deadline(ExchangeTimeout)
  /\ GoOn("loop")
  /\ out' = <<>>
  /\ UNCHANGED <<poll, readVars>>

-----------------------------------------------------------------------------
(* The loop: the deadline, the calibration timeout of sync_avr, recv().    *)

DeadlinePassed ==
  /\ pc = "loop" /\ left = 0
  /\ Return("Timeout")
  /\ out' = <<>>
  /\ UNCHANGED <<call, seq, poll, clockVars, readVars>>

\* Faulty variant: the deadline is not looked at.
EnterReadAnyway(timeout) ==
  /\ pc = "loop"
  /\ readTimeout' = timeout /\ readLeft' = timeout
EnterRead(timeout) ==
  /\ pc = "loop" /\ left > 0
  /\ readTimeout' = timeout /\ readLeft' = timeout

\* Only sync_avr asks its sequencer for a timeout; drive() never does.
CalibrationDue == call = "sync_avr" /\ TimerDue(seq)

LoopDriven ==
  /\ call \in DOMAIN Driven
  /\ EnterRead(ReadTimeout)
  /\ IF CalibrationDue
     THEN seq' = TimedOut(seq) /\ Write(TimeoutSends(seq), "read")
     ELSE seq' = seq /\ out' = <<>> /\ GoOn("read")
  /\ UNCHANGED <<call, poll, clockVars>>

\* recv_timeout() gives the read what is left until the deadline.
LoopExchange ==
  /\ call \in Exchanging
  /\ EnterRead(left)
  /\ GoOn("read")
  /\ out' = <<>>
  /\ UNCHANGED <<call, seq, poll, clockVars>>

-----------------------------------------------------------------------------
(* recv().                                                                 *)

\* Bytes without a complete frame: recv() reads again, for a whole timeout.
\* A peer can go on with that for ever.
ReadPartial ==
  /\ pc = "read" /\ FramesInPieces
  /\ readLeft' = readTimeout
  /\ late' = 0
  /\ out' = <<>>
  /\ UNCHANGED <<call, seq, poll, left, readTimeout, pc, ret>>

\* Faulty variant: recv() reads on.
ReadNothingReadsOn ==
  /\ pc = "read" /\ readLeft = 0
  /\ readLeft' = readTimeout /\ out' = <<>>
  /\ UNCHANGED <<call, seq, poll, clockVars, readTimeout, pc, ret>>

\* The read times out: Ok(None), which recv_timeout() turns into Timeout.
ReadNothing ==
  /\ pc = "read" /\ readLeft = 0
  /\ IF call \in Exchanging THEN Return("Timeout") ELSE GoOn("loop")
  /\ out' = <<>>
  /\ UNCHANGED <<call, seq, poll, clockVars, readVars>>

ReadFails ==
  /\ pc = "read"
  /\ Return("RecvError")
  /\ out' = <<>>
  /\ UNCHANGED <<call, seq, poll, clockVars, readVars>>

Received ==
  /\ pc = "read"
  /\ UNCHANGED <<call, readVars>>

-----------------------------------------------------------------------------
(* What is done with an envelope.                                          *)

\* drive(): the sequencer is fed, and is complete or goes on.
FeedDriven(e) ==
  /\ Received /\ call \in DOMAIN Driven
  /\ seq' = Fed(seq, e)
  /\ IF IsComplete(seq')
     THEN (out' = Replies(seq, e) /\ Return("Ok")) \/ WriteFails(Replies(seq, e))
     ELSE Write(Replies(seq, e), "loop")
  /\ UNCHANGED <<poll, clockVars>>

\* recv_msg() skips the debug output only.
TakeMessage(e) ==
  /\ Received /\ call = "recv_msg"
  /\ IF e.msg \in Texts \cup {"DspDebug"} THEN GoOn("loop") ELSE Return("Ok")
  /\ out' = <<>>
  /\ UNCHANGED <<seq, poll, clockVars>>

\* send_recv() skips other buses and what a device sends unasked.
Unasked == Texts \cup {"DspDebug", "CamState", "ModeAck", "ConfigNack", "Unknown"}
Skips(e) == e.src # Polls[poll] \/ e.msg \in Unasked

StatusOf ==
  [Dsp |-> {"DspStatus", "DspStatus6"}, Avr |-> {"AvrStatus"}, Pi |-> {"PiStatus"}]

SkipAnswer(e) ==
  /\ Received /\ call = "keepalive" /\ Skips(e)
  /\ GoOn("loop")
  /\ out' = <<>>
  /\ UNCHANGED <<seq, poll, clockVars>>

\* The first answer that is not skipped must be the status.
WrongAnswer(e) ==
  /\ Received /\ call = "keepalive" /\ ~Skips(e)
  /\ e.msg \notin StatusOf[Polls[poll]]
  /\ Return("Protocol")
  /\ out' = <<>>
  /\ UNCHANGED <<seq, poll, clockVars>>

NextPoll(e) ==
  /\ Received /\ call = "keepalive" /\ ~Skips(e)
  /\ e.msg \in StatusOf[Polls[poll]] /\ poll < Len(Polls)
  /\ poll' = poll + 1
  /\ Write(<<Cmd("StatusPoll", Polls[poll + 1])>>, "loop")
  /\ Deadline(ExchangeTimeout)
  /\ UNCHANGED seq

LastPoll(e) ==
  /\ Received /\ call = "keepalive" /\ ~Skips(e)
  /\ e.msg \in StatusOf[Polls[poll]] /\ poll = Len(Polls)
  /\ Return("Ok")
  /\ out' = <<>>
  /\ UNCHANGED <<seq, poll, clockVars>>

-----------------------------------------------------------------------------

\* Time passes in a read, until it times out.
Tick ==
  /\ pc = "read" /\ readLeft > 0
  /\ readLeft' = readLeft - 1
  /\ left' = Ticked(left)
  /\ late' = IF left = 0 THEN late + 1 ELSE 0
  /\ seq' = IF seq = NoSeq THEN NoSeq ELSE [seq EXCEPT !.timer = Ticked(@)]
  /\ out' = <<>>
  /\ UNCHANGED <<call, poll, readTimeout, pc, ret>>

Calls == CallDriven \/ CallKeepalive \/ CallRecvMsg

Loop == DeadlinePassed \/ LoopDriven \/ LoopExchange

Handle(e) ==
  FeedDriven(e) \/ TakeMessage(e) \/ SkipAnswer(e) \/ WrongAnswer(e) \/ NextPoll(e) \/ LastPoll(e)

Next ==
  \/ Calls \/ Loop \/ ReadPartial \/ ReadNothing \/ ReadFails \/ Tick
  \/ \E e \in Envelopes : Handle(e)

Spec == Init /\ [][Next]_vars

\* The code runs and time passes: strongly fair, because a peer that keeps
\* sending interrupts every read but cannot stop the clock.
FairSpec == Spec /\ WF_vars(Loop) /\ WF_vars(ReadNothing) /\ SF_vars(Tick)

-----------------------------------------------------------------------------
(* Properties.                                                             *)

\* Every variable has its type; a read waits no longer than its timeout.
TypeOK ==
  /\ call \in DOMAIN Driven \cup Exchanging
  /\ seq \in Sequencer \cup {NoSeq}
  /\ poll \in 0..Len(Polls)
  /\ left \in Nat /\ late \in Nat
  /\ readTimeout \in Nat \ {0} /\ readLeft \in Nat
  /\ pc = "read" => readLeft <= readTimeout
  /\ pc \in {"idle", "loop", "read"} /\ ret \in Returns \cup {"Pending"}
  /\ out \in Seq(Commands)

\* A call outlives its deadline only in a recv() that pieces of a frame keep
\* going, and by one read timeout after the last piece at most: what it has
\* waited since the deadline and since that piece is never longer, whichever
\* reads timed out and whichever envelopes it skipped or handled before.  (The
\* comment of recv_timeout() promises its timeout for a whole frame.)
OverrunBounded == late <= readTimeout

\* The peer keeps the program in one recv() for ever: its bytes do not cease
\* and never complete a frame.
KeptReading == <>[](pc = "read") /\ []<><<ReadPartial>>_vars

\* Every call returns, whether the peer is silent, sends what is skipped or
\* answers in pieces, unless it keeps the call reading as above.
CallReturns == (pc # "idle" ~> pc = "idle") \/ KeptReading

\* The unwraps of into_result() cannot panic in a wrapper either: a call that
\* is Ok has what they need, also when calibration answers were given up.
ResultsComplete ==
  ret = "Ok" /\ call \in DOMAIN Driven /\ seq.kind \in DOMAIN Unwrapped =>
    Unwrapped[seq.kind] \subseteq seq.got

-----------------------------------------------------------------------------
(* What the documentation says and the code does not do.                   *)

\* seq.rs: if the device does not send IDLE within the drain timeout, the
\* shot proceeds directly to ARM.  complete_shot() never asks.
DrainGivenUp ==
  (seq.kind = "Shot" /\ seq.step = "Draining" /\ seq.timer = 0 /\ pc # "idle") ~>
    (seq.kind = "Shot" /\ seq.step = "WaitingForArmAck")

=============================================================================
