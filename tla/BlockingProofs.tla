--------------------------- MODULE BlockingProofs ---------------------------
(***************************************************************************)
(* Theorems about Blocking, for every value of its constants: any          *)
(* timeouts, any peer, frames that come in pieces or never end, with and   *)
(* without write errors.                                                   *)
(***************************************************************************)
EXTENDS Blocking, SequencersProofs, SequenceTheorems

-----------------------------------------------------------------------------
(* Types.                                                                  *)

LEMMA SeqTyped ==
  ASSUME TypeOK
  PROVE  /\ seq # NoSeq => seq \in Sequencer
         /\ seq.kind # "None" => seq # NoSeq
         /\ seq \in Sequencer => seq # NoSeq
  BY DEF TypeOK, NoSeq, Sequencer, Kinds, FirstStep

\* What a write leaves, complete or cut short by an error.
LEMMA WriteTyped ==
  ASSUME NEW cmds \in Seq(Commands), NEW l \in {"loop", "read"},
         Write(cmds, l) \/ WriteFails(cmds)
  PROVE  /\ out' \in Seq(Commands)
         /\ (pc' = "idle" /\ ret' = "Io") \/ (pc' = l /\ ret' = "Pending")
  <1>1. CASE WriteFails(cmds)
    <2>1. PICK k \in 1..Len(cmds) : out' = SubSeq(cmds, 1, k - 1)
      BY <1>1 DEF WriteFails
    <2>2. SubSeq(cmds, 1, k - 1) \in Seq(Commands) BY SubSeqProperties
    <2> QED BY <1>1, <2>1, <2>2 DEF WriteFails, Return
  <1>2. CASE Write(cmds, l) /\ ~WriteFails(cmds)
    BY <1>2 DEF Write, GoOn
  <1> QED BY <1>1, <1>2

LEMMA DrivenTyped ==
  ASSUME NEW f \in DOMAIN Driven
  PROVE  Driven[f] \in Kinds
  BY DEF Driven, Kinds, FirstStep

LEMMA PollTyped ==
  ASSUME NEW i \in 1..3
  PROVE  <<Cmd("StatusPoll", Polls[i])>> \in Seq(Commands)
  <1>1. Polls[i] \in Buses /\ "StatusPoll" \in CommandNames
    BY DEF Polls, Buses, CommandNames
  <1> QED BY <1>1, CmdTyped

LEMMA CallTyped ==
  ASSUME TypeOK, Calls
  PROVE  TypeOK'
  <1>1. CASE CallDriven
    <2>1. PICK f \in DOMAIN Driven, cfg \in SettingsChoices :
            /\ call' = f
            /\ seq' = NewSeq(Driven[f], cfg)
            /\ Write(InitialSends[Driven[f]], "loop")
      BY <1>1 DEF CallDriven
    <2>2. seq' \in Sequencer /\ InitialSends[Driven[f]] \in Seq(Commands)
      BY <2>1, DrivenTyped, NewSeqTyped, InitialSendsTyped, BlockingAssumption
    <2>3. /\ out' \in Seq(Commands)
          /\ (pc' = "idle" /\ ret' = "Io") \/ (pc' = "loop" /\ ret' = "Pending")
      BY <2>1, <2>2, WriteTyped
    <2> QED BY <1>1, <2>1, <2>2, <2>3, BlockingAssumption
            DEF CallDriven, TypeOK, Deadline, Returns
  <1>2. CASE CallKeepalive
    <2>1. <<Cmd("StatusPoll", Polls[1])>> \in Seq(Commands)
      BY PollTyped
    <2>2. /\ out' \in Seq(Commands)
          /\ (pc' = "idle" /\ ret' = "Io") \/ (pc' = "loop" /\ ret' = "Pending")
      BY <1>2, <2>1, WriteTyped DEF CallKeepalive
    <2>3. Len(Polls) = 3 BY DEF Polls
    <2> QED BY <1>2, <2>2, <2>3, BlockingAssumption
            DEF CallKeepalive, TypeOK, Deadline, Returns, Exchanging, readVars
  <1>3. CASE CallRecvMsg
    <2>1. <<>> \in Seq(Commands) OBVIOUS
    <2> QED BY <1>3, <2>1, BlockingAssumption
            DEF CallRecvMsg, TypeOK, Deadline, GoOn, Exchanging, readVars
  <1> QED BY <1>1, <1>2, <1>3 DEF Calls

LEMMA LoopTyped ==
  ASSUME TypeOK, Loop
  PROVE  TypeOK'
  <1>0. <<>> \in Seq(Commands) OBVIOUS
  <1>1. CASE DeadlinePassed
    BY <1>0, <1>1 DEF DeadlinePassed, Return, TypeOK, Returns, clockVars, readVars
  <1>2. CASE LoopDriven
    <2>1. /\ seq' \in Sequencer \cup {NoSeq} /\ out' \in Seq(Commands)
          /\ (pc' = "idle" /\ ret' = "Io") \/ (pc' = "read" /\ ret' = "Pending")
      <3>1. CASE CalibrationDue
        <4>1. seq \in Sequencer
          BY <3>1, SeqTyped DEF CalibrationDue, TimerDue, NoSeq
        <4>2. /\ TimedOut(seq) \in Sequencer /\ TimeoutSends(seq) \in Seq(Commands)
          BY <3>1, <4>1, TimedOutTyped DEF CalibrationDue
        <4> QED BY <1>2, <3>1, <4>2, WriteTyped DEF LoopDriven
      <3>2. CASE ~CalibrationDue
        BY <1>0, <1>2, <3>2 DEF LoopDriven, GoOn, TypeOK
      <3> QED BY <3>1, <3>2
    <2> QED BY <1>2, <2>1, BlockingAssumption
            DEF LoopDriven, EnterRead, TypeOK, Returns, clockVars
  <1>3. CASE LoopExchange
    BY <1>0, <1>3 DEF LoopExchange, EnterRead, GoOn, TypeOK, clockVars
  <1> QED BY <1>1, <1>2, <1>3 DEF Loop

LEMMA ReadTyped ==
  ASSUME TypeOK, ReadPartial \/ ReadNothing \/ ReadFails \/ Tick
  PROVE  TypeOK'
  <1>0. <<>> \in Seq(Commands) OBVIOUS
  <1>1. CASE ReadPartial
    <2>1. late' \in Nat BY <1>1 DEF ReadPartial
    <2> QED BY <1>0, <1>1, <2>1 DEF ReadPartial, TypeOK
  <1>2. CASE ReadNothing
    BY <1>0, <1>2 DEF ReadNothing, Return, GoOn, TypeOK, Returns, clockVars, readVars
  <1>3. CASE ReadFails
    BY <1>0, <1>3 DEF ReadFails, Return, TypeOK, Returns, clockVars, readVars
  <1>4. CASE Tick
    <2>1. seq' \in Sequencer \cup {NoSeq}
      <3>1. CASE seq = NoSeq BY <1>4, <3>1 DEF Tick
      <3>2. CASE seq # NoSeq
        <4>1. seq \in Sequencer /\ seq' = [seq EXCEPT !.timer = Ticked(@)]
          BY <1>4, <3>2, SeqTyped DEF Tick
        <4>2. Ticked(seq.timer) \in Nat \cup {Unset}
          BY <4>1, TickedTyped DEF Sequencer
        <4> QED BY <4>1, <4>2 DEF Sequencer
      <3> QED BY <3>1, <3>2
    <2>2. left' \in Nat /\ late' \in Nat /\ readLeft' \in Nat /\ readLeft' <= readTimeout'
      BY <1>4 DEF Tick, TypeOK, Ticked
    <2> QED BY <1>0, <1>4, <2>1, <2>2 DEF Tick, TypeOK
  <1> QED BY <1>1, <1>2, <1>3, <1>4


\* Every driving call has a sequencer; of what it returns only Ok means that
\* the sequencer is complete, and only an idle call has returned.
Drives ==
  /\ call \in DOMAIN Driven => seq \in Sequencer
  /\ pc # "idle" => ret = "Pending"
  /\ ret = "Ok" /\ call \in DOMAIN Driven => IsComplete(seq)
  /\ Supplied(seq)

LEMMA CallDrives ==
  ASSUME TypeOK, Drives, Calls
  PROVE  Drives'
  <1>0. "keepalive" \notin DOMAIN Driven /\ "recv_msg" \notin DOMAIN Driven
    BY DEF Driven
  <1>1. CASE CallDriven
    <2>1. PICK f \in DOMAIN Driven, cfg \in SettingsChoices :
            /\ call' = f
            /\ seq' = NewSeq(Driven[f], cfg)
            /\ Write(InitialSends[Driven[f]], "loop")
      BY <1>1 DEF CallDriven
    <2>2. seq' \in Sequencer /\ Supplied(seq')
      BY <2>1, DrivenTyped, NewSeqTyped, NewSeqSupplied, BlockingAssumption
    <2>3. pc' \in {"idle", "loop"} /\ (pc' # "idle" => ret' = "Pending") /\ ret' # "Ok"
      BY <2>1 DEF Write, WriteFails, GoOn, Return
    <2> QED BY <2>2, <2>3 DEF Drives
  <1>2. CASE CallKeepalive \/ CallRecvMsg
    <2>1. seq' = NoSeq /\ call' \notin DOMAIN Driven
      BY <1>0, <1>2 DEF CallKeepalive, CallRecvMsg
    <2>2. pc' # "idle" => ret' = "Pending"
      BY <1>2 DEF CallKeepalive, CallRecvMsg, Write, WriteFails, GoOn, Return
    <2>3. Supplied(seq') BY <2>1 DEF NoSeq, Supplied, Needs
    <2> QED BY <2>1, <2>2, <2>3 DEF Drives
  <1> QED BY <1>1, <1>2 DEF Calls

\* A step that leaves the sequencer alone.
LEMMA SameSeqDrives ==
  ASSUME Drives, UNCHANGED <<call, seq>>,
         pc' # "idle" => ret' = "Pending",
         ret' = "Ok" => (ret = "Ok" \/ call \notin DOMAIN Driven)
  PROVE  Drives'
  BY DEF Drives

LEMMA LoopDrives ==
  ASSUME TypeOK, Drives, Loop
  PROVE  Drives'
  <1>1. CASE DeadlinePassed
    BY <1>1, SameSeqDrives DEF DeadlinePassed, Return
  <1>2. CASE LoopDriven
    <2>1. pc' \in {"idle", "read"} /\ (pc' # "idle" => ret' = "Pending") /\ ret' # "Ok"
      BY <1>2 DEF LoopDriven, Write, WriteFails, GoOn, Return
    <2>2. seq' \in Sequencer /\ Supplied(seq')
      <3>1. seq \in Sequencer /\ Supplied(seq) BY <1>2 DEF LoopDriven, Drives
      <3>2. CASE CalibrationDue
        BY <1>2, <3>1, <3>2, TimedOutTyped, TimedOutSupplied DEF LoopDriven, CalibrationDue
      <3>3. CASE ~CalibrationDue BY <1>2, <3>1, <3>3 DEF LoopDriven
      <3> QED BY <3>2, <3>3
    <2> QED BY <2>1, <2>2 DEF Drives
  <1>3. CASE LoopExchange
    BY <1>3, SameSeqDrives DEF LoopExchange, GoOn
  <1> QED BY <1>1, <1>2, <1>3 DEF Loop

LEMMA ReadDrives ==
  ASSUME TypeOK, Drives, ReadPartial \/ ReadNothing \/ ReadFails \/ Tick
  PROVE  Drives'
  <1>1. CASE ReadPartial BY <1>1, SameSeqDrives DEF ReadPartial, Drives
  <1>2. CASE ReadNothing BY <1>2, SameSeqDrives DEF ReadNothing, Return, GoOn
  <1>3. CASE ReadFails BY <1>3, SameSeqDrives DEF ReadFails, Return
  <1>4. CASE Tick
    <2>1. CASE seq = NoSeq
      BY <1>4, <2>1, SameSeqDrives DEF Tick, Drives
    <2>2. CASE seq # NoSeq
      <3>1. seq \in Sequencer /\ seq' = [seq EXCEPT !.timer = Ticked(@)]
        BY <1>4, <2>2, SeqTyped DEF Tick
      <3>2. /\ seq'.kind = seq.kind /\ seq'.step = seq.step /\ seq'.got = seq.got
            /\ seq' \in Sequencer
        <4>1. Ticked(seq.timer) \in Nat \cup {Unset}
          BY <3>1, TickedTyped DEF Sequencer
        <4> QED BY <3>1, <4>1 DEF Sequencer
      <3>3. Supplied(seq) => Supplied(seq') BY <3>2 DEF Supplied
      <3>4. ret' = "Pending" BY <1>4 DEF Tick, Drives
      <3> QED BY <1>4, <3>2, <3>3, <3>4 DEF Tick, Drives
    <2> QED BY <2>1, <2>2
  <1> QED BY <1>1, <1>2, <1>3, <1>4

\* Handling an envelope preserves the types.
LEMMA HandleTyped ==
  ASSUME TypeOK, Drives, NEW e \in Envelopes, Handle(e)
  PROVE  TypeOK' /\ Drives'
  <1>0. <<>> \in Seq(Commands) /\ Len(Polls) = 3
    BY DEF Polls
  <1>1. CASE FeedDriven(e)
    <2>1. /\ seq' = Fed(seq, e) /\ call' = call /\ call \in DOMAIN Driven
          /\ seq \in Sequencer
      BY <1>1 DEF FeedDriven, Received, Drives
    <2>2. /\ seq' \in Sequencer /\ Supplied(seq') /\ Replies(seq, e) \in Seq(Commands)
      BY <2>1, FedTyped, FedSupplied DEF Drives
    <2>3. CASE Write(Replies(seq, e), "loop") \/ WriteFails(Replies(seq, e))
      <3>1. /\ out' \in Seq(Commands)
            /\ (pc' = "idle" /\ ret' = "Io") \/ (pc' = "loop" /\ ret' = "Pending")
        BY <2>2, <2>3, WriteTyped
      <3>2. TypeOK'
        BY <1>0, <1>1, <2>1, <2>2, <3>1
           DEF FeedDriven, Received, TypeOK, Returns, clockVars, readVars
      <3> QED BY <2>1, <2>2, <3>1, <3>2 DEF Drives
    <2>4. CASE out' = Replies(seq, e) /\ Return("Ok") /\ IsComplete(seq')
      <3>1. TypeOK'
        BY <1>0, <1>1, <2>1, <2>2, <2>4
           DEF FeedDriven, Received, Return, TypeOK, Returns, clockVars, readVars
      <3> QED BY <2>1, <2>2, <2>4, <3>1 DEF Drives, Return
    <2> QED BY <1>1, <2>3, <2>4 DEF FeedDriven
  <1>2. CASE TakeMessage(e) \/ SkipAnswer(e) \/ WrongAnswer(e) \/ LastPoll(e)
    <2>1. /\ UNCHANGED <<call, seq, poll, clockVars, readVars>>
          /\ out' = <<>>
          /\ \/ pc' = "idle" /\ ret' \in {"Ok", "Protocol"}
             \/ pc' = "loop" /\ ret' = "Pending"
          /\ call \notin DOMAIN Driven
      BY <1>2 DEF TakeMessage, SkipAnswer, WrongAnswer, LastPoll, Received, Return, GoOn, Driven
    <2>2. TypeOK'
      BY <1>0, <2>1 DEF TypeOK, Returns, clockVars, readVars
    <2> QED BY <2>1, <2>2, SameSeqDrives
  <1>3. CASE NextPoll(e)
    <2>1. /\ UNCHANGED <<call, seq, readVars>>
          /\ call \notin DOMAIN Driven
          /\ poll' = poll + 1 /\ poll' \in 1..3
          /\ left' = ExchangeTimeout /\ late' = 0
          /\ Write(<<Cmd("StatusPoll", Polls[poll'])>>, "loop")
      BY <1>0, <1>3 DEF NextPoll, Received, Deadline, TypeOK, Driven
    <2>2. <<Cmd("StatusPoll", Polls[poll'])>> \in Seq(Commands)
      BY <2>1, PollTyped
    <2>3. /\ out' \in Seq(Commands)
          /\ (pc' = "idle" /\ ret' = "Io") \/ (pc' = "loop" /\ ret' = "Pending")
      BY <2>1, <2>2, WriteTyped
    <2>4. TypeOK'
      BY <1>0, <2>1, <2>3, BlockingAssumption DEF TypeOK, Returns, readVars
    <2> QED BY <2>1, <2>3, <2>4, SameSeqDrives
  <1> QED BY <1>1, <1>2, <1>3 DEF Handle

LEMMA DrivesHolds == Spec => [](TypeOK /\ Drives)
  <1>1. Init => TypeOK /\ Drives
    <2> SUFFICES ASSUME Init PROVE TypeOK /\ Drives
      OBVIOUS
    <2>1. out \in Seq(Commands) /\ seq.kind \notin DOMAIN Needs /\ call \notin DOMAIN Driven
      BY DEF Init, NoSeq, Needs, Driven
    <2>2. poll \in 0..Len(Polls)
      BY DEF Init, Polls
    <2>3. call \in Exchanging BY DEF Init, Exchanging
    <2>4. TypeOK
      BY <2>1, <2>2, <2>3, BlockingAssumption DEF Init, TypeOK, Returns
    <2> QED BY <2>1, <2>4 DEF Init, Drives, Supplied
  <1>2. (TypeOK /\ Drives) /\ [Next]_vars => (TypeOK /\ Drives)'
    <2> SUFFICES ASSUME TypeOK, Drives, [Next]_vars PROVE TypeOK' /\ Drives'
      OBVIOUS
    <2>1. CASE Calls BY <2>1, CallTyped, CallDrives
    <2>2. CASE Loop BY <2>2, LoopTyped, LoopDrives
    <2>3. CASE ReadPartial \/ ReadNothing \/ ReadFails \/ Tick
      BY <2>3, ReadTyped, ReadDrives
    <2>4. CASE \E e \in Envelopes : Handle(e) BY <2>4, HandleTyped
    <2>5. CASE UNCHANGED vars
      BY <2>5 DEF vars, clockVars, readVars, TypeOK, Drives
    <2> QED BY <2>1, <2>2, <2>3, <2>4, <2>5 DEF Next
  <1> QED BY <1>1, <1>2, PTL DEF Spec

\* Every variable keeps its type, and a read never waits longer than the
\* timeout it was given.
THEOREM TypeCorrect == Spec => []TypeOK
  BY DrivesHolds, PTL

\* A wrapper that returns Ok has every field into_result() unwraps, whatever
\* the peer answered and whichever calibration answers sync_avr() gave up.
THEOREM ResultsAreComplete == Spec => []ResultsComplete
  <1>1. TypeOK /\ Drives => ResultsComplete
    BY CompleteSupplied DEF Drives, ResultsComplete
  <1> QED BY <1>1, DrivesHolds, PTL

-----------------------------------------------------------------------------
(* Time.  A recv() is entered before the deadline, when nothing is late;   *)
(* from then on what is late and what the read may still wait are no more  *)
(* than its timeout, which a piece of a frame grants anew.                 *)

Timed ==
  /\ left > 0 => late = 0
  /\ late <= readTimeout
  /\ pc = "read" => late + readLeft <= readTimeout

\* A deadline is set where no read goes on.
LEMMA DeadlineTimed ==
  ASSUME pc' # "read", late' = 0, readTimeout' \in Nat
  PROVE  Timed'
  BY DEF Timed

\* The clock stands still and no read goes on.
LEMMA StillTimed ==
  ASSUME Timed, UNCHANGED <<clockVars, readTimeout>>, pc' # "read"
  PROVE  Timed'
  BY DEF Timed, clockVars

LEMMA CallTimed ==
  ASSUME TypeOK, Calls
  PROVE  Timed'
  <1>1. pc' # "read" /\ late' = 0
    BY DEF Calls, CallDriven, CallKeepalive, CallRecvMsg, Write, WriteFails, GoOn, Return,
           Deadline
  <1>2. readTimeout' \in Nat
    BY BlockingAssumption
       DEF Calls, CallDriven, CallKeepalive, CallRecvMsg, readVars, TypeOK
  <1> QED BY <1>1, <1>2, DeadlineTimed

\* A recv() is entered only before the deadline.
LEMMA LoopTimed ==
  ASSUME TypeOK, Timed, Loop
  PROVE  Timed'
  <1>1. CASE DeadlinePassed BY <1>1, StillTimed DEF DeadlinePassed, Return, readVars
  <1>2. CASE LoopDriven \/ LoopExchange
    <2>1. /\ UNCHANGED clockVars /\ left > 0
          /\ readLeft' = readTimeout' /\ readTimeout' \in Nat
      BY <1>2, BlockingAssumption DEF LoopDriven, LoopExchange, EnterRead, TypeOK
    <2>2. late' = 0 BY <2>1 DEF Timed, clockVars
    <2>3. \A n \in Nat : 0 <= n /\ 0 + n <= n OBVIOUS
    <2>4. late' <= readTimeout' /\ late' + readLeft' <= readTimeout'
      BY <2>1, <2>2, <2>3, Zenon
    <2> QED BY <2>2, <2>4 DEF Timed
  <1> QED BY <1>1, <1>2 DEF Loop

\* A piece of a frame starts the count again; each tick that makes the call
\* later shortens its read.
LEMMA ReadTimed ==
  ASSUME TypeOK, Timed, ReadPartial \/ ReadNothing \/ ReadFails \/ Tick
  PROVE  Timed'
  <1>1. CASE ReadPartial BY <1>1 DEF ReadPartial, Timed, TypeOK
  <1>2. CASE ReadNothing BY <1>2, StillTimed DEF ReadNothing, Return, GoOn, readVars
  <1>3. CASE ReadFails BY <1>3, StillTimed DEF ReadFails, Return, readVars
  <1>4. CASE Tick BY <1>4 DEF Tick, Timed, TypeOK, Ticked
  <1> QED BY <1>1, <1>2, <1>3, <1>4

LEMMA HandleTimed ==
  ASSUME TypeOK, Timed, NEW e \in Envelopes, Handle(e)
  PROVE  Timed'
  <1>1. pc' # "read" /\ UNCHANGED readVars
    BY DEF Handle, FeedDriven, TakeMessage, SkipAnswer, WrongAnswer, NextPoll, LastPoll,
           Received, Write, WriteFails, GoOn, Return
  <1>2. CASE NextPoll(e)
    BY <1>1, <1>2, DeadlineTimed DEF NextPoll, Deadline, readVars, TypeOK
  <1>3. CASE ~NextPoll(e)
    <2>1. UNCHANGED clockVars
      BY <1>3 DEF Handle, FeedDriven, TakeMessage, SkipAnswer, WrongAnswer, LastPoll
    <2> QED BY <1>1, <2>1, StillTimed DEF readVars
  <1> QED BY <1>2, <1>3

\* A call outlives its deadline only in a recv() that pieces of a frame keep
\* going, and by one read timeout after the last piece at most: the deadline
\* is looked at before each recv(), which then waits for one read at a time.
THEOREM OverrunIsBounded == Spec => []OverrunBounded
  <1>1. Init => Timed
    BY BlockingAssumption DEF Init, Timed
  <1>2. TypeOK /\ Timed /\ [Next]_vars => Timed'
    <2> SUFFICES ASSUME TypeOK, Timed, [Next]_vars PROVE Timed'
      OBVIOUS
    <2>1. CASE Calls BY <2>1, CallTimed
    <2>2. CASE Loop BY <2>2, LoopTimed
    <2>3. CASE ReadPartial \/ ReadNothing \/ ReadFails \/ Tick BY <2>3, ReadTimed
    <2>4. CASE \E e \in Envelopes : Handle(e) BY <2>4, HandleTimed
    <2>5. CASE UNCHANGED vars
      BY <2>5 DEF vars, clockVars, readVars, Timed
    <2> QED BY <2>1, <2>2, <2>3, <2>4, <2>5 DEF Next
  <1>3. Timed => OverrunBounded
    BY DEF Timed, OverrunBounded
  <1> QED BY <1>1, <1>2, <1>3, TypeCorrect, PTL DEF Spec

=============================================================================
