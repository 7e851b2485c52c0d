---------------------------- MODULE ClientProofs ----------------------------
(***************************************************************************)
(* Theorems about BinaryClient, about FrpDevice, the program built on it,  *)
(* and about Session, the client with a device, for every value of their   *)
(* constants: any timeouts, any queue bound, any number of calls and of    *)
(* shots, and but in Session any peer, with and without write errors.      *)
(***************************************************************************)
EXTENDS FrpDevice, Session, SequencersProofs, FunctionTheorems, SequenceLemmas

-----------------------------------------------------------------------------
(* Facts about the parts actions are built from.                           *)

\* The values actions assign outright.
LEMMA Assigned ==
  /\ <<>> \in Seq(Commands)
  /\ 0 \in 0..KeepaliveInterval
  /\ \A r \in Events \cup {"Timeout", "Io", "RecvError", "None", "Pending"} :
       r \in Events \cup Errors \cup {"None", "Pending"}
  /\ {"Handshake", "Disarmed", "Configured", "Armed", "Trigger", "ShotDatum",
      "ShotComplete", "Keepalive", "Message"} \subseteq Events
  BY ClientAssumption DEF Events, Errors

LEMMA ActiveTyped ==
  ASSUME TypeOK
  PROVE  /\ active # NoOp => active \in Sequencer /\ active.kind \in Kinds
         /\ active.kind = "None" <=> active = NoOp
         /\ "None" \notin Kinds
  BY DEF TypeOK, NoOp, Sequencer, Kinds, FirstStep

\* The commands written before a failed write are commands.
LEMMA PrefixTyped ==
  ASSUME NEW cmds \in Seq(Commands), WriteFails(cmds)
  PROVE  /\ out' \in Seq(Commands)
         /\ pc' = "ready" /\ ret' = "Io" /\ SendMayFail
  <1>1. PICK k \in 1..Len(cmds) : out' = SubSeq(cmds, 1, k - 1)
    BY DEF WriteFails
  <1>2. SubSeq(cmds, 1, k - 1) \in Seq(Commands)
    BY SubSeqProperties
  <1> QED BY <1>1, <1>2 DEF WriteFails, Return

\* What start_op begins has the kind of the operation, or is its disarm.
LEMMA KindForTyped ==
  ASSUME NEW op \in QueuedOps
  PROVE  /\ KindFor(op) \in {"Dsp", "AvrConfig", "Camera", "Arm", "Keepalive", "Disarm"}
         /\ KindFor(op) \in Kinds
         /\ KindFor(op) = "Disarm" => armed /\ op.op = "ConfigureAvr"
         /\ KindFor(op) = "AvrConfig" => ~armed
         /\ op.cfg \in Settings
  BY DEF KindFor, DisarmFirst, SequencerOf, QueuedOps, OpNames, Kinds, FirstStep

LEMMA HeadTyped ==
  ASSUME TypeOK, queue # <<>>
  PROVE  Head(queue) \in QueuedOps /\ Tail(queue) \in Seq(QueuedOps)
  BY DEF TypeOK

LEMMA TakeHeadTyped ==
  ASSUME TypeOK, TakeHead
  PROVE  /\ queue' \in Seq(QueuedOps)
         /\ opLeft' \in Nat
  BY HeadTyped, ClientAssumption DEF TakeHead, TimeoutFor, TypeOK

LEMMA StartHeadTyped ==
  ASSUME TypeOK, StartHead
  PROVE  /\ queue' \in Seq(QueuedOps)
         /\ opLeft' \in Nat
         /\ active' \in Sequencer
         /\ active'.kind = KindFor(Head(queue))
         /\ sync' = {}
         /\ out' \in Seq(Commands)
  BY TakeHeadTyped, HeadTyped, KindForTyped, NewSeqTyped, InitialSendsTyped DEF StartHead, TakeHead

LEMMA StartHeadFailsTyped ==
  ASSUME TypeOK, StartHeadFails
  PROVE  /\ queue' \in Seq(QueuedOps)
         /\ opLeft' \in Nat
         /\ active' = NoOp
         /\ sync' = {}
         /\ out' \in Seq(Commands)
         /\ pc' = "ready" /\ ret' = "Io" /\ SendMayFail
  <1>1. queue # <<>> BY DEF StartHeadFails, TakeHead
  <1>2. InitialSends[KindFor(Head(queue))] \in Seq(Commands)
    BY <1>1, HeadTyped, KindForTyped, InitialSendsTyped
  <1> QED BY <1>2, TakeHeadTyped, PrefixTyped DEF StartHeadFails

LEMMA OpTyped ==
  ASSUME NEW name \in OpNames
  PROVE  Op(name) \in QueuedOps
  BY DEF Op, QueuedOps, Settings, NoSettings

LEMMA AutoKeepaliveTyped ==
  ASSUME TypeOK, AutoKeepalive
  PROVE  queue' \in Seq(QueuedOps) /\ kaQueued' \in BOOLEAN
  <1>1. Op("Keepalive") \in QueuedOps BY OpTyped DEF OpNames
  <1>2. queue \in Seq(QueuedOps) /\ kaQueued \in BOOLEAN BY DEF TypeOK
  <1>3. Append(queue, Op("Keepalive")) \in Seq(QueuedOps)
    BY <1>1, <1>2
  <1>4. CASE KeepaliveDue BY <1>3, <1>4 DEF AutoKeepalive
  <1>5. CASE ~KeepaliveDue BY <1>2, <1>5 DEF AutoKeepalive
  <1> QED BY <1>4, <1>5

LEMMA EnvelopeTyped ==
  ASSUME NEW e \in Envelopes
  PROVE  e.src \in Buses /\ e.msg \in Messages
  BY ClientAssumption DEF AllEnvelopes

LEMMA ReceivedTyped ==
  ASSUME TypeOK, NEW e \in Envelopes, Received(e)
  PROVE  status' \in SUBSET Buses
  BY EnvelopeTyped DEF Received, TypeOK

-----------------------------------------------------------------------------
(* Every action preserves the types.                                       *)

LEMMA CallTyped ==
  ASSUME TypeOK, NEW op \in QueuedOps, Enqueue(op)
  PROVE  TypeOK'
  <1>1. queue' \in Seq(QueuedOps)
    BY DEF Enqueue, TypeOK
  <1>2. out' \in Seq(Commands)
    BY DEF Enqueue
  <1> QED
    BY <1>1, <1>2 DEF Enqueue, TypeOK, opVars, kaVars, cacheVars, shotVars

\* Nothing but where poll() is, what it returned and what it wrote changes.
LEMMA QuietStepTyped ==
  ASSUME TypeOK,
         UNCHANGED <<queue, opVars, kaVars, cacheVars, shotVars>>,
         pc' \in {"ready", "start", "timers", "recv"},
         ret' \in Events \cup Errors \cup {"None", "Pending"},
         out' \in Seq(Commands)
  PROVE  TypeOK'
  BY DEF TypeOK, opVars, kaVars, cacheVars, shotVars

\* A step of poll() before it receives preserves the types.
LEMMA BeforeRecvTyped ==
  ASSUME TypeOK,
         \/ DeadlineOpen \/ KeepaliveTimesOut \/ OperationTimesOut
         \/ StartNext \/ StartNextFails \/ NothingToStart
         \/ CheckTimers \/ CheckTimersFails
         \/ RecvNothing \/ RecvFails
  PROVE  TypeOK'
  <1>1. ASSUME \/ DeadlineOpen \/ OperationTimesOut \/ NothingToStart
               \/ RecvNothing \/ RecvFails
        PROVE  TypeOK'
    <2>1. /\ UNCHANGED <<queue, opVars, kaVars, cacheVars, shotVars>>
          /\ pc' \in {"ready", "start", "timers", "recv"}
          /\ ret' \in Events \cup Errors \cup {"None", "Pending"}
          /\ out' = <<>>
      BY <1>1, Assigned
         DEF DeadlineOpen, OperationTimesOut, NothingToStart, RecvNothing, RecvFails, Return, GoOn
    <2> QED BY <2>1, Assigned, QuietStepTyped
  <1>2. ASSUME KeepaliveTimesOut PROVE TypeOK'
    BY <1>2, Assigned
       DEF KeepaliveTimesOut, OpOver, KeepaliveOver, TypeOK, GoOn, cacheVars, shotVars
  <1>3. ASSUME StartNext PROVE TypeOK'
    BY <1>3, StartHeadTyped DEF StartNext, TypeOK, GoOn, kaVars, cacheVars, shotVars
  <1>4. ASSUME StartNextFails PROVE TypeOK'
    BY <1>4, StartHeadFailsTyped
       DEF StartNextFails, TypeOK, Errors, kaVars, cacheVars, shotVars
  <1>5. ASSUME CheckTimers PROVE TypeOK'
    <2>1. queue' \in Seq(QueuedOps) /\ kaQueued' \in BOOLEAN
      BY <1>5, AutoKeepaliveTyped DEF CheckTimers
    <2>2. active' \in Sequencer \cup {NoOp} /\ out' \in Seq(Commands)
      <3>1. CASE ActiveTimerDue
        BY <1>5, <3>1, ActiveTyped, TimedOutTyped DEF CheckTimers, ActiveTimerDue
      <3>2. CASE ~ActiveTimerDue
        BY <1>5, <3>2 DEF CheckTimers, TypeOK
      <3> QED BY <3>1, <3>2
    <2> QED BY <1>5, <2>1, <2>2 DEF CheckTimers, TypeOK, GoOn, cacheVars, shotVars
  <1>6. ASSUME CheckTimersFails PROVE TypeOK'
    <2>1. active' \in Sequencer /\ TimeoutSends(active) \in Seq(Commands)
      BY <1>6, ActiveTyped, TimedOutTyped DEF CheckTimersFails, ActiveTimerDue
    <2>2. out' \in Seq(Commands) /\ pc' = "ready" /\ ret' = "Io"
      BY <1>6, <2>1, PrefixTyped DEF CheckTimersFails
    <2> QED BY <1>6, <2>1, <2>2
            DEF CheckTimersFails, TypeOK, Errors, kaVars, cacheVars, shotVars
  <1> QED BY <1>1, <1>2, <1>3, <1>4, <1>5, <1>6

\* Handling an envelope preserves the types.
LEMMA HandleTyped ==
  ASSUME TypeOK, NEW e \in Envelopes, Handle(e)
  PROVE  TypeOK'
  <1>1. ASSUME Received(e), Feeds(e)
        PROVE  /\ status' \in SUBSET Buses
               /\ Fed(active, e) \in Sequencer
               /\ Replies(active, e) \in Seq(Commands)
    BY <1>1, ReceivedTyped, ActiveTyped, FedTyped DEF Feeds
  <1>2. ASSUME FeedActive(e) PROVE TypeOK'
    BY <1>1, <1>2 DEF FeedActive, TypeOK, Return, Events, kaVars, shotVars
  <1>3. ASSUME FeedFails(e) PROVE TypeOK'
    <2>1. out' \in Seq(Commands) /\ pc' = "ready" /\ ret' = "Io"
      BY <1>1, <1>3, PrefixTyped DEF FeedFails
    <2> QED BY <1>1, <1>3, <2>1 DEF FeedFails, TypeOK, Errors, kaVars, shotVars
  <1>4. ASSUME Received(e), Completes(e), active.kind \in DOMAIN NextKind
        PROVE  /\ status' \in SUBSET Buses
               /\ NewSeq(NextKind[active.kind], NoSettings) \in Sequencer
               /\ InitialSends[NextKind[active.kind]] \in Seq(Commands)
               /\ PhaseResult(e) \subseteq {"dsp", "avr", "state6"}
    <2>1. NextKind[active.kind] \in Kinds
      BY <1>4 DEF NextKind, Kinds, FirstStep
    <2>2. NoSettings \in Settings
      BY DEF NoSettings, Settings
    <2>3. PhaseResult(e) \subseteq {"dsp", "avr", "state6"}
      BY <1>4 DEF PhaseResult, Kept, NextKind
    <2> QED BY <1>4, <2>1, <2>2, <2>3, ReceivedTyped, NewSeqTyped, InitialSendsTyped
  <1>5. ASSUME NextPhase(e) PROVE TypeOK'
    BY <1>4, <1>5, ClientAssumption DEF NextPhase, TypeOK, Return, kaVars, shotVars
  <1>6. ASSUME NextPhaseFails(e) PROVE TypeOK'
    <2>1. out' \in Seq(Commands) /\ pc' = "ready" /\ ret' = "Io"
      BY <1>4, <1>6, PrefixTyped DEF NextPhaseFails
    <2> QED BY <1>4, <1>6, <2>1 DEF NextPhaseFails, TypeOK, Errors, kaVars, shotVars
  <1>7. ASSUME HandshakeDone(e) PROVE TypeOK'
    BY <1>7, ReceivedTyped DEF HandshakeDone, OpOver, TypeOK, Return, Events, kaVars
  <1>8. ASSUME FinishDisarm(e) \/ FinishConfigure(e) \/ FinishArm(e) \/ FinishShot(e)
        PROVE  TypeOK'
    BY <1>8, ReceivedTyped, Assigned
       DEF FinishDisarm, FinishConfigure, FinishArm, FinishShot, Finish, OpOver, TypeOK, Return,
           kaVars, shotVars
  <1>9. ASSUME FinishKeepalive(e) PROVE TypeOK'
    BY <1>9, ReceivedTyped, Assigned
       DEF FinishKeepalive, KeepaliveDone, OpOver, KeepaliveOver, TypeOK, Return, shotVars
  <1>10. ASSUME FinishKeepaliveAndStart(e) PROVE TypeOK'
    BY <1>10, ReceivedTyped, StartHeadTyped, Assigned
       DEF FinishKeepaliveAndStart, KeepaliveDone, KeepaliveOver, TypeOK, Return, shotVars
  <1>11. ASSUME FinishKeepaliveStartFails(e) PROVE TypeOK'
    BY <1>11, ReceivedTyped, StartHeadFailsTyped, Assigned
       DEF FinishKeepaliveStartFails, KeepaliveDone, KeepaliveOver, TypeOK, shotVars
  <1>12. ASSUME Trigger(e) \/ PassOn(e) PROVE TypeOK'
    BY <1>12, ReceivedTyped, Assigned
       DEF Trigger, PassOn, Unclaimed, TypeOK, Return, opVars, kaVars, shotVars
  <1>13. "Shot" \in Kinds /\ NoSettings \in Settings
    BY DEF Kinds, FirstStep, NoSettings, Settings
  <1>14. ASSUME Processed(e) PROVE TypeOK'
    BY <1>13, <1>14, ReceivedTyped, NewSeqTyped, InitialSendsTyped, ClientAssumption
       DEF Processed, Unclaimed, TypeOK, Return, shotVars
  <1>15. ASSUME ProcessedFails(e) PROVE TypeOK'
    <2>1. out' \in Seq(Commands) /\ pc' = "ready" /\ ret' = "Io"
      BY <1>13, <1>15, InitialSendsTyped, PrefixTyped DEF ProcessedFails
    <2> QED BY <1>15, <2>1, ReceivedTyped
            DEF ProcessedFails, Unclaimed, TypeOK, Errors, opVars, kaVars, shotVars
  <1> QED BY <1>2, <1>3, <1>5, <1>6, <1>7, <1>8, <1>9, <1>10, <1>11, <1>12, <1>14, <1>15
          DEF Handle

LEMMA TickTyped ==
  ASSUME TypeOK, Tick
  PROVE  TypeOK'
  <1>1. opLeft' \in Nat \cup {Unset}
    BY TickedTyped DEF Tick, TypeOK
  <1>2. active' \in Sequencer \cup {NoOp}
    <2>1. CASE active = NoOp BY <2>1 DEF Tick
    <2>2. CASE active # NoOp
      <3>1. active \in Sequencer /\ active' = [active EXCEPT !.timer = Ticked(@)]
        BY <2>2, ActiveTyped DEF Tick
      <3>2. Ticked(active.timer) \in Nat \cup {Unset}
        BY <3>1, TickedTyped DEF Sequencer
      <3> QED BY <3>1, <3>2 DEF Sequencer
    <2> QED BY <2>1, <2>2
  <1>3. sinceKa' \in 0..KeepaliveInterval
    BY ClientAssumption DEF Tick, TypeOK
  <1> QED BY <1>1, <1>2, <1>3 DEF Tick, TypeOK, cacheVars, shotVars

\* Every variable keeps the type the struct of client.rs gives it: in
\* particular every step a feed() goes to is a step of a step enum, and all
\* that is written are commands.
THEOREM TypeCorrect == Spec => []TypeOK
  <1>1. Init => TypeOK
    <2> SUFFICES ASSUME Init PROVE TypeOK
      OBVIOUS
    <2>1. queue \in Seq(QueuedOps)
      BY DEF Init, Fresh
    <2>2. out \in Seq(Commands) /\ ret \in Events \cup Errors \cup {"None", "Pending"}
      BY Assigned DEF Init, Fresh
    <2>3. sinceKa \in 0..KeepaliveInterval /\ opLeft \in Nat \cup {Unset}
      BY Assigned DEF Init, Fresh
    <2> QED BY <2>1, <2>2, <2>3 DEF Init, Fresh, TypeOK
  <1>2. TypeOK /\ [Next]_vars => TypeOK'
    <2> SUFFICES ASSUME TypeOK, [Next]_vars PROVE TypeOK'
      OBVIOUS
    <2>1. CASE Calls
      <3>1. \A cfg \in SettingsChoices : [op |-> "ConfigureAvr", cfg |-> cfg] \in QueuedOps
        BY ClientAssumption DEF QueuedOps, OpNames
      <3> QED BY <2>1, <3>1, CallTyped, OpTyped
              DEF Calls, CallHandshake, CallConfigureAvr, CallConfigureCam, CallArm, OpNames
    <2>2. CASE PollStep BY <2>2, BeforeRecvTyped, HandleTyped DEF PollStep, Progress
    <2>3. CASE Tick BY <2>3, TickTyped
    <2>4. CASE UNCHANGED vars
      BY <2>4 DEF vars, TypeOK, opVars, kaVars, cacheVars, shotVars
    <2> QED BY <2>1, <2>2, <2>3, <2>4 DEF Next
  <1> QED BY <1>1, <1>2, PTL DEF Spec

-----------------------------------------------------------------------------
(* The operation, its deadline and armed.  DeadlineIffActive,              *)
(* DisarmThenConfigure and ConfigureOnlyDisarmed are inductive together:   *)
(* what a step does to the active operation is one of five things.         *)

Safe ==
  /\ DeadlineIffActive
  /\ DeadlineWhenActive
  /\ DisarmThenConfigure
  /\ ConfigureOnlyDisarmed

\* The operation goes on.
LEMMA GoesOnSafe ==
  ASSUME TypeOK, Safe,
         active'.kind = active.kind,
         active' = NoOp <=> active = NoOp,
         opLeft' = Unset <=> opLeft = Unset,
         armed' = armed,
         queue # <<>> => queue' # <<>> /\ Head(queue') = Head(queue)
  PROVE  Safe'
  BY DEF Safe, DeadlineIffActive, DeadlineWhenActive, DisarmThenConfigure, ConfigureOnlyDisarmed

\* There is no operation any more, and no deadline.
LEMMA EndsSafe ==
  ASSUME active' = NoOp, opLeft' = Unset
  PROVE  Safe'
  BY DEF Safe, DeadlineIffActive, DeadlineWhenActive, DisarmThenConfigure,
         ConfigureOnlyDisarmed, NoOp

\* The operation is lost in a write error, whatever its deadline.
LEMMA IsLostSafe ==
  ASSUME active' = NoOp, SendMayFail
  PROVE  Safe'
  BY DEF Safe, DeadlineIffActive, DeadlineWhenActive, DisarmThenConfigure,
         ConfigureOnlyDisarmed, NoOp

\* The head of the queue starts, or the disarm in front of it.
LEMMA StartsSafe ==
  ASSUME TypeOK, StartHead, armed' = armed
  PROVE  Safe'
  <1>1. queue # <<>> /\ Head(queue) \in QueuedOps
    BY HeadTyped DEF StartHead, TakeHead
  <1>2. active' # NoOp /\ opLeft' # Unset
    <2>1. active'.kind # "None"
      BY <1>1, StartHeadTyped, KindForTyped, ActiveTyped
    <2> QED BY <2>1, StartHeadTyped DEF NoOp, Unset
  <1>3. active'.kind = "Disarm" => armed' /\ queue' = queue /\ Head(queue).op = "ConfigureAvr"
    <2>1. KindFor(Head(queue)) = "Disarm" => DisarmFirst(Head(queue))
      BY <1>1 DEF KindFor, SequencerOf, QueuedOps, OpNames
    <2> QED BY <2>1, StartHeadTyped DEF StartHead, TakeHead, DisarmFirst
  <1>4. active'.kind = "AvrConfig" => ~armed'
    BY <1>1, StartHeadTyped, KindForTyped
  <1> QED BY <1>1, <1>2, <1>3, <1>4
          DEF Safe, DeadlineIffActive, DeadlineWhenActive, DisarmThenConfigure,
              ConfigureOnlyDisarmed

\* A sequencer that is neither a disarm nor a configuration takes over.
LEMMA TakesOverSafe ==
  ASSUME NEW kind \in {"Avr", "Pi", "Shot"},
         active' = NewSeq(kind, NoSettings), opLeft' = OpTimeout
  PROVE  Safe'
  BY ClientAssumption
     DEF Safe, DeadlineIffActive, DeadlineWhenActive, DisarmThenConfigure,
         ConfigureOnlyDisarmed, NewSeq, NoOp, Unset

Inv == TypeOK /\ Safe

LEMMA BeforeRecvSafe ==
  ASSUME Inv,
         \/ DeadlineOpen \/ KeepaliveTimesOut \/ OperationTimesOut
         \/ StartNext \/ StartNextFails \/ NothingToStart
         \/ CheckTimers \/ CheckTimersFails
         \/ RecvNothing \/ RecvFails
  PROVE  Safe'
  <1>1. CASE \/ DeadlineOpen \/ OperationTimesOut \/ NothingToStart
             \/ RecvNothing \/ RecvFails
    BY <1>1, GoesOnSafe
       DEF Inv, DeadlineOpen, OperationTimesOut, NothingToStart, RecvNothing, RecvFails,
           opVars, shotVars
  <1>2. CASE KeepaliveTimesOut BY <1>2, EndsSafe DEF KeepaliveTimesOut, OpOver
  <1>3. CASE StartNext BY <1>3, StartsSafe DEF Inv, StartNext, shotVars
  <1>4. CASE StartNextFails
    BY <1>4, StartHeadFailsTyped, IsLostSafe DEF Inv, StartNextFails
  <1>5. CASE CheckTimers \/ CheckTimersFails
    <2>1. active'.kind = active.kind /\ (active' = NoOp <=> active = NoOp)
      <3>1. CASE ActiveTimerDue
        <4>1. active \in Sequencer /\ active.kind # "None"
          BY <3>1, ActiveTyped DEF Inv, ActiveTimerDue
        <4>2. active' = TimedOut(active) /\ TimedOut(active).kind = active.kind
          BY <1>5, <3>1, <4>1, TimedOutTyped DEF CheckTimers, CheckTimersFails, ActiveTimerDue
        <4> QED BY <3>1, <4>1, <4>2 DEF ActiveTimerDue, NoOp
      <3>2. CASE ~ActiveTimerDue
        BY <1>5, <3>2 DEF CheckTimers, CheckTimersFails
      <3> QED BY <3>1, <3>2
    <2>2. queue # <<>> => queue' # <<>> /\ Head(queue') = Head(queue)
      BY <1>5 DEF Inv, TypeOK, CheckTimers, CheckTimersFails, AutoKeepalive
    <2> QED BY <1>5, <2>1, <2>2, GoesOnSafe DEF Inv, CheckTimers, CheckTimersFails, shotVars
  <1> QED BY <1>1, <1>2, <1>3, <1>4, <1>5

LEMMA HandleSafe ==
  ASSUME Inv, NEW e \in Envelopes, Handle(e)
  PROVE  Safe'
  <1>1. CASE FeedActive(e) \/ FeedFails(e)
    <2>1. active # NoOp /\ active' = Fed(active, e)
      BY <1>1 DEF FeedActive, FeedFails, Feeds
    <2>2. active'.kind = active.kind /\ active' # NoOp
      BY <2>1, ActiveTyped, FedTyped DEF Inv, NoOp
    <2> QED BY <1>1, <2>1, <2>2, GoesOnSafe DEF Inv, FeedActive, FeedFails, shotVars
  <1>2. CASE NextPhase(e)
    <2>1. NextKind[active.kind] \in {"Avr", "Pi"}
      BY <1>2 DEF NextPhase, NextKind
    <2> QED BY <1>2, <2>1, TakesOverSafe DEF NextPhase
  <1>3. CASE NextPhaseFails(e)
    BY <1>3, IsLostSafe DEF NextPhaseFails, WriteFails
  <1>4. CASE HandshakeDone(e) BY <1>4, EndsSafe DEF HandshakeDone, OpOver
  <1>5. CASE FinishDisarm(e) \/ FinishConfigure(e) \/ FinishArm(e) \/ FinishShot(e)
    BY <1>5, EndsSafe DEF FinishDisarm, FinishConfigure, FinishArm, FinishShot, Finish, OpOver
  <1>6. CASE FinishKeepalive(e) BY <1>6, EndsSafe DEF FinishKeepalive, OpOver
  <1>7. CASE FinishKeepaliveAndStart(e)
    BY <1>7, StartsSafe DEF Inv, FinishKeepaliveAndStart, KeepaliveDone, shotVars
  <1>8. CASE FinishKeepaliveStartFails(e)
    BY <1>8, StartHeadFailsTyped, IsLostSafe DEF Inv, FinishKeepaliveStartFails
  <1>9. CASE Trigger(e)
    <2>1. active.kind \in {"None", "Keepalive"}
      <3>1. active = NoOp \/ active.kind = "Keepalive"
        BY <1>9 DEF Trigger, Unclaimed, Feeds, Dominated
      <3> QED BY <3>1 DEF NoOp
    <2> QED BY <1>9, <2>1
            DEF Inv, Trigger, opVars, Safe, DeadlineIffActive, DeadlineWhenActive,
                DisarmThenConfigure, ConfigureOnlyDisarmed
  <1>10. CASE Processed(e) BY <1>10, TakesOverSafe DEF Processed
  <1>11. CASE ProcessedFails(e) \/ PassOn(e)
    BY <1>11, GoesOnSafe DEF Inv, ProcessedFails, PassOn, opVars, shotVars
  <1> QED BY <1>1, <1>2, <1>3, <1>4, <1>5, <1>6, <1>7, <1>8, <1>9, <1>10, <1>11 DEF Handle

LEMMA TickSafe ==
  ASSUME Inv, Tick
  PROVE  Safe'
  <1>1. active'.kind = active.kind /\ (active' = NoOp <=> active = NoOp)
    <2>1. CASE active = NoOp BY <2>1 DEF Tick
    <2>2. CASE active # NoOp
      BY <2>2, ActiveTyped DEF Inv, Tick, NoOp, Sequencer
    <2> QED BY <2>1, <2>2
  <1>2. opLeft' = Unset <=> opLeft = Unset
    BY TickedTyped DEF Inv, TypeOK, Tick
  <1> QED BY <1>1, <1>2, GoesOnSafe DEF Inv, Tick, shotVars

LEMMA InvHolds == Spec => []Inv
  <1>1. Init => Safe
    BY DEF Init, Fresh, Safe, DeadlineIffActive, DeadlineWhenActive, DisarmThenConfigure,
           ConfigureOnlyDisarmed, NoOp
  <1>2. TypeOK /\ Safe /\ [Next]_vars => Safe'
    <2> SUFFICES ASSUME Inv, [Next]_vars PROVE Safe'
      BY DEF Inv
    <2>1. CASE Calls
      <3>1. PICK op : Enqueue(op)
        BY <2>1 DEF Calls, CallHandshake, CallConfigureAvr, CallConfigureCam, CallArm
      <3>2. queue # <<>> => queue' # <<>> /\ Head(queue') = Head(queue)
        BY <3>1 DEF Inv, TypeOK, Enqueue
      <3> QED BY <3>1, <3>2, GoesOnSafe DEF Inv, Enqueue, opVars, shotVars
    <2>2. CASE PollStep BY <2>2, BeforeRecvSafe, HandleSafe DEF PollStep, Progress
    <2>3. CASE Tick BY <2>3, TickSafe
    <2>4. CASE UNCHANGED vars
      BY <2>4, GoesOnSafe DEF Inv, vars, opVars, shotVars
    <2> QED BY <2>1, <2>2, <2>3, <2>4 DEF Next
  <1> QED BY <1>1, <1>2, TypeCorrect, PTL DEF Spec, Inv

\* Without write errors op_deadline is set exactly while an operation is
\* active, however often poll() and its helpers set and clear the two apart.
THEOREM DeadlineMatchesActive == Spec => []DeadlineIffActive
  BY InvHolds, PTL DEF Inv, Safe

\* With write errors too, an active operation always has a deadline.
THEOREM NoUnlimitedOperation == Spec => []DeadlineWhenActive
  BY InvHolds, PTL DEF Inv, Safe

\* A running disarm has its configuration right behind it, whatever the
\* caller and the keepalive timer put in the queue.
THEOREM DisarmBeforeConfigure == Spec => []DisarmThenConfigure
  BY InvHolds, PTL DEF Inv, Safe

\* AVR parameters are written only to a device the client believes disarmed,
\* whatever shots, handshakes and write errors come between.
THEOREM ConfigureWhileDisarmed == Spec => []ConfigureOnlyDisarmed
  BY InvHolds, PTL DEF Inv, Safe

\* Once the deadline of an operation has passed at the start of a poll, the
\* client stays there: every later poll fails with Timeout and writes nothing.
THEOREM TimeoutStays == Spec => TimeoutIsFinal
  <1>1. Inv /\ [Next]_vars =>
          [pc = "ready" /\ Expired /\ active.kind # "Keepalive" =>
             /\ active'.kind = active.kind /\ opLeft' = opLeft /\ pc' = "ready"
             /\ out' = <<>>]_vars
    <2> SUFFICES ASSUME Inv, Next,
                        pc = "ready", Expired, active.kind # "Keepalive"
                 PROVE  /\ active'.kind = active.kind /\ opLeft' = opLeft /\ pc' = "ready"
                        /\ out' = <<>>
      OBVIOUS
    <2>1. CASE Calls
      BY <2>1 DEF Calls, CallHandshake, CallConfigureAvr, CallConfigureCam, CallArm, Enqueue,
                  opVars
    <2>2. CASE PollStep
      <3>1. \A e \in Envelopes : ~Handle(e)
        BY DEF Handle, FeedActive, FeedFails, NextPhase, NextPhaseFails, HandshakeDone,
               FinishDisarm, FinishConfigure, FinishArm, FinishShot, Finish, KeepaliveDone,
               FinishKeepalive, FinishKeepaliveAndStart, FinishKeepaliveStartFails,
               Trigger, Processed, ProcessedFails, PassOn, Unclaimed, Received
      <3>2. OperationTimesOut
        BY <2>2, <3>1
           DEF PollStep, Progress, DeadlineOpen, KeepaliveTimesOut, StartNext, StartNextFails,
               NothingToStart, CheckTimers, CheckTimersFails, RecvNothing, RecvFails
      <3> QED BY <3>2 DEF OperationTimesOut, Return, opVars
    <2>3. CASE Tick
      <3>1. active'.kind = active.kind
        <4>1. CASE active = NoOp BY <2>3, <4>1 DEF Tick
        <4>2. CASE active # NoOp
          BY <2>3, <4>2, ActiveTyped DEF Inv, Tick, Sequencer
        <4> QED BY <4>1, <4>2
      <3>2. opLeft' = opLeft BY <2>3 DEF Tick, Ticked, Expired
      <3> QED BY <2>3, <3>1, <3>2 DEF Tick
    <2> QED BY <2>1, <2>2, <2>3 DEF Next
  <1> QED BY <1>1, InvHolds, PTL DEF Spec, TimeoutIsFinal

-----------------------------------------------------------------------------
(* keepalive_queued.  KeepaliveFlagHonest is inductive given the types: a  *)
(* step that takes the keepalive out of the queue makes it active, and one *)
(* that ends it resets the flag.                                           *)

\* What is waiting keeps waiting when an operation joins it.
LEMMA WaitingAppend ==
  ASSUME TypeOK, NEW op \in QueuedOps, queue' = Append(queue, op), NEW name
  PROVE  /\ Waiting(name) => Waiting(name)'
         /\ op.op = name => Waiting(name)'
  <1>1. /\ queue \in Seq(QueuedOps) /\ Len(queue) \in Nat
        /\ DOMAIN queue' = 1..(Len(queue) + 1)
        /\ DOMAIN queue = 1..Len(queue)
        /\ \A i \in 1..Len(queue) : queue'[i] = queue[i]
        /\ queue'[Len(queue) + 1] = op
    BY DEF TypeOK
  <1>2. ASSUME Waiting(name) PROVE Waiting(name)'
    <2>1. PICK i \in DOMAIN queue : queue[i].op = name
      BY <1>2 DEF Waiting, IsOp
    <2>2. i \in DOMAIN queue' /\ queue'[i].op = name BY <1>1, <2>1
    <2> QED BY <2>2 DEF Waiting, IsOp
  <1>3. ASSUME op.op = name PROVE Waiting(name)'
    <2>1. Len(queue) + 1 \in DOMAIN queue' /\ queue'[Len(queue) + 1].op = name
      BY <1>1, <1>3
    <2> QED BY <2>1 DEF Waiting, IsOp
  <1> QED BY <1>2, <1>3

\* A waiting keepalive that is not started by start_op still waits.
LEMMA WaitingStart ==
  ASSUME TypeOK, StartHead, Waiting("Keepalive")
  PROVE  Waiting("Keepalive")' \/ active'.kind = "Keepalive"
  <1>1. PICK i \in DOMAIN queue : queue[i].op = "Keepalive"
    BY DEF Waiting, IsOp
  <1>2. queue # <<>> /\ queue \in Seq(QueuedOps) /\ Head(queue) = queue[1]
    BY DEF StartHead, TakeHead, TypeOK
  <1>3. CASE i = 1
    <2>1. KindFor(Head(queue)) = "Keepalive"
      BY <1>1, <1>2, <1>3 DEF KindFor, DisarmFirst, SequencerOf
    <2> QED BY <2>1, StartHeadTyped
  <1>4. CASE i # 1
    <2>1. CASE DisarmFirst(Head(queue))
      <3>1. queue' = queue BY <2>1 DEF StartHead, TakeHead
      <3> QED BY <3>1, <1>1 DEF Waiting, IsOp
    <2>2. CASE ~DisarmFirst(Head(queue))
      <3>1. queue' = Tail(queue) BY <2>2 DEF StartHead, TakeHead
      <3>2. i - 1 \in DOMAIN queue' /\ queue'[i - 1] = queue[i]
        BY <1>1, <1>2, <1>4, <3>1
      <3> QED BY <1>1, <3>2 DEF Waiting, IsOp
    <2> QED BY <2>1, <2>2
  <1> QED BY <1>3, <1>4

\* keepalive_queued is never stale: without write errors it is set only while
\* a keepalive that will reset it is queued or active, also when a shot has
\* taken the place of one.
THEOREM FlagHonest == Spec => []KeepaliveFlagHonest
  <1>1. Init => KeepaliveFlagHonest
    BY DEF Init, Fresh, KeepaliveFlagHonest
  <1>2. TypeOK /\ KeepaliveFlagHonest /\ [Next]_vars => KeepaliveFlagHonest'
    <2> SUFFICES ASSUME TypeOK, KeepaliveFlagHonest, [Next]_vars, ~SendMayFail, kaQueued'
                 PROVE  Waiting("Keepalive")' \/ active'.kind = "Keepalive"
      BY DEF KeepaliveFlagHonest
    <2>1. kaQueued => Waiting("Keepalive") \/ active.kind = "Keepalive"
      BY DEF KeepaliveFlagHonest
    <2>2. ASSUME queue' = queue, kaQueued' = kaQueued, active'.kind = active.kind
          PROVE  Waiting("Keepalive")' \/ active'.kind = "Keepalive"
      BY <2>1, <2>2 DEF Waiting, IsOp
    <2>3. ASSUME queue' = queue, kaQueued' = kaQueued, active.kind # "Keepalive"
          PROVE  Waiting("Keepalive")' \/ active'.kind = "Keepalive"
      BY <2>1, <2>3 DEF Waiting, IsOp
    <2>4. CASE Calls
      <3>1. \A cfg \in SettingsChoices : [op |-> "ConfigureAvr", cfg |-> cfg] \in QueuedOps
        BY ClientAssumption DEF QueuedOps, OpNames
      <3>2. PICK op \in QueuedOps : Enqueue(op)
        BY <2>4, <3>1, OpTyped
           DEF Calls, CallHandshake, CallConfigureAvr, CallConfigureCam, CallArm, OpNames
      <3> QED BY <2>1, <3>2, WaitingAppend DEF Enqueue, opVars, kaVars
    <2>5. CASE \/ DeadlineOpen \/ KeepaliveTimesOut \/ OperationTimesOut \/ NothingToStart
               \/ StartNextFails \/ CheckTimersFails \/ RecvNothing \/ RecvFails
      BY <2>2, <2>5
         DEF DeadlineOpen, KeepaliveTimesOut, KeepaliveOver, OperationTimesOut, NothingToStart,
             StartNextFails, StartHeadFails, CheckTimersFails, WriteFails, RecvNothing,
             RecvFails, opVars, kaVars
    <2>6. CASE StartNext
      <3>1. active.kind # "Keepalive" BY <2>6 DEF StartNext, NoOp
      <3> QED BY <2>1, <2>6, <3>1, WaitingStart DEF StartNext, kaVars
    <2>7. CASE CheckTimers
      <3>1. active'.kind = active.kind
        BY <2>7, ActiveTyped, TimedOutTyped DEF CheckTimers, ActiveTimerDue
      <3>2. CASE KeepaliveDue
        <4>1. Op("Keepalive") \in QueuedOps /\ Op("Keepalive").op = "Keepalive"
          BY OpTyped DEF OpNames, Op
        <4> QED BY <2>7, <3>2, <4>1, WaitingAppend DEF CheckTimers, AutoKeepalive
      <3>3. CASE ~KeepaliveDue
        BY <2>2, <2>7, <3>1, <3>3 DEF CheckTimers, AutoKeepalive
      <3> QED BY <3>2, <3>3
    <2>8. ASSUME NEW e \in Envelopes, Handle(e)
          PROVE  Waiting("Keepalive")' \/ active'.kind = "Keepalive"
      <3>1. CASE FeedActive(e)
        BY <2>2, <3>1, ActiveTyped, FedTyped DEF FeedActive, Feeds, kaVars
      <3>2. CASE FeedFails(e) \/ NextPhaseFails(e) \/ FinishKeepaliveStartFails(e) \/ ProcessedFails(e)
        BY <3>2 DEF FeedFails, NextPhaseFails, FinishKeepaliveStartFails, StartHeadFails,
                    ProcessedFails, WriteFails
      <3>3. CASE NextPhase(e) \/ HandshakeDone(e)
        <4>1. active.kind # "Keepalive"
          BY <3>3 DEF NextPhase, HandshakeDone, NextKind
        <4> QED BY <2>3, <3>3, <4>1 DEF NextPhase, HandshakeDone, kaVars
      <3>4. CASE FinishDisarm(e) \/ FinishConfigure(e) \/ FinishArm(e) \/ FinishShot(e)
        <4>1. active.kind # "Keepalive"
          BY <3>4 DEF FinishDisarm, FinishConfigure, FinishArm, FinishShot, Finish
        <4> QED BY <2>3, <3>4, <4>1
                DEF FinishDisarm, FinishConfigure, FinishArm, FinishShot, Finish, kaVars
      <3>5. CASE FinishKeepalive(e) \/ FinishKeepaliveAndStart(e) \/ Processed(e)
        BY <3>5 DEF FinishKeepalive, FinishKeepaliveAndStart, KeepaliveDone, KeepaliveOver,
                    Processed
      <3>6. CASE Trigger(e) \/ PassOn(e)
        BY <2>2, <3>6 DEF Trigger, PassOn, opVars, kaVars
      <3> QED BY <2>8, <3>1, <3>2, <3>3, <3>4, <3>5, <3>6 DEF Handle
    <2>9. CASE Tick
      <3>1. active'.kind = active.kind
        <4>1. CASE active = NoOp BY <2>9, <4>1 DEF Tick
        <4>2. CASE active # NoOp
          BY <2>9, <4>2, ActiveTyped DEF Tick, Sequencer
        <4> QED BY <4>1, <4>2
      <3> QED BY <2>2, <2>9, <3>1 DEF Tick
    <2>10. CASE UNCHANGED vars BY <2>2, <2>10 DEF vars, opVars, kaVars
    <2> QED BY <2>4, <2>5, <2>6, <2>7, <2>8, <2>9, <2>10 DEF Next, PollStep, Progress
  <1> QED BY <1>1, <1>2, TypeCorrect, PTL DEF Spec

-----------------------------------------------------------------------------
(* into_result() and advance_phase.  The unwraps and expects find what     *)
(* they need, because the active sequencer has been supplied so far, and   *)
(* the handshake keeps the result of each phase that is over.              *)

Paid ==
  /\ active.kind = "Avr" => "dsp" \in sync
  /\ active.kind = "Pi" => {"dsp", "avr"} \subseteq sync
  /\ Supplied(active)

\* The operation goes on, the same sequencer or a later state of it.
LEMMA GoesOnPaid ==
  ASSUME Paid, active'.kind = active.kind, sync' = sync, Supplied(active')
  PROVE  Paid'
  BY DEF Paid

\* There is no operation any more.
LEMMA EndsPaid ==
  ASSUME active' = NoOp
  PROVE  Paid'
  BY DEF Paid, NoOp, Supplied, Needs

\* A sequencer starts that is not a later phase of the handshake.
LEMMA StartsPaid ==
  ASSUME NEW kind \in Kinds \ {"Avr", "Pi"}, NEW cfg \in Settings, active' = NewSeq(kind, cfg)
  PROVE  Paid'
  BY NewSeqSupplied, NewSeqTyped DEF Paid

LEMMA StartHeadPaid ==
  ASSUME TypeOK, StartHead
  PROVE  Paid'
  <1>1. queue # <<>> /\ Head(queue) \in QueuedOps
    BY HeadTyped DEF StartHead, TakeHead
  <1>2. KindFor(Head(queue)) \in Kinds \ {"Avr", "Pi"} /\ Head(queue).cfg \in Settings
    BY <1>1, KindForTyped
  <1> QED BY <1>2, StartsPaid DEF StartHead

LEMMA BeforeRecvPaid ==
  ASSUME TypeOK, Paid, Progress
  PROVE  Paid'
  <1>1. CASE \/ DeadlineOpen \/ OperationTimesOut \/ NothingToStart
             \/ RecvNothing \/ RecvFails
    BY <1>1, GoesOnPaid
       DEF DeadlineOpen, OperationTimesOut, NothingToStart, RecvNothing, RecvFails, opVars, Paid
  <1>2. CASE KeepaliveTimesOut BY <1>2, EndsPaid DEF KeepaliveTimesOut, OpOver
  <1>3. CASE StartNext BY <1>3, StartHeadPaid DEF StartNext
  <1>4. CASE StartNextFails BY <1>4, EndsPaid DEF StartNextFails, StartHeadFails
  <1>5. CASE CheckTimers \/ CheckTimersFails
    <2>1. CASE ActiveTimerDue
      <3>1. active \in Sequencer /\ TimerDue(active)
        BY <2>1, ActiveTyped DEF ActiveTimerDue
      <3>2. active' = TimedOut(active) /\ sync' = sync
        BY <1>5, <2>1 DEF CheckTimers, CheckTimersFails
      <3> QED BY <3>1, <3>2, TimedOutTyped, TimedOutSupplied, GoesOnPaid DEF Paid
    <2>2. CASE ~ActiveTimerDue
      BY <1>5, <2>2, GoesOnPaid DEF CheckTimers, CheckTimersFails, Paid
    <2> QED BY <2>1, <2>2
  <1> QED BY <1>1, <1>2, <1>3, <1>4, <1>5 DEF Progress

LEMMA HandlePaid ==
  ASSUME TypeOK, Paid, NEW e \in Envelopes, Handle(e)
  PROVE  Paid'
  <1>1. CASE FeedActive(e) \/ FeedFails(e)
    <2>1. active # NoOp /\ active' = Fed(active, e) /\ sync' = sync
      BY <1>1 DEF FeedActive, FeedFails, Feeds
    <2> QED BY <2>1, ActiveTyped, FedTyped, FedSupplied, GoesOnPaid DEF Paid
  <1>2. CASE NextPhase(e)
    <2>1. CASE active.kind = "Dsp"
      <3>1. active' = NewSeq("Avr", NoSettings) /\ "dsp" \in sync'
        BY <1>2, <2>1 DEF NextPhase, NextKind, PhaseResult, Kept
      <3>2. active'.kind = "Avr" /\ Supplied(active')
        BY <3>1, NewSeqSupplied DEF NewSeq, Kinds, FirstStep
      <3> QED BY <3>1, <3>2 DEF Paid
    <2>2. CASE active.kind = "Avr"
      <3>1. active' = NewSeq("Pi", NoSettings) /\ {"dsp", "avr"} \subseteq sync'
        BY <1>2, <2>2 DEF Paid, NextPhase, NextKind, PhaseResult, Kept
      <3>2. active'.kind = "Pi" /\ Supplied(active')
        BY <3>1, NewSeqSupplied DEF NewSeq, Kinds, FirstStep
      <3> QED BY <3>1, <3>2 DEF Paid
    <2> QED BY <1>2, <2>1, <2>2 DEF NextPhase, NextKind
  <1>3. CASE NextPhaseFails(e) BY <1>3, EndsPaid DEF NextPhaseFails
  <1>4. CASE HandshakeDone(e) BY <1>4, EndsPaid DEF HandshakeDone, OpOver
  <1>5. CASE FinishDisarm(e) \/ FinishConfigure(e) \/ FinishArm(e) \/ FinishShot(e)
    BY <1>5, EndsPaid DEF FinishDisarm, FinishConfigure, FinishArm, FinishShot, Finish, OpOver
  <1>6. CASE FinishKeepalive(e) BY <1>6, EndsPaid DEF FinishKeepalive, OpOver
  <1>7. CASE FinishKeepaliveAndStart(e) BY <1>7, StartHeadPaid DEF FinishKeepaliveAndStart
  <1>8. CASE FinishKeepaliveStartFails(e)
    BY <1>8, EndsPaid DEF FinishKeepaliveStartFails, StartHeadFails
  <1>9. CASE Processed(e)
    <2>1. "Shot" \in Kinds \ {"Avr", "Pi"} /\ NoSettings \in Settings
      BY DEF Kinds, FirstStep, NoSettings, Settings
    <2> QED BY <1>9, <2>1, StartsPaid DEF Processed
  <1>10. CASE Trigger(e) \/ ProcessedFails(e) \/ PassOn(e)
    BY <1>10, GoesOnPaid DEF Trigger, ProcessedFails, PassOn, opVars, Paid
  <1> QED BY <1>1, <1>2, <1>3, <1>4, <1>5, <1>6, <1>7, <1>8, <1>9, <1>10 DEF Handle

LEMMA TickPaid ==
  ASSUME TypeOK, Paid, Tick
  PROVE  Paid'
  <1>1. CASE active = NoOp BY <1>1, EndsPaid DEF Tick
  <1>2. CASE active # NoOp
    <2>1. active \in Sequencer /\ active' = [active EXCEPT !.timer = Ticked(@)] /\ sync' = sync
      BY <1>2, ActiveTyped DEF Tick
    <2>2. active'.kind = active.kind /\ active'.step = active.step /\ active'.got = active.got
      BY <2>1 DEF Sequencer
    <2>3. Supplied(active') BY <2>2 DEF Paid, Supplied
    <2> QED BY <2>1, <2>2, <2>3, GoesOnPaid
  <1> QED BY <1>1, <1>2

\* Whatever answers come, in whatever order, and whichever calibration answers
\* are given up: when a sequencer is complete, every field into_result()
\* unwraps is there, and so is every phase result advance_phase expects.
THEOREM NeverPanicking == Spec => []NoPanic
  <1>1. Init => Paid
    BY DEF Init, Fresh, Paid, NoOp, Supplied, Needs
  <1>2. TypeOK /\ Paid /\ [Next]_vars => Paid'
    <2> SUFFICES ASSUME TypeOK, Paid, [Next]_vars PROVE Paid'
      OBVIOUS
    <2>1. CASE Calls
      BY <2>1, GoesOnPaid
         DEF Calls, CallHandshake, CallConfigureAvr, CallConfigureCam, CallArm, Enqueue, opVars,
             Paid
    <2>2. CASE PollStep BY <2>2, BeforeRecvPaid, HandlePaid DEF PollStep
    <2>3. CASE Tick BY <2>3, TickPaid
    <2>4. CASE UNCHANGED vars BY <2>4, GoesOnPaid DEF vars, opVars, Paid
    <2> QED BY <2>1, <2>2, <2>3, <2>4 DEF Next
  <1>3. TypeOK /\ Paid => NoPanic
    <2> SUFFICES ASSUME TypeOK, Paid, active.kind \in DOMAIN Unwrapped,
                        NEW e \in Envelopes, IsComplete(Fed(active, e))
                 PROVE  Unwrapped[active.kind] \subseteq Fed(active, e).got
      BY DEF NoPanic, Paid
    <2>1. active \in Sequencer
      BY DEF TypeOK, NoOp, Unwrapped
    <2> QED BY <2>1, FedTyped, FedSupplied, CompleteSupplied DEF Paid
  <1> QED BY <1>1, <1>2, <1>3, TypeCorrect, PTL DEF Spec

-----------------------------------------------------------------------------
(* How many keepalives there are.  KeepaliveBound is not inductive: a shot *)
(* resets keepalive_queued when no operation is active, and there may be   *)
(* two keepalives in the queue then unless start_op has just emptied it.   *)

KeepalivesIn(q) == {i \in DOMAIN q : q[i].op = "Keepalive"}
HowMany(q) == Cardinality(KeepalivesIn(q))
Runs(seq) == IF seq.kind = "Keepalive" THEN 1 ELSE 0

LEMMA KeepalivesFinite ==
  ASSUME NEW q \in Seq(QueuedOps)
  PROVE  /\ IsFiniteSet(KeepalivesIn(q))
         /\ HowMany(q) \in Nat /\ HowMany(q) <= Len(q)
  <1>1. /\ DOMAIN q = 1..Len(q) /\ Len(q) \in Nat
        /\ KeepalivesIn(q) \in SUBSET (1..Len(q))
    BY DEF KeepalivesIn
  <1>2. IsFiniteSet(1..Len(q)) /\ Cardinality(1..Len(q)) = Len(q)
    <2>1. 1 \in Int /\ Len(q) \in Int BY <1>1
    <2>2. IsFiniteSet(1..Len(q)) /\ Cardinality(1..Len(q)) = IF 1 > Len(q) THEN 0 ELSE Len(q) - 1 + 1
      BY <2>1, FS_Interval
    <2> QED BY <1>1, <2>2
  <1> QED BY <1>1, <1>2, FS_Subset, FS_CardinalityType DEF HowMany

LEMMA WaitsAppend ==
  ASSUME NEW q \in Seq(QueuedOps), NEW op \in QueuedOps
  PROVE  HowMany(Append(q, op)) = HowMany(q) + (IF op.op = "Keepalive" THEN 1 ELSE 0)
  <1> DEFINE r == Append(q, op)
  <1>1. /\ DOMAIN q = 1..Len(q) /\ Len(q) \in Nat
        /\ DOMAIN r = 1..(Len(q) + 1)
        /\ \A i \in 1..Len(q) : r[i] = q[i]
        /\ r[Len(q) + 1] = op
    OBVIOUS
  <1> HIDE DEF r
  <1>2. Len(q) + 1 \notin KeepalivesIn(q)
    BY <1>1 DEF KeepalivesIn
  <1>3. CASE op.op = "Keepalive"
    <2>1. KeepalivesIn(r) = KeepalivesIn(q) \cup {Len(q) + 1}
      BY <1>1, <1>3 DEF KeepalivesIn
    <2> QED BY <1>2, <1>3, <2>1, KeepalivesFinite, FS_AddElement DEF HowMany, r
  <1>4. CASE op.op # "Keepalive"
    <2>1. KeepalivesIn(r) = KeepalivesIn(q)
      BY <1>1, <1>4 DEF KeepalivesIn
    <2> QED BY <1>4, <2>1, KeepalivesFinite DEF HowMany, r
  <1> QED BY <1>3, <1>4

\* Taking the head away takes one keepalive away if it is one.
LEMMA WaitsTail ==
  ASSUME NEW q \in Seq(QueuedOps), q # <<>>
  PROVE  HowMany(q) = HowMany(Tail(q)) + (IF Head(q).op = "Keepalive" THEN 1 ELSE 0)
  <1> DEFINE t == Tail(q)
             S == KeepalivesIn(t)
             T == KeepalivesIn(q) \ {1}
             shift == [i \in S |-> i + 1]
  <1>1. /\ DOMAIN q = 1..Len(q) /\ Len(q) \in Nat \ {0}
        /\ t \in Seq(QueuedOps) /\ DOMAIN t = 1..(Len(q) - 1)
        /\ \A i \in 1..(Len(q) - 1) : t[i] = q[i + 1]
        /\ Head(q) = q[1]
    OBVIOUS
  <1> HIDE DEF t
  <1>2. S \subseteq 1..(Len(q) - 1) /\ T \subseteq 2..Len(q)
    BY <1>1 DEF KeepalivesIn
  <1>3. \A i \in S : i + 1 \in T
    BY <1>1 DEF KeepalivesIn
  <1>4. \A j \in T : j - 1 \in S /\ (j - 1) + 1 = j
    BY <1>1 DEF KeepalivesIn
  <1>5. \A i, j \in S : i + 1 = j + 1 => i = j
    BY <1>1, <1>2
  <1> HIDE DEF S, T
  <1>6. shift \in Bijection(S, T)
    <2>1. shift \in [S -> T] BY <1>3
    <2>2. \A i, j \in S : shift[i] = shift[j] => i = j BY <1>5
    <2>3. \A j \in T : \E i \in S : shift[i] = j BY <1>4
    <2> HIDE DEF shift
    <2> QED BY <2>1, <2>2, <2>3, Fun_IsBij, Zenon
  <1>7. IsFiniteSet(S) /\ Cardinality(T) = HowMany(t) /\ IsFiniteSet(T)
    <2>1. ExistsBijection(S, T) BY <1>6 DEF ExistsBijection
    <2>2. IsFiniteSet(S) BY <1>1, KeepalivesFinite DEF S
    <2> QED BY <2>1, <2>2, FS_Bijection DEF HowMany, S
  <1>8. HowMany(t) \in Nat /\ HowMany(q) \in Nat /\ IsFiniteSet(KeepalivesIn(q))
    BY <1>1, KeepalivesFinite
  <1>9. /\ 1 \in KeepalivesIn(q) <=> Head(q).op = "Keepalive"
    BY <1>1 DEF KeepalivesIn
  <1>10. Cardinality(T) = IF 1 \in KeepalivesIn(q) THEN HowMany(q) - 1 ELSE HowMany(q)
    BY <1>8, FS_RemoveElement DEF T, HowMany
  <1> QED BY <1>7, <1>8, <1>9, <1>10 DEF t

LEMMA CountIs ==
  KeepaliveCount = HowMany(queue) + Runs(active)
  BY DEF KeepaliveCount, HowMany, KeepalivesIn, Runs, IsOp

Few ==
  /\ HowMany(queue) + Runs(active) <= IF kaQueued THEN 2 ELSE 1
  /\ active = NoOp /\ pc = "timers" => queue = <<>>
  /\ active = NoOp /\ pc = "recv" => HowMany(queue) <= 1

LEMMA RunsTyped ==
  ASSUME NEW seq
  PROVE  Runs(seq) \in {0, 1}
  BY DEF Runs

\* start_op moves a keepalive from the queue, or loses it in a write error.
LEMMA StartWaits ==
  ASSUME TypeOK, TakeHead
  PROVE  HowMany(queue') + (IF KindFor(Head(queue)) = "Keepalive" THEN 1 ELSE 0) = HowMany(queue)
  <1>1. queue # <<>> /\ queue \in Seq(QueuedOps) /\ Head(queue) \in QueuedOps
    BY HeadTyped DEF TakeHead, TypeOK
  <1>2. HowMany(queue) \in Nat BY <1>1, KeepalivesFinite
  <1>3. CASE DisarmFirst(Head(queue))
    <2>1. queue' = queue /\ KindFor(Head(queue)) = "Disarm"
      BY <1>3 DEF TakeHead, KindFor
    <2> QED BY <1>2, <2>1
  <1>4. CASE ~DisarmFirst(Head(queue))
    <2>1. queue' = Tail(queue) BY <1>4 DEF TakeHead
    <2>2. KindFor(Head(queue)) = "Keepalive" <=> Head(queue).op = "Keepalive"
      BY <1>1, <1>4 DEF KindFor, SequencerOf, QueuedOps, OpNames
    <2>3. HowMany(Tail(queue)) \in Nat
      BY <1>1, HeadTyped, KeepalivesFinite
    <2>4. HowMany(queue) = HowMany(Tail(queue)) + (IF Head(queue).op = "Keepalive" THEN 1 ELSE 0)
      BY <1>1, WaitsTail
    <2> QED BY <2>1, <2>2, <2>3, <2>4
  <1> QED BY <1>3, <1>4

\* Between two polls only the count matters.
LEMMA ReadyFew ==
  ASSUME pc' \in {"ready", "start"},
         HowMany(queue') + Runs(active') <= IF kaQueued' THEN 2 ELSE 1
  PROVE  Few'
  BY DEF Few

LEMMA SameFew ==
  ASSUME Few, queue' = queue, kaQueued' = kaQueued, active'.kind = active.kind,
         active' = NoOp <=> active = NoOp,
         pc' = pc \/ pc' \in {"ready", "start"}
  PROVE  Few'
  <1>1. Runs(active') = Runs(active) BY DEF Runs
  <1> QED BY <1>1 DEF Few

\* An operation that is no keepalive is over, or another one follows it.
LEMMA OtherFew ==
  ASSUME TypeOK, Few, queue' = queue, kaQueued' = kaQueued, active'.kind # "Keepalive",
         pc' = "ready"
  PROVE  Few'
  <1>1. Runs(active') = 0 BY DEF Runs
  <1>2. HowMany(queue) \in Nat /\ Runs(active) \in {0, 1}
    BY KeepalivesFinite, RunsTyped DEF TypeOK
  <1>3. HowMany(queue) + Runs(active) <= IF kaQueued THEN 2 ELSE 1
    BY DEF Few
  <1>4. HowMany(queue') + Runs(active') <= IF kaQueued' THEN 2 ELSE 1
    BY <1>1, <1>2, <1>3
  <1> QED BY <1>4, ReadyFew

\* A keepalive is over, and start_op runs or does not.
LEMMA KeepaliveOverFew ==
  ASSUME TypeOK, Few, active.kind = "Keepalive", kaQueued' = FALSE,
         pc' \in {"ready", "start"},
         HowMany(queue') + Runs(active') \in Nat,
         HowMany(queue') + Runs(active') <= HowMany(queue)
  PROVE  Few'
  <1>1. Runs(active) = 1 BY DEF Runs
  <1>2. HowMany(queue) \in Nat
    BY KeepalivesFinite DEF TypeOK
  <1>3. HowMany(queue) + Runs(active) <= 2 BY <1>1, <1>2 DEF Few
  <1>4. HowMany(queue) <= 1 BY <1>1, <1>2, <1>3
  <1>5. HowMany(queue') + Runs(active') <= 1 BY <1>2, <1>4
  <1> QED BY <1>5, ReadyFew

LEMMA NoneWaiting == HowMany(<<>>) = 0
  <1>1. KeepalivesIn(<<>>) = {} BY DEF KeepalivesIn
  <1> QED BY <1>1, FS_EmptySet DEF HowMany

LEMMA CheckTimersFew ==
  ASSUME TypeOK, Few, CheckTimers
  PROVE  Few'
  <1>1. active'.kind = active.kind /\ (active' = NoOp <=> active = NoOp)
    <2>1. CASE ActiveTimerDue
      <3>1. active \in Sequencer /\ TimedOut(active) \in Sequencer
            /\ TimedOut(active).kind = active.kind /\ active' = TimedOut(active)
        BY <2>1, ActiveTyped, TimedOutTyped DEF CheckTimers, ActiveTimerDue
      <3> QED BY <2>1, <3>1, ActiveTyped DEF ActiveTimerDue, NoOp, Sequencer
    <2>2. CASE ~ActiveTimerDue BY <2>2 DEF CheckTimers
    <2> QED BY <2>1, <2>2
  <1>2. Runs(active') = Runs(active) BY <1>1 DEF Runs
  <1>3. /\ queue \in Seq(QueuedOps) /\ HowMany(queue) \in Nat /\ Runs(active) \in {0, 1}
        /\ kaQueued \in BOOLEAN
    BY KeepalivesFinite, RunsTyped DEF TypeOK
  <1>4. active = NoOp => HowMany(queue) = 0
    BY NoneWaiting DEF Few, CheckTimers
  <1>5. HowMany(queue) + Runs(active) <= IF kaQueued THEN 2 ELSE 1
    BY DEF Few
  <1>6. /\ HowMany(queue') + Runs(active') <= IF kaQueued' THEN 2 ELSE 1
        /\ active' = NoOp => HowMany(queue') <= 1
    <2>1. CASE KeepaliveDue
      <3>1. Op("Keepalive") \in QueuedOps /\ Op("Keepalive").op = "Keepalive"
        BY OpTyped DEF OpNames, Op
      <3>2. /\ queue' = Append(queue, Op("Keepalive")) /\ kaQueued' = TRUE
            /\ kaQueued = FALSE
        BY <1>3, <2>1 DEF CheckTimers, AutoKeepalive, KeepaliveDue
      <3>3. HowMany(queue') = HowMany(queue) + 1
        BY <1>3, <3>1, <3>2, WaitsAppend
      <3> QED BY <1>1, <1>2, <1>3, <1>4, <1>5, <3>2, <3>3
    <2>2. CASE ~KeepaliveDue
      <3>1. queue' = queue /\ kaQueued' = kaQueued
        BY <2>2 DEF CheckTimers, AutoKeepalive
      <3> QED BY <1>1, <1>2, <1>3, <1>4, <1>5, <3>1
    <2> QED BY <2>1, <2>2
  <1>7. pc' = "recv" BY DEF CheckTimers, GoOn
  <1> QED BY <1>6, <1>7 DEF Few

LEMMA BeforeRecvFew ==
  ASSUME TypeOK, Few, Progress
  PROVE  Few'
  <1>1. CASE DeadlineOpen \/ OperationTimesOut \/ RecvNothing \/ RecvFails
    BY <1>1, SameFew
       DEF DeadlineOpen, OperationTimesOut, RecvNothing, RecvFails, Return, GoOn, opVars, kaVars
  <1>2. CASE NothingToStart
    <2>1. UNCHANGED <<queue, active, kaQueued>> /\ pc' = "timers" /\ (active # NoOp \/ queue = <<>>)
      BY <1>2 DEF NothingToStart, GoOn, opVars, kaVars
    <2> QED BY <2>1 DEF Few
  <1>3. CASE KeepaliveTimesOut
    <2>1. /\ queue' = queue /\ active' = NoOp /\ kaQueued' = FALSE /\ pc' = "start"
          /\ active.kind = "Keepalive"
      BY <1>3 DEF KeepaliveTimesOut, OpOver, KeepaliveOver, GoOn
    <2>2. Runs(active') = 0 BY <2>1 DEF Runs, NoOp
    <2>3. HowMany(queue) \in Nat BY KeepalivesFinite DEF TypeOK
    <2>4. HowMany(queue') + Runs(active') <= HowMany(queue) /\ HowMany(queue') + Runs(active') \in Nat
      BY <2>1, <2>2, <2>3
    <2> QED BY <2>1, <2>4, KeepaliveOverFew
  <1>4. CASE StartNext \/ StartNextFails
    <2>1. active = NoOp /\ kaQueued' = kaQueued /\ TakeHead
      BY <1>4 DEF StartNext, StartNextFails, StartHead, StartHeadFails, kaVars
    <2>2. Runs(active) = 0 BY <2>1 DEF Runs, NoOp
    <2>3. /\ HowMany(queue) \in Nat /\ HowMany(queue') \in Nat /\ Runs(active') \in {0, 1}
      BY <2>1, TakeHeadTyped, KeepalivesFinite, RunsTyped DEF TypeOK
    <2>4. Runs(active') <= IF KindFor(Head(queue)) = "Keepalive" THEN 1 ELSE 0
      <3>1. CASE StartNext
        BY <3>1, StartHeadTyped DEF StartNext, Runs
      <3>2. CASE StartNextFails
        BY <3>2 DEF StartNextFails, StartHeadFails, Runs, NoOp
      <3> QED BY <1>4, <3>1, <3>2
    <2>5. HowMany(queue') + Runs(active') <= HowMany(queue)
      BY <2>1, <2>3, <2>4, StartWaits
    <2>6. HowMany(queue') + Runs(active') <= IF kaQueued' THEN 2 ELSE 1
      BY <2>1, <2>2, <2>3, <2>5 DEF Few
    <2>7. pc' = "timers" => active' # NoOp
      <3>1. CASE StartNext
        <4>1. active' \in Sequencer BY <3>1, StartHeadTyped DEF StartNext
        <4> QED BY <4>1 DEF Sequencer, NoOp, Kinds, FirstStep
      <3>2. CASE StartNextFails
        BY <3>2 DEF StartNextFails, StartHeadFails, WriteFails, Return
      <3> QED BY <1>4, <3>1, <3>2
    <2>8. pc' \in {"ready", "timers"}
      BY <1>4 DEF StartNext, StartNextFails, StartHeadFails, WriteFails, GoOn, Return
    <2> QED BY <2>6, <2>7, <2>8 DEF Few
  <1>5. CASE CheckTimers BY <1>5, CheckTimersFew
  <1>6. CASE CheckTimersFails
    <2>1. active'.kind = active.kind /\ active # NoOp /\ active' # NoOp
      <3>1. active \in Sequencer /\ TimedOut(active).kind = active.kind /\ active' = TimedOut(active)
        BY <1>6, ActiveTyped, TimedOutTyped DEF CheckTimersFails, ActiveTimerDue
      <3> QED BY <3>1, <1>6, ActiveTyped DEF CheckTimersFails, ActiveTimerDue, NoOp
    <2> QED BY <1>6, <2>1, SameFew DEF CheckTimersFails, WriteFails, Return, kaVars
  <1> QED BY <1>1, <1>2, <1>3, <1>4, <1>5, <1>6 DEF Progress

LEMMA HandleFew ==
  ASSUME TypeOK, Few, NEW e \in Envelopes, Handle(e)
  PROVE  Few'
  <1>0. HowMany(queue) \in Nat BY KeepalivesFinite DEF TypeOK
  <1>1. CASE FeedActive(e) \/ FeedFails(e)
    <2>1. active # NoOp /\ active' = Fed(active, e)
      BY <1>1 DEF FeedActive, FeedFails, Feeds
    <2>2. active'.kind = active.kind /\ active' # NoOp
      BY <2>1, ActiveTyped, FedTyped DEF NoOp
    <2> QED BY <1>1, <2>1, <2>2, SameFew
            DEF FeedActive, FeedFails, WriteFails, Return, kaVars
  <1>2. CASE NextPhase(e)
    <2>1. active'.kind \in {"Avr", "Pi"}
      BY <1>2 DEF NextPhase, NextKind, NewSeq
    <2> QED BY <1>2, <2>1, OtherFew DEF NextPhase, Return, kaVars
  <1>3. CASE NextPhaseFails(e) \/ HandshakeDone(e)
    BY <1>3, OtherFew DEF NextPhaseFails, HandshakeDone, WriteFails, Return, OpOver, NoOp, kaVars
  <1>4. CASE FinishDisarm(e) \/ FinishConfigure(e) \/ FinishArm(e) \/ FinishShot(e)
    BY <1>4, OtherFew
       DEF FinishDisarm, FinishConfigure, FinishArm, FinishShot, Finish, Return, OpOver, NoOp,
           kaVars
  <1>5. CASE FinishKeepalive(e)
    <2>1. /\ queue' = queue /\ active' = NoOp /\ kaQueued' = FALSE /\ pc' = "ready"
          /\ active.kind = "Keepalive"
      BY <1>5 DEF FinishKeepalive, KeepaliveDone, OpOver, KeepaliveOver, Return
    <2>2. Runs(active') = 0 BY <2>1 DEF Runs, NoOp
    <2>3. HowMany(queue') + Runs(active') <= HowMany(queue) /\ HowMany(queue') + Runs(active') \in Nat
      BY <1>0, <2>1, <2>2
    <2> QED BY <2>1, <2>3, KeepaliveOverFew
  <1>6. CASE FinishKeepaliveAndStart(e) \/ FinishKeepaliveStartFails(e)
    <2>1. /\ TakeHead /\ kaQueued' = FALSE /\ pc' = "ready" /\ active.kind = "Keepalive"
      BY <1>6 DEF FinishKeepaliveAndStart, FinishKeepaliveStartFails, KeepaliveDone,
                  KeepaliveOver, StartHead, StartHeadFails, WriteFails, Return
    <2>2. HowMany(queue') \in Nat /\ Runs(active') \in {0, 1}
      BY <2>1, TakeHeadTyped, KeepalivesFinite, RunsTyped
    <2>3. Runs(active') <= IF KindFor(Head(queue)) = "Keepalive" THEN 1 ELSE 0
      <3>1. CASE FinishKeepaliveAndStart(e)
        BY <3>1, StartHeadTyped DEF FinishKeepaliveAndStart, Runs
      <3>2. CASE FinishKeepaliveStartFails(e)
        BY <3>2 DEF FinishKeepaliveStartFails, StartHeadFails, Runs, NoOp
      <3> QED BY <1>6, <3>1, <3>2
    <2>4. HowMany(queue') + Runs(active') <= HowMany(queue) /\ HowMany(queue') + Runs(active') \in Nat
      BY <1>0, <2>1, <2>2, <2>3, StartWaits
    <2> QED BY <2>1, <2>4, KeepaliveOverFew
  <1>7. CASE Processed(e)
    <2>1. /\ queue' = queue /\ kaQueued' = FALSE /\ pc' = "ready" /\ pc = "recv"
          /\ active = NoOp \/ active.kind = "Keepalive"
          /\ active'.kind = "Shot"
      BY <1>7 DEF Processed, Unclaimed, Received, Feeds, Dominated, Return, NewSeq
    <2>2. Runs(active') = 0 BY <2>1 DEF Runs
    <2>3. HowMany(queue) <= 1
      <3>1. CASE active = NoOp BY <2>1, <3>1 DEF Few
      <3>2. CASE active.kind = "Keepalive"
        <4>1. Runs(active) = 1 BY <3>2 DEF Runs
        <4>2. HowMany(queue) + Runs(active) <= 2 BY <1>0, <4>1 DEF Few
        <4> QED BY <1>0, <4>1, <4>2
      <3> QED BY <2>1, <3>1, <3>2
    <2>4. HowMany(queue') + Runs(active') <= 1 BY <1>0, <2>1, <2>2, <2>3
    <2> QED BY <2>1, <2>4, ReadyFew
  <1>8. CASE Trigger(e) \/ ProcessedFails(e) \/ PassOn(e)
    BY <1>8, SameFew DEF Trigger, ProcessedFails, PassOn, WriteFails, Return, opVars, kaVars
  <1> QED BY <1>1, <1>2, <1>3, <1>4, <1>5, <1>6, <1>7, <1>8 DEF Handle

\* There is one keepalive at most, and a second one only while the flag is
\* set: a shot that takes the place of a keepalive while another one waits
\* cannot make them pile up.
THEOREM KeepalivesAreFew == Spec => []KeepaliveBound
  <1>1. Init => Few
    <2> SUFFICES ASSUME Init PROVE Few
      OBVIOUS
    <2>1. HowMany(queue) = 0 /\ Runs(active) = 0
      BY NoneWaiting DEF Init, Fresh, Runs, NoOp
    <2> QED BY <2>1 DEF Init, Fresh, Few
  <1>2. TypeOK /\ Few /\ [Next]_vars => Few'
    <2> SUFFICES ASSUME TypeOK, Few, [Next]_vars PROVE Few'
      OBVIOUS
    <2>1. CASE Calls
      <3>1. \A cfg \in SettingsChoices : [op |-> "ConfigureAvr", cfg |-> cfg] \in QueuedOps
        BY ClientAssumption DEF QueuedOps, OpNames
      <3>2. PICK op \in QueuedOps : Enqueue(op) /\ op.op # "Keepalive"
        BY <2>1, <3>1, OpTyped
           DEF Calls, CallHandshake, CallConfigureAvr, CallConfigureCam, CallArm, OpNames, Op
      <3>3. /\ queue' = Append(queue, op) /\ pc' = "ready"
            /\ active' = active /\ kaQueued' = kaQueued
        BY <3>2 DEF Enqueue, opVars, kaVars
      <3>4. HowMany(queue) \in Nat /\ queue \in Seq(QueuedOps)
        BY KeepalivesFinite DEF TypeOK
      <3>5. HowMany(queue') = HowMany(queue)
        BY <3>2, <3>3, <3>4, WaitsAppend
      <3>6. HowMany(queue') + Runs(active') <= IF kaQueued' THEN 2 ELSE 1
        BY <3>3, <3>5 DEF Few
      <3> QED BY <3>3, <3>6, ReadyFew
    <2>2. CASE PollStep BY <2>2, BeforeRecvFew, HandleFew DEF PollStep
    <2>3. CASE Tick
      <3>1. active'.kind = active.kind /\ (active' = NoOp <=> active = NoOp)
        <4>1. CASE active = NoOp BY <2>3, <4>1 DEF Tick
        <4>2. CASE active # NoOp
          BY <2>3, <4>2, ActiveTyped DEF Tick, NoOp, Sequencer
        <4> QED BY <4>1, <4>2
      <3> QED BY <2>3, <3>1, SameFew DEF Tick
    <2>4. CASE UNCHANGED vars BY <2>4, SameFew DEF vars, opVars, kaVars
    <2> QED BY <2>1, <2>2, <2>3, <2>4 DEF Next
  <1>3. Few => KeepaliveBound
    BY CountIs DEF Few, KeepaliveBound
  <1> QED BY <1>1, <1>2, <1>3, TypeCorrect, PTL DEF Spec

-----------------------------------------------------------------------------
(* The shot sequence.  Its rows, and giving up IDLE, only lead onward, and *)
(* those that send Arm are those that lead to WaitingForArmAck.            *)

ArmAvr == Cmd("Arm", "Avr")
SendsArm(cmds) == ArmAvr \in {cmds[i] : i \in DOMAIN cmds}

LEMMA ShotRowsOnward ==
  ASSUME NEW t \in DOMAIN ShotScript, NEW r \in ShotScript[t]
  PROVE  /\ t \in DOMAIN ShotRank
         /\ r.to = "Done" => r.send = <<>>
         /\ r.to # "Done" => r.to \in DOMAIN ShotRank /\ ShotRank[t] <= ShotRank[r.to]
         /\ SendsArm(r.send) <=> r.to = "WaitingForArmAck"
         /\ r.to = "WaitingForArmAck" => t # "WaitingForArmAck"
  <1>1. CASE t = "Draining"
    <2>1. ~SendsArm(<<Cmd("ShotResultReq", "Avr")>>) /\ ~SendsArm(<<>>)
      BY DEF SendsArm, ArmAvr, Cmd
    <2> QED BY <1>1, <2>1 DEF ShotScript, ShotRank, Drain, Row
  <1>2. CASE t = "WaitingForClubResult"
    <2>1. SendsArm(<<Cmd("Arm", "Avr")>>)
      BY DEF SendsArm, ArmAvr, Cmd
    <2> QED BY <1>2, <2>1 DEF ShotScript, ShotRank, Row
  <1>3. CASE t \in {"WaitingForArmAck", "WaitingForArmed"}
    <2>1. ~SendsArm(<<>>) BY DEF SendsArm
    <2> QED BY <1>3, <2>1 DEF ShotScript, ShotRank, Row
  <1> QED BY <1>1, <1>2, <1>3 DEF ShotScript

OnWay(s) == s.kind = "Shot" => s.step \in DOMAIN ShotRank

LEMMA ShotFed ==
  ASSUME NEW s \in Sequencer, s.kind = "Shot", NEW e
  PROVE  \/ Fed(s, e) = s /\ Replies(s, e) = <<>>
         \/ \E r \in ShotScript[s.step] :
              /\ s.step \in DOMAIN ShotScript
              /\ Fed(s, e).step = r.to /\ Replies(s, e) = r.send
  <1>1. CASE Accepting(s, e) = {}
    BY <1>1 DEF Fed, Replies
  <1>2. CASE Accepting(s, e) # {}
    <2> DEFINE r == CHOOSE r \in Accepting(s, e) : TRUE
    <2>1. r \in Rows(s) BY <1>2 DEF Accepting
    <2>2. Fed(s, e) = Apply(s, r) /\ Replies(s, e) = r.send BY <1>2 DEF Fed, Replies
    <2> HIDE DEF r
    <2>3. Apply(s, r).step = r.to BY DEF Apply, Sequencer
    <2>4. s.step \in DOMAIN ShotScript /\ r \in ShotScript[s.step]
      BY <2>1 DEF Rows, Script
    <2> QED BY <2>2, <2>3, <2>4
  <1> QED BY <1>1, <1>2

\* What a failed write leaves out is the end of what was to be sent.
LEMMA FailedSends ==
  ASSUME NEW cmds \in Seq(Commands), WriteFails(cmds)
  PROVE  /\ cmds # <<>> /\ ret' = "Io"
         /\ SendsArm(out') => SendsArm(cmds)
  <1>1. PICK k \in 1..Len(cmds) : out' = SubSeq(cmds, 1, k - 1)
    BY DEF WriteFails
  <1>2. /\ DOMAIN out' = 1..(k - 1)
        /\ \A i \in 1..(k - 1) : out'[i] = cmds[i] /\ i \in DOMAIN cmds
    BY <1>1, SubSeqProperties
  <1>3. cmds # <<>> BY <1>1
  <1> QED BY <1>2, <1>3 DEF WriteFails, Return, SendsArm

\* What ArmsOncePerShot says of a step.
Onward ==
  active.kind = "Shot" /\ active'.kind = "Shot" =>
    LET enters == active.step # "WaitingForArmAck" /\ active'.step = "WaitingForArmAck"
    IN  /\ ShotRank[active.step] <= ShotRank[active'.step]
        /\ SendsArm(out') => enters
        /\ enters => SendsArm(out') \/ ret' = "Io"

\* A step that has nothing to do with the sequence of the shot.
LEMMA ElseOnward ==
  ASSUME OnWay(active),
         \/ active.kind # "Shot" \/ active'.kind # "Shot"
         \/ active'.step = active.step /\ out' = <<>>
  PROVE  Onward
  <1>1. ~SendsArm(<<>>) BY DEF SendsArm
  <1>2. \A t \in DOMAIN ShotRank : ShotRank[t] <= ShotRank[t] BY DEF ShotRank
  <1> QED BY <1>1, <1>2 DEF Onward, OnWay

LEMMA FeedOnward ==
  ASSUME TypeOK, OnWay(active), NEW e \in Envelopes, FeedActive(e) \/ FeedFails(e)
  PROVE  OnWay(active') /\ Onward
  <1>1. /\ active \in Sequencer /\ active' = Fed(active, e) /\ active'.kind = active.kind
        /\ Replies(active, e) \in Seq(Commands)
    BY ActiveTyped, FedTyped DEF FeedActive, FeedFails, Feeds
  <1>2. CASE active.kind # "Shot"
    BY <1>1, <1>2, ElseOnward DEF OnWay
  <1>3. CASE active.kind = "Shot" /\ Fed(active, e) = active /\ Replies(active, e) = <<>>
    <2>1. ~FeedFails(e)
      BY <1>1, <1>3, FailedSends DEF FeedFails
    <2>2. out' = <<>> BY <1>3, <2>1 DEF FeedActive
    <2> QED BY <1>1, <1>3, <2>2, ElseOnward DEF OnWay
  <1>4. CASE /\ active.kind = "Shot"
             /\ ~(Fed(active, e) = active /\ Replies(active, e) = <<>>)
    <2>1. PICK r \in ShotScript[active.step] :
            /\ active.step \in DOMAIN ShotScript
            /\ Fed(active, e).step = r.to /\ Replies(active, e) = r.send
      BY <1>1, <1>4, ShotFed
    <2>2. /\ active.step \in DOMAIN ShotRank
          /\ r.to = "Done" => r.send = <<>>
          /\ r.to # "Done" => r.to \in DOMAIN ShotRank /\ ShotRank[active.step] <= ShotRank[r.to]
          /\ SendsArm(r.send) <=> r.to = "WaitingForArmAck"
          /\ r.to = "WaitingForArmAck" => active.step # "WaitingForArmAck"
      BY <2>1, ShotRowsOnward
    <2>3. r.to # "Done"
      <3>1. CASE FeedActive(e)
        BY <3>1, <2>1 DEF FeedActive, Completes, IsComplete
      <3>2. CASE FeedFails(e)
        BY <3>2, <1>1, <2>1, <2>2, FailedSends DEF FeedFails
      <3> QED BY <3>1, <3>2
    <2>4. /\ SendsArm(out') => SendsArm(r.send)
          /\ SendsArm(r.send) => SendsArm(out') \/ ret' = "Io"
      <3>1. CASE FeedActive(e) BY <3>1, <2>1 DEF FeedActive
      <3>2. CASE FeedFails(e)
        BY <3>2, <1>1, <2>1, FailedSends DEF FeedFails
      <3> QED BY <3>1, <3>2
    <2> QED BY <1>1, <2>1, <2>2, <2>3, <2>4 DEF OnWay, Onward
  <1> QED BY <1>2, <1>3, <1>4

LEMMA TimersOnward ==
  ASSUME TypeOK, OnWay(active), CheckTimers \/ CheckTimersFails
  PROVE  OnWay(active') /\ Onward
  <1>1. CASE ~ActiveTimerDue
    <2>1. active' = active /\ out' = <<>>
      BY <1>1 DEF CheckTimers, CheckTimersFails
    <2> QED BY <2>1, ElseOnward DEF OnWay
  <1>2. CASE ActiveTimerDue
    <2>1. /\ active \in Sequencer /\ TimerDue(active) /\ active' = TimedOut(active)
          /\ active'.kind = active.kind /\ TimeoutSends(active) \in Seq(Commands)
      BY <1>2, ActiveTyped, TimedOutTyped DEF CheckTimers, CheckTimersFails, ActiveTimerDue
    <2>2. CASE active.kind # "Shot"
      BY <2>1, <2>2, ElseOnward DEF OnWay
    <2>3. CASE active.kind = "Shot"
      <3>1. active.step = "Draining" /\ active'.step = "WaitingForArmAck"
        BY <2>1, <2>3 DEF TimerDue, TimedOut, GiveUp, Sequencer
      <3>2. SendsArm(out') \/ ret' = "Io"
        <4>1. CASE CheckTimers
          <5>1. out' = <<Cmd("Arm", "Avr")>>
            BY <1>2, <3>1, <4>1 DEF CheckTimers, TimeoutSends, GiveUp
          <5> QED BY <5>1 DEF SendsArm, ArmAvr
        <4>2. CASE CheckTimersFails
          BY <4>2, <2>1, FailedSends DEF CheckTimersFails
        <4> QED BY <4>1, <4>2
      <3>3. /\ "WaitingForArmAck" \in DOMAIN ShotRank
            /\ ShotRank["Draining"] <= ShotRank["WaitingForArmAck"]
        BY DEF ShotRank
      <3> QED BY <3>1, <3>2, <3>3 DEF OnWay, Onward
    <2> QED BY <2>2, <2>3
  <1> QED BY <1>1, <1>2

LEMMA StepOnward ==
  ASSUME TypeOK, OnWay(active), Next
  PROVE  OnWay(active') /\ Onward
  <1>1. CASE Calls
    <2>1. active' = active /\ out' = <<>>
      BY <1>1 DEF Calls, CallHandshake, CallConfigureAvr, CallConfigureCam, CallArm, Enqueue,
                  opVars
    <2> QED BY <2>1, ElseOnward DEF OnWay
  <1>2. CASE \/ DeadlineOpen \/ OperationTimesOut \/ NothingToStart \/ RecvNothing \/ RecvFails
    <2>1. active' = active /\ out' = <<>>
      BY <1>2 DEF DeadlineOpen, OperationTimesOut, NothingToStart, RecvNothing, RecvFails, opVars
    <2> QED BY <2>1, ElseOnward DEF OnWay
  <1>3. CASE KeepaliveTimesOut \/ StartNext \/ StartNextFails
    <2>1. active'.kind # "Shot"
      <3>1. CASE KeepaliveTimesOut BY <3>1 DEF KeepaliveTimesOut, OpOver, NoOp
      <3>2. CASE StartNext
        <4>1. queue # <<>> /\ Head(queue) \in QueuedOps
          BY <3>2, HeadTyped DEF StartNext, StartHead, TakeHead
        <4> QED BY <3>2, <4>1, StartHeadTyped, KindForTyped DEF StartNext
      <3>3. CASE StartNextFails BY <3>3 DEF StartNextFails, StartHeadFails, NoOp
      <3> QED BY <1>3, <3>1, <3>2, <3>3
    <2> QED BY <2>1, ElseOnward DEF OnWay
  <1>4. CASE CheckTimers \/ CheckTimersFails BY <1>4, TimersOnward
  <1>5. ASSUME NEW e \in Envelopes, Handle(e)
        PROVE  OnWay(active') /\ Onward
    <2>1. CASE FeedActive(e) \/ FeedFails(e) BY <2>1, FeedOnward
    <2>2. CASE NextPhase(e)
      <3>1. active'.kind # "Shot" BY <2>2 DEF NextPhase, NextKind, NewSeq
      <3> QED BY <3>1, ElseOnward DEF OnWay
    <2>3. CASE \/ NextPhaseFails(e) \/ HandshakeDone(e) \/ FinishDisarm(e)
               \/ FinishConfigure(e) \/ FinishArm(e) \/ FinishShot(e) \/ FinishKeepalive(e)
               \/ FinishKeepaliveStartFails(e)
      <3>1. active' = NoOp
        BY <2>3 DEF NextPhaseFails, HandshakeDone, FinishDisarm, FinishConfigure, FinishArm,
                    FinishShot, Finish, FinishKeepalive, FinishKeepaliveStartFails,
                    StartHeadFails, OpOver
      <3> QED BY <3>1, ElseOnward DEF OnWay, NoOp
    <2>4. CASE FinishKeepaliveAndStart(e)
      <3>1. queue # <<>> /\ Head(queue) \in QueuedOps
        BY <2>4, HeadTyped DEF FinishKeepaliveAndStart, StartHead, TakeHead
      <3>2. active'.kind # "Shot"
        BY <2>4, <3>1, StartHeadTyped, KindForTyped DEF FinishKeepaliveAndStart
      <3> QED BY <3>2, ElseOnward DEF OnWay
    <2>5. CASE Processed(e)
      <3>1. active.kind # "Shot"
        BY <2>5 DEF Processed, Unclaimed, Feeds, Dominated, NoOp
      <3>2. active'.step = "Draining" BY <2>5 DEF Processed, NewSeq, FirstStep
      <3> QED BY <3>1, <3>2, ElseOnward DEF OnWay, ShotRank
    <2>6. CASE Trigger(e) \/ ProcessedFails(e) \/ PassOn(e)
      <3>1. active' = active /\ (active = NoOp \/ active.kind = "Keepalive")
        BY <2>6 DEF Trigger, ProcessedFails, PassOn, Unclaimed, Feeds, Dominated, opVars
      <3>2. active.kind # "Shot" BY <3>1 DEF NoOp
      <3> QED BY <3>1, <3>2, ElseOnward DEF OnWay
    <2> QED BY <1>5, <2>1, <2>2, <2>3, <2>4, <2>5, <2>6 DEF Handle
  <1>6. CASE Tick
    <2>1. out' = <<>> /\ active'.kind = active.kind /\ (active # NoOp => active'.step = active.step)
      <3>1. CASE active = NoOp BY <1>6, <3>1 DEF Tick
      <3>2. CASE active # NoOp BY <1>6, <3>2, ActiveTyped DEF Tick, Sequencer
      <3> QED BY <3>1, <3>2
    <2>2. active.kind = "Shot" => active # NoOp BY DEF NoOp
    <2> QED BY <2>1, <2>2, ElseOnward DEF OnWay
  <1> QED BY <1>1, <1>2, <1>3, <1>4, <1>5, <1>6 DEF Next, PollStep, Progress

\* One re-arm per shot: the shot sequence never goes back, and whichever way
\* it comes to WaitingForArmAck, by an answer or by giving up IDLE, it sends
\* Arm then and only then, unless that very write fails.
THEOREM ArmsOnce == Spec => ArmsOncePerShot
  <1>1. Init => OnWay(active)
    BY DEF Init, Fresh, OnWay, NoOp
  <1>2. TypeOK /\ OnWay(active) /\ [Next]_vars => OnWay(active)'
    <2> SUFFICES ASSUME TypeOK, OnWay(active), [Next]_vars PROVE OnWay(active')
      OBVIOUS
    <2>1. CASE Next BY <2>1, StepOnward
    <2>2. CASE UNCHANGED vars
      <3>1. active' = active BY <2>2 DEF vars, opVars
      <3> QED BY <3>1
    <2> QED BY <2>1, <2>2
  <1>3. TypeOK /\ OnWay(active) /\ [Next]_vars =>
          [active.kind = "Shot" /\ active'.kind = "Shot" =>
             LET arms == Cmd("Arm", "Avr") \in {out'[i] : i \in DOMAIN out'}
                 enters == active.step # "WaitingForArmAck" /\ active'.step = "WaitingForArmAck"
             IN  /\ ShotRank[active.step] <= ShotRank[active'.step]
                 /\ arms => enters
                 /\ enters => arms \/ ret' = "Io"]_vars
    BY StepOnward DEF Onward, SendsArm, ArmAvr
  <1> QED BY <1>1, <1>2, <1>3, TypeCorrect, PTL DEF Spec, ArmsOncePerShot

-----------------------------------------------------------------------------
(* The requests of a queue.                                                *)

\* What the recursion of RequestsUpTo computes, one operation after another.
LEMMA RequestsUpToIs ==
  ASSUME NEW q \in Seq(QueuedOps)
  PROVE  /\ RequestsUpTo(q) \in [0..Len(q) -> Seq(UserRequests)]
         /\ RequestsUpTo(q)[0] = <<>>
         /\ \A i \in 1..Len(q) :
              RequestsUpTo(q)[i] = IF q[i].op = "Keepalive" THEN RequestsUpTo(q)[i - 1]
                                   ELSE Append(RequestsUpTo(q)[i - 1], q[i].op)
  <1> DEFINE S == Seq(UserRequests)
             n == Len(q)
             step == [i \in 1..n |-> [w \in S |->
                        IF q[i].op = "Keepalive" THEN w ELSE Append(w, q[i].op)]]
             Body(f) == [i \in 0..n |-> IF i = 0 THEN <<>>
                                        ELSE IF q[i].op = "Keepalive" THEN f[i - 1]
                                        ELSE Append(f[i - 1], q[i].op)]
  <1>1. n \in Nat /\ \A i \in 1..n : q[i].op # "Keepalive" => q[i].op \in UserRequests
    <2>1. \A i \in 1..n : q[i] \in QueuedOps OBVIOUS
    <2> QED BY <2>1 DEF QueuedOps, UserRequests
  <1>2. step \in [1..n -> [S -> S]] /\ <<>> \in S
    <2>1. ASSUME NEW i \in 1..n, NEW w \in S
          PROVE  (IF q[i].op = "Keepalive" THEN w ELSE Append(w, q[i].op)) \in S
      BY <1>1
    <2> QED BY <2>1
  <1>3. PICK f \in [0..n -> S] : f[0] = <<>> /\ \A i \in 1..n : f[i] = step[i][f[i - 1]]
    <2> DEFINE a == <<>>
    <2>1. n \in Nat /\ a \in S /\ step \in [1..n -> [S -> S]] BY <1>1, <1>2
    <2> HIDE DEF S, step, n, a, Body
    <2>2. \E f \in [0..n -> S] : f[0] = a /\ \A i \in 1..n : f[i] = step[i][f[i - 1]]
      BY <2>1, RecursionOnNat, SMTT(60)
    <2> QED BY <2>2 DEF a
  <1>4. f = Body(f)
    <2>1. ASSUME NEW i \in 0..n PROVE f[i] = Body(f)[i]
      <3>1. CASE i = 0 BY <1>3, <3>1
      <3>2. CASE i # 0
        <4>1. i \in 1..n /\ i - 1 \in 0..n /\ f[i - 1] \in S BY <1>1, <1>3, <3>2
        <4>2. f[i] = step[i][f[i - 1]] BY <1>3, <4>1
        <4> QED BY <4>1, <4>2, <3>2
      <3> QED BY <3>1, <3>2
    <2>2. f = [i \in 0..n |-> f[i]] BY <1>3
    <2> QED BY <2>1, <2>2
  <1>5. RequestsUpTo(q) = CHOOSE g : g = Body(g)
    BY DEF RequestsUpTo
  <1>6. RequestsUpTo(q) = Body(RequestsUpTo(q))
    <2> HIDE DEF Body
    <2> QED BY <1>4, <1>5
  <1> DEFINE u == RequestsUpTo(q)
  <1>7. /\ u[0] = <<>>
        /\ \A i \in 1..n : u[i] = IF q[i].op = "Keepalive" THEN u[i - 1]
                                  ELSE Append(u[i - 1], q[i].op)
    <2> HIDE DEF u
    <2>1. u = Body(u) BY <1>6 DEF u
    <2>2. \A i \in 0..n : u[i] = Body(u)[i] BY <2>1
    <2> QED BY <1>1, <2>2
  <1>8. \A i \in 0..n : u[i] \in S
    <2> DEFINE T == {i \in Nat : i <= n => u[i] \in S}
    <2> HIDE DEF u
    <2>1. 0 \in T BY <1>2, <1>7
    <2>2. ASSUME NEW i \in Nat, i \in T PROVE i + 1 \in T
      <3>1. SUFFICES ASSUME i + 1 <= n PROVE u[i + 1] \in S
        OBVIOUS
      <3>2. i + 1 \in 1..n /\ (i + 1) - 1 = i /\ u[i] \in S
        <4>1. n \in Nat BY <1>1
        <4>2. i <= n => u[i] \in S BY <2>2
        <4> HIDE DEF n, S, T, Body, step
        <4> QED BY <4>1, <4>2, <3>1
      <3>3. u[i + 1] = IF q[i + 1].op = "Keepalive" THEN u[i] ELSE Append(u[i], q[i + 1].op)
        BY <1>7, <3>2
      <3> QED BY <1>1, <3>2, <3>3
    <2>3. Nat \subseteq T
      <3> HIDE DEF T
      <3> QED BY <2>1, <2>2, InductionOnNat
    <2> QED BY <2>3, <1>1
  <1>9. u \in [0..n -> S]
    <2>1. u = Body(u) BY <1>6
    <2>2. DOMAIN Body(u) = 0..n /\ Body(u) = [i \in 0..n |-> Body(u)[i]] OBVIOUS
    <2> HIDE DEF u, Body, S, n
    <2>3. u = [i \in 0..n |-> u[i]] BY <2>1, <2>2
    <2> QED BY <2>3, <1>8
  <1> QED BY <1>7, <1>9

LEMMA AppendToConcat ==
  ASSUME NEW S, NEW s \in Seq(S), NEW t \in Seq(S), NEW e \in S
  PROVE  Append(s \o t, e) = s \o Append(t, e)
  OBVIOUS

\* The requests in a queue: none in an empty one, ...
LEMMA NoRequests == RequestsUpTo(<<>>)[Len(<<>>)] = <<>>
  <1>1. <<>> \in Seq(QueuedOps) /\ Len(<<>>) = 0 OBVIOUS
  <1> QED BY <1>1, RequestsUpToIs

\* ... one more when the caller adds one, ...
LEMMA RequestsAppend ==
  ASSUME NEW q \in Seq(QueuedOps), NEW op \in QueuedOps
  PROVE  LET a == Append(q, op)
         IN  RequestsUpTo(a)[Len(a)] =
               IF op.op = "Keepalive" THEN RequestsUpTo(q)[Len(q)]
               ELSE Append(RequestsUpTo(q)[Len(q)], op.op)
  <1> DEFINE a == Append(q, op)
             u == RequestsUpTo(q)
             v == RequestsUpTo(a)
             n == Len(q)
  <1>1. /\ a \in Seq(QueuedOps) /\ n \in Nat /\ Len(a) = n + 1 /\ a[n + 1] = op
        /\ \A i \in 1..n : a[i] = q[i]
    OBVIOUS
  <1>2. u[0] = <<>> /\ v[0] = <<>>
    BY <1>1, RequestsUpToIs
  <1>3. \A i \in 1..n : u[i] = IF q[i].op = "Keepalive" THEN u[i - 1]
                               ELSE Append(u[i - 1], q[i].op)
    BY RequestsUpToIs
  <1>4. \A i \in 1..(n + 1) : v[i] = IF a[i].op = "Keepalive" THEN v[i - 1]
                                     ELSE Append(v[i - 1], a[i].op)
    BY <1>1, RequestsUpToIs
  <1> HIDE DEF a, u, v, n
  <1>5. v[n] = u[n]
    <2> DEFINE T == {i \in Nat : i <= n => v[i] = u[i]}
    <2>1. 0 \in T BY <1>2
    <2>2. ASSUME NEW i \in Nat, i \in T PROVE i + 1 \in T
      <3>1. SUFFICES ASSUME i + 1 <= n PROVE v[i + 1] = u[i + 1]
        OBVIOUS
      <3>2. i + 1 \in 1..n /\ i + 1 \in 1..(n + 1) /\ (i + 1) - 1 = i /\ v[i] = u[i]
        BY <1>1, <2>2, <3>1
      <3> QED BY <1>1, <1>3, <1>4, <3>2
    <2>3. Nat \subseteq T
      <3> HIDE DEF T
      <3> QED BY <2>1, <2>2, InductionOnNat
    <2> QED BY <1>1, <2>3
  <1>6. n + 1 \in 1..(n + 1) /\ (n + 1) - 1 = n
    BY <1>1
  <1> QED BY <1>1, <1>4, <1>5, <1>6 DEF a, u, v, n

\* ... and when the head is taken out, all but the first, if the head is one.
LEMMA RequestsTail ==
  ASSUME NEW q \in Seq(QueuedOps), q # <<>>
  PROVE  /\ RequestsUpTo(q)[Len(q)] \in Seq(UserRequests)
         /\ RequestsUpTo(Tail(q))[Len(Tail(q))] \in Seq(UserRequests)
         /\ RequestsUpTo(q)[Len(q)] =
              IF Head(q).op = "Keepalive" THEN RequestsUpTo(Tail(q))[Len(Tail(q))]
              ELSE <<Head(q).op>> \o RequestsUpTo(Tail(q))[Len(Tail(q))]
  <1> DEFINE t == Tail(q)
             u == RequestsUpTo(q)
             v == RequestsUpTo(t)
             n == Len(t)
             S == Seq(UserRequests)
             Joined(w) == IF Head(q).op = "Keepalive" THEN w ELSE <<Head(q).op>> \o w
  <1>1. /\ t \in Seq(QueuedOps) /\ n \in Nat /\ Len(q) = n + 1 /\ q[1] = Head(q)
        /\ \A i \in 1..n : t[i] = q[i + 1]
        /\ Head(q) \in QueuedOps
    OBVIOUS
  <1>2. u[0] = <<>> /\ v[0] = <<>>
    BY <1>1, RequestsUpToIs
  <1>3. \A i \in 1..(n + 1) : u[i] = IF q[i].op = "Keepalive" THEN u[i - 1]
                                     ELSE Append(u[i - 1], q[i].op)
    BY <1>1, RequestsUpToIs
  <1>4. \A i \in 1..n : v[i] = IF t[i].op = "Keepalive" THEN v[i - 1]
                               ELSE Append(v[i - 1], t[i].op)
    BY <1>1, RequestsUpToIs
  <1>5. u \in [0..(n + 1) -> S] /\ v \in [0..n -> S]
    BY <1>1, RequestsUpToIs
  <1>6. \A i \in 1..n : q[i + 1].op # "Keepalive" => q[i + 1].op \in UserRequests
    <2>1. \A i \in 1..n : t[i] \in QueuedOps BY <1>1
    <2>2. \A i \in 1..n : q[i + 1] \in QueuedOps BY <1>1, <2>1
    <2> QED BY <2>2 DEF QueuedOps, UserRequests
  <1>7. Head(q).op # "Keepalive" => <<Head(q).op>> \in S
    BY <1>1 DEF QueuedOps, UserRequests
  <1> HIDE DEF t, u, v, n, S
  <1>8. u[n + 1] = Joined(v[n])
    <2> DEFINE T == {i \in Nat : i <= n => u[i + 1] = Joined(v[i])}
    <2>1. 0 \in T
      <3>1. 1 \in 1..(n + 1) /\ 1 - 1 = 0 /\ 0 + 1 = 1 BY <1>1
      <3>2. u[1] = IF q[1].op = "Keepalive" THEN u[0] ELSE Append(u[0], q[1].op)
        BY <1>3, <3>1
      <3>3. Append(<<>>, q[1].op) = <<q[1].op>> /\ <<Head(q).op>> \o <<>> = <<Head(q).op>>
        OBVIOUS
      <3> QED BY <1>1, <1>2, <3>1, <3>2, <3>3
    <2>2. ASSUME NEW i \in Nat, i \in T PROVE i + 1 \in T
      <3>1. SUFFICES ASSUME i + 1 <= n PROVE u[(i + 1) + 1] = Joined(v[i + 1])
        OBVIOUS
      <3>2. /\ i + 1 \in 1..n /\ (i + 1) + 1 \in 1..(n + 1) /\ (i + 1) - 1 = i
            /\ ((i + 1) + 1) - 1 = i + 1 /\ u[i + 1] = Joined(v[i]) /\ i \in 0..n
        BY <1>1, <2>2, <3>1
      <3> DEFINE o == q[(i + 1) + 1].op
      <3>3. u[(i + 1) + 1] = IF o = "Keepalive" THEN u[i + 1] ELSE Append(u[i + 1], o)
        BY <1>3, <3>2
      <3>4. v[i + 1] = IF o = "Keepalive" THEN v[i] ELSE Append(v[i], o)
        BY <1>1, <1>4, <3>2
      <3>5. o # "Keepalive" => o \in UserRequests
        BY <1>6, <3>2
      <3>6. v[i] \in S /\ v[i] \in Seq(UserRequests)
        BY <1>5, <3>2 DEF S
      <3> HIDE DEF o
      <3>7. CASE o = "Keepalive" BY <3>2, <3>3, <3>4, <3>7
      <3>8. CASE o # "Keepalive"
        <4>1. Head(q).op # "Keepalive" =>
                Append(<<Head(q).op>> \o v[i], o) = <<Head(q).op>> \o Append(v[i], o)
          BY <1>7, <3>5, <3>6, <3>8, AppendToConcat DEF S
        <4> QED BY <3>2, <3>3, <3>4, <3>8, <4>1
      <3> QED BY <3>7, <3>8
    <2>3. Nat \subseteq T
      <3> HIDE DEF T
      <3> QED BY <2>1, <2>2, InductionOnNat
    <2>4. n \in T
      <3> HIDE DEF T
      <3> QED BY <1>1, <2>3
    <2>5. n <= n BY <1>1
    <2> HIDE DEF Joined
    <2> QED BY <2>4, <2>5
  <1>9. u[n + 1] \in S /\ v[n] \in S
    BY <1>1, <1>5
  <1> QED BY <1>1, <1>8, <1>9 DEF t, u, v, n, S
-----------------------------------------------------------------------------
(* BinaryClient implements OperationQueue.  What a step does to the        *)
(* requests that wait and to the one that runs is one of six things.       *)

Served == [Operations!Next]_(Operations!vars)

LEMMA RunningIs ==
  /\ active.kind = "None" \/ active.kind = "Keepalive" => Running = "Idle"
  /\ active = NoOp => Running = "Idle"
  /\ active.kind \in {"Dsp", "Avr", "Pi"} => Running = "Handshake"
  /\ active.kind = "AvrConfig" => Running = "ConfigureAvr"
  /\ active.kind = "Camera" => Running = "ConfigureCam"
  /\ active.kind \in {"Arm", "Disarm", "Shot"} => Running = active.kind
  /\ active \in Sequencer /\ Running = "Idle" => active.kind = "Keepalive"
  BY DEF Running, NoOp, HandshakeKinds, Sequencer, Kinds, FirstStep

\* Nothing the caller can tell.
LEMMA UnseenServed ==
  ASSUME WaitingRequests' = WaitingRequests, Running' = Running
  PROVE  Served
  BY DEF Served, Operations!vars

LEMMA SameServed ==
  ASSUME queue' = queue, active'.kind = active.kind
  PROVE  Served
  <1>1. WaitingRequests' = WaitingRequests BY DEF WaitingRequests
  <1>2. Running' = Running BY DEF Running
  <1> QED BY <1>1, <1>2, UnseenServed

\* An operation is over.
LEMMA EndServed ==
  ASSUME queue' = queue, active' = NoOp
  PROVE  Served
  <1>1. WaitingRequests' = WaitingRequests BY DEF WaitingRequests
  <1>2. Running' = "Idle"
    <2>1. active'.kind = "None" BY DEF NoOp
    <2> QED BY <2>1 DEF Running, HandshakeKinds
  <1>3. CASE Running = "Idle" BY <1>1, <1>2, <1>3, UnseenServed
  <1>4. CASE Running # "Idle"
    BY <1>1, <1>2, <1>4 DEF Served, Operations!Next, Operations!Finish
  <1> QED BY <1>3, <1>4

\* The requests of the queue, with and without its head.
LEMMA HeadRequest ==
  ASSUME TypeOK, TakeHead
  PROVE  /\ queue # <<>> /\ Head(queue) \in QueuedOps
         /\ DisarmFirst(Head(queue)) =>
              /\ WaitingRequests' = WaitingRequests
              /\ WaitingRequests # <<>> /\ Head(WaitingRequests) = "ConfigureAvr"
         /\ Head(queue).op = "Keepalive" => WaitingRequests' = WaitingRequests
         /\ ~DisarmFirst(Head(queue)) /\ Head(queue).op # "Keepalive" =>
              /\ WaitingRequests # <<>>
              /\ Head(WaitingRequests) = Head(queue).op
              /\ Tail(WaitingRequests) = WaitingRequests'
  <1> DEFINE op == Head(queue).op
             w == RequestsUpTo(queue)[Len(queue)]
             v == RequestsUpTo(Tail(queue))[Len(Tail(queue))]
  <1>1. queue # <<>> /\ queue \in Seq(QueuedOps) /\ Head(queue) \in QueuedOps
    BY HeadTyped DEF TakeHead, TypeOK
  <1>2. /\ w \in Seq(UserRequests) /\ v \in Seq(UserRequests)
        /\ w = IF op = "Keepalive" THEN v ELSE <<op>> \o v
    BY <1>1, RequestsTail
  <1>3. op # "Keepalive" => op \in UserRequests
    BY <1>1 DEF QueuedOps, UserRequests
  <1>4. WaitingRequests = w
    BY DEF WaitingRequests
  <1>5. WaitingRequests' = IF DisarmFirst(Head(queue)) THEN w ELSE v
    BY DEF WaitingRequests, TakeHead
  <1>6. DisarmFirst(Head(queue)) => op = "ConfigureAvr"
    BY DEF DisarmFirst
  <1> HIDE DEF op, w, v
  <1>7. op # "Keepalive" => w # <<>> /\ Head(w) = op /\ Tail(w) = v
    BY <1>2, <1>3
  <1> QED BY <1>1, <1>2, <1>4, <1>5, <1>6, <1>7 DEF op

\* The head of the queue, or the disarm in front of it, takes the idle place.
LEMMA StartServed ==
  ASSUME TypeOK, StartHead, Running = "Idle"
  PROVE  Served
  <1>1. TakeHead /\ queue # <<>> /\ Head(queue) \in QueuedOps
    BY HeadRequest DEF StartHead
  <1>2. active'.kind = KindFor(Head(queue))
    BY StartHeadTyped
  <1>3. CASE DisarmFirst(Head(queue))
    <2>1. active'.kind = "Disarm" BY <1>2, <1>3 DEF KindFor
    <2>2. Running' = "Disarm" BY <2>1 DEF Running, HandshakeKinds
    <2> QED BY <1>1, <1>3, <2>2, HeadRequest DEF Served, Operations!Next, Operations!BeginDisarm
  <1>4. CASE Head(queue).op = "Keepalive"
    <2>1. active'.kind = "Keepalive"
      BY <1>2, <1>4 DEF KindFor, DisarmFirst, SequencerOf
    <2>2. Running' = "Idle" BY <2>1 DEF Running, HandshakeKinds
    <2> QED BY <1>1, <1>4, <2>2, HeadRequest, UnseenServed
  <1>5. CASE ~DisarmFirst(Head(queue)) /\ Head(queue).op # "Keepalive"
    <2>1. active'.kind = SequencerOf[Head(queue).op]
      BY <1>2, <1>5 DEF KindFor
    <2>2. Head(queue).op \in {"Handshake", "ConfigureAvr", "ConfigureCam", "Arm"}
      BY <1>1, <1>5 DEF QueuedOps, OpNames
    <2>3. Running' = Head(queue).op
      BY <2>1, <2>2 DEF Running, SequencerOf, HandshakeKinds
    <2> QED BY <1>1, <1>5, <2>3, HeadRequest DEF Served, Operations!Next, Operations!Begin
  <1> QED BY <1>3, <1>4, <1>5

\* It is lost when its first command cannot be written.
LEMMA StartFailsServed ==
  ASSUME TypeOK, StartHeadFails, Running = "Idle"
  PROVE  Served
  <1>1. TakeHead /\ active' = NoOp /\ SendMayFail
    BY DEF StartHeadFails, WriteFails
  <1>2. Running' = "Idle"
    <2>1. active'.kind = "None" BY <1>1 DEF NoOp
    <2> QED BY <2>1 DEF Running, HandshakeKinds
  <1>3. CASE DisarmFirst(Head(queue)) \/ Head(queue).op = "Keepalive"
    BY <1>1, <1>2, <1>3, HeadRequest, UnseenServed
  <1>4. CASE ~DisarmFirst(Head(queue)) /\ Head(queue).op # "Keepalive"
    BY <1>1, <1>2, <1>4, HeadRequest DEF Served, Operations!Next, Operations!Lose
  <1> QED BY <1>3, <1>4

LEMMA CallServed ==
  ASSUME TypeOK, Calls
  PROVE  Served
  <1>1. \A cfg \in SettingsChoices : [op |-> "ConfigureAvr", cfg |-> cfg] \in QueuedOps
    BY ClientAssumption DEF QueuedOps, OpNames
  <1>2. PICK op \in QueuedOps : Enqueue(op) /\ op.op # "Keepalive"
    BY <1>1, OpTyped
       DEF Calls, CallHandshake, CallConfigureAvr, CallConfigureCam, CallArm, OpNames, Op
  <1>3. queue \in Seq(QueuedOps) /\ queue' = Append(queue, op) /\ active' = active
    BY <1>2 DEF Enqueue, TypeOK, opVars
  <1>4. WaitingRequests' = Append(WaitingRequests, op.op)
    BY <1>2, <1>3, RequestsAppend DEF WaitingRequests
  <1>5. Running' = Running /\ op.op \in UserRequests
    BY <1>2, <1>3 DEF Running, QueuedOps, UserRequests
  <1> QED BY <1>4, <1>5 DEF Served, Operations!Next, Operations!Request

\* The automatic keepalive is not a request.
LEMMA TimersServed ==
  ASSUME TypeOK, CheckTimers \/ CheckTimersFails
  PROVE  Served
  <1>1. active'.kind = active.kind
    <2>1. CASE ActiveTimerDue
      BY <2>1, ActiveTyped, TimedOutTyped DEF CheckTimers, CheckTimersFails, ActiveTimerDue
    <2>2. CASE ~ActiveTimerDue
      BY <2>2 DEF CheckTimers, CheckTimersFails
    <2> QED BY <2>1, <2>2
  <1>2. CASE queue' = queue BY <1>1, <1>2, SameServed
  <1>3. CASE queue' = Append(queue, Op("Keepalive"))
    <2>1. queue \in Seq(QueuedOps) /\ Op("Keepalive") \in QueuedOps
      BY OpTyped DEF TypeOK, OpNames
    <2>2. WaitingRequests' = WaitingRequests
      BY <1>3, <2>1, RequestsAppend DEF WaitingRequests, Op
    <2>3. Running' = Running BY <1>1 DEF Running
    <2> QED BY <2>2, <2>3, UnseenServed
  <1> QED BY <1>2, <1>3 DEF CheckTimers, CheckTimersFails, AutoKeepalive

LEMMA HandleServed ==
  ASSUME TypeOK, NEW e \in Envelopes, Handle(e)
  PROVE  Served
  <1>1. CASE FeedActive(e) \/ FeedFails(e)
    BY <1>1, ActiveTyped, FedTyped, SameServed DEF FeedActive, FeedFails, Feeds
  <1>2. CASE NextPhase(e)
    <2>1. /\ active.kind \in {"Dsp", "Avr"} /\ active'.kind \in {"Avr", "Pi"}
          /\ queue' = queue
      BY <1>2 DEF NextPhase, NextKind, NewSeq
    <2>2. Running = "Handshake" /\ Running' = "Handshake"
      BY <2>1 DEF Running, HandshakeKinds
    <2> QED BY <2>1, <2>2, UnseenServed DEF WaitingRequests
  <1>3. CASE \/ NextPhaseFails(e) \/ HandshakeDone(e) \/ FinishDisarm(e)
             \/ FinishConfigure(e) \/ FinishArm(e) \/ FinishShot(e) \/ FinishKeepalive(e)
    BY <1>3, EndServed
       DEF NextPhaseFails, HandshakeDone, FinishDisarm, FinishConfigure, FinishArm, FinishShot,
           Finish, FinishKeepalive, OpOver
  <1>4. CASE FinishKeepaliveAndStart(e)
    BY <1>4, RunningIs, StartServed DEF FinishKeepaliveAndStart, KeepaliveDone
  <1>5. CASE FinishKeepaliveStartFails(e)
    BY <1>5, RunningIs, StartFailsServed DEF FinishKeepaliveStartFails, KeepaliveDone
  <1>6. CASE Processed(e)
    <2>1. /\ queue' = queue /\ active'.kind = "Shot"
          /\ active = NoOp \/ active.kind = "Keepalive"
      BY <1>6 DEF Processed, Unclaimed, Feeds, Dominated, NewSeq
    <2>2. Running = "Idle" BY <2>1, RunningIs
    <2>3. Running' = "Shot" /\ WaitingRequests' = WaitingRequests
      BY <2>1 DEF Running, HandshakeKinds, WaitingRequests
    <2> QED BY <2>2, <2>3 DEF Served, Operations!Next, Operations!BeginShot
  <1>7. CASE Trigger(e) \/ ProcessedFails(e) \/ PassOn(e)
    BY <1>7, SameServed DEF Trigger, ProcessedFails, PassOn, opVars
  <1> QED BY <1>1, <1>2, <1>3, <1>4, <1>5, <1>6, <1>7 DEF Handle

LEMMA StepServed ==
  ASSUME TypeOK, [Next]_vars
  PROVE  Served
  <1>1. CASE Calls BY <1>1, CallServed
  <1>2. CASE \/ DeadlineOpen \/ OperationTimesOut \/ NothingToStart \/ RecvNothing \/ RecvFails
    BY <1>2, SameServed
       DEF DeadlineOpen, OperationTimesOut, NothingToStart, RecvNothing, RecvFails, opVars
  <1>3. CASE KeepaliveTimesOut
    BY <1>3, EndServed DEF KeepaliveTimesOut, OpOver
  <1>4. CASE StartNext BY <1>4, RunningIs, StartServed DEF StartNext
  <1>5. CASE StartNextFails BY <1>5, RunningIs, StartFailsServed DEF StartNextFails
  <1>6. CASE CheckTimers \/ CheckTimersFails BY <1>6, TimersServed
  <1>7. ASSUME NEW e \in Envelopes, Handle(e) PROVE Served BY <1>7, HandleServed
  <1>8. CASE Tick
    <2>1. CASE active = NoOp BY <1>8, <2>1, SameServed DEF Tick
    <2>2. CASE active # NoOp BY <1>8, <2>2, ActiveTyped, SameServed DEF Tick, Sequencer
    <2> QED BY <2>1, <2>2
  <1>9. CASE UNCHANGED vars BY <1>9, SameServed DEF vars, opVars
  <1> QED BY <1>1, <1>2, <1>3, <1>4, <1>5, <1>6, <1>7, <1>8, <1>9 DEF Next, PollStep, Progress

\* Operations run one at a time and in the order they were asked for,
\* whatever the peer sends and whatever keepalives and shots come between;
\* where writes can fail, the request that begins may be lost and no other.
THEOREM ServedInOrder == Spec => ServesInOrder
  <1>1. Init => Operations!Init
    <2> SUFFICES ASSUME Init PROVE Operations!Init
      OBVIOUS
    <2>1. queue = <<>> /\ active = NoOp BY DEF Init, Fresh
    <2>2. WaitingRequests = <<>> BY <2>1, NoRequests DEF WaitingRequests
    <2>3. Running = "Idle" BY <2>1, RunningIs
    <2> QED BY <2>2, <2>3 DEF Operations!Init
  <1>2. TypeOK /\ [Next]_vars => [Operations!Next]_(Operations!vars)
    BY StepServed DEF Served
  <1> QED BY <1>1, <1>2, TypeCorrect, PTL DEF Spec, ServesInOrder, Operations!Spec

-----------------------------------------------------------------------------
(* FrpDevice: the program ironsight-frp.                                   *)

(* What a step may do to the queue and to the active operation.            *)

\* The queue stays as it is, and no configuration begins.
LEMMA QueueStaysArms ==
  ASSUME ArmFollowsConfigure,
         queue' = queue,
         active'.kind = "AvrConfig" => active.kind = "AvrConfig"
  PROVE  ArmFollowsConfigure'
  BY DEF ArmFollowsConfigure, ArmAfter

\* Operations are enqueued, an arm behind each configuration among them.
LEMMA EnqueuedArms ==
  ASSUME ArmFollowsConfigure,
         queue \in Seq(QueuedOps),
         NEW ops \in Seq(QueuedOps),
         \A i \in DOMAIN ops :
           ops[i].op = "ConfigureAvr" => \E j \in DOMAIN ops : j > i /\ ops[j].op = "Arm",
         queue' = queue \o ops,
         active'.kind = active.kind
  PROVE  ArmFollowsConfigure'
  <1>1. /\ Len(queue') = Len(queue) + Len(ops)
        /\ DOMAIN queue = 1..Len(queue) /\ DOMAIN ops = 1..Len(ops)
        /\ DOMAIN queue' = 1..(Len(queue) + Len(ops))
        /\ \A i \in 1..Len(queue) : queue'[i] = queue[i]
        /\ \A i \in 1..Len(ops) : queue'[Len(queue) + i] = ops[i]
        /\ Len(queue) \in Nat /\ Len(ops) \in Nat
    OBVIOUS
  <1>2. ASSUME NEW i \in Nat, ArmAfter(i) PROVE ArmAfter(i)'
    BY <1>1, <1>2 DEF ArmAfter
  <1>3. ASSUME NEW i \in DOMAIN queue', queue'[i].op = "ConfigureAvr" PROVE ArmAfter(i)'
    <2>1. CASE i <= Len(queue)
      BY <1>1, <1>2, <1>3, <2>1 DEF ArmFollowsConfigure
    <2>2. CASE i > Len(queue)
      <3>1. i - Len(queue) \in DOMAIN ops /\ ops[i - Len(queue)].op = "ConfigureAvr"
        BY <1>1, <1>3, <2>2
      <3>2. PICK j \in DOMAIN ops : j > i - Len(queue) /\ ops[j].op = "Arm"
        BY <3>1
      <3>3. /\ Len(queue) + j \in DOMAIN queue' /\ Len(queue) + j > i
            /\ queue'[Len(queue) + j].op = "Arm"
        BY <1>1, <1>3, <3>2
      <3> QED BY <3>3 DEF ArmAfter
    <2> QED BY <1>1, <1>3, <2>1, <2>2
  <1>4. active'.kind = "AvrConfig" => ArmAfter(0)'
    BY <1>2 DEF ArmFollowsConfigure
  <1> QED BY <1>3, <1>4 DEF ArmFollowsConfigure, ArmAfter

\* The head of the queue is taken: what was behind it is behind it still.
LEMMA TakeHeadArms ==
  ASSUME TypeOK, ArmFollowsConfigure, TakeHead,
         active'.kind \in {KindFor(Head(queue)), "None"}
  PROVE  ArmFollowsConfigure'
  <1>1. queue # <<>> /\ queue \in Seq(QueuedOps) /\ Head(queue) \in QueuedOps
    BY HeadTyped DEF TakeHead, TypeOK
  <1>2. CASE DisarmFirst(Head(queue))
    <2>1. queue' = queue /\ active'.kind # "AvrConfig"
      BY <1>2 DEF TakeHead, KindFor
    <2> QED BY <2>1, QueueStaysArms
  <1>3. CASE ~DisarmFirst(Head(queue))
    <2>1. queue' = Tail(queue)
      BY <1>3 DEF TakeHead
    <2>2. /\ Len(queue) \in Nat \ {0} /\ DOMAIN queue = 1..Len(queue)
          /\ DOMAIN queue' = 1..(Len(queue) - 1)
          /\ \A i \in 1..(Len(queue) - 1) : queue'[i] = queue[i + 1]
          /\ Head(queue) = queue[1]
      BY <1>1, <2>1
    <2>3. ASSUME NEW i \in Nat, ArmAfter(i + 1) PROVE ArmAfter(i)'
      <3>1. PICK j \in DOMAIN queue : j > i + 1 /\ queue[j].op = "Arm"
        BY <2>3 DEF ArmAfter
      <3>2. j - 1 \in DOMAIN queue' /\ j - 1 > i /\ queue'[j - 1].op = "Arm"
        BY <2>2, <3>1
      <3> QED BY <3>2 DEF ArmAfter
    <2>4. active'.kind = "AvrConfig" => queue[1].op = "ConfigureAvr"
      BY <1>1, <1>3, <2>2 DEF KindFor, SequencerOf, QueuedOps, OpNames
    <2>5. active'.kind = "AvrConfig" => ArmAfter(0)'
      BY <2>2, <2>3, <2>4 DEF ArmFollowsConfigure
    <2>6. ASSUME NEW i \in DOMAIN queue', queue'[i].op = "ConfigureAvr" PROVE ArmAfter(i)'
      <3>1. i + 1 \in DOMAIN queue /\ queue[i + 1].op = "ConfigureAvr" /\ i \in Nat
        BY <2>2, <2>6
      <3> QED BY <2>3, <3>1 DEF ArmFollowsConfigure
    <2> QED BY <2>5, <2>6 DEF ArmFollowsConfigure, ArmAfter
  <1> QED BY <1>2, <1>3

-----------------------------------------------------------------------------
(* A step of poll(), and one of the loop, keep an arm behind each          *)
(* configuration.                                                          *)

LEMMA BeforeRecvArms ==
  ASSUME TypeOK, ArmFollowsConfigure, Progress
  PROVE  ArmFollowsConfigure'
  <1>1. CASE \/ DeadlineOpen \/ OperationTimesOut \/ NothingToStart
             \/ RecvNothing \/ RecvFails
    BY <1>1, QueueStaysArms
       DEF DeadlineOpen, OperationTimesOut, NothingToStart, RecvNothing, RecvFails, opVars
  <1>2. CASE KeepaliveTimesOut
    BY <1>2, QueueStaysArms DEF KeepaliveTimesOut, OpOver, NoOp
  <1>3. CASE StartNext
    BY <1>3, TakeHeadArms, StartHeadTyped DEF StartNext, StartHead
  <1>4. CASE StartNextFails
    BY <1>4, TakeHeadArms DEF StartNextFails, StartHeadFails, NoOp
  <1>5. CASE CheckTimers \/ CheckTimersFails
    <2>1. active'.kind = active.kind
      <3>1. CASE ActiveTimerDue
        BY <1>5, <3>1, ActiveTyped, TimedOutTyped DEF CheckTimers, CheckTimersFails, ActiveTimerDue
      <3>2. CASE ~ActiveTimerDue
        BY <1>5, <3>2 DEF CheckTimers, CheckTimersFails
      <3> QED BY <3>1, <3>2
    <2>2. CASE queue' = queue BY <2>1, <2>2, QueueStaysArms
    <2>3. CASE queue' = Append(queue, Op("Keepalive"))
      <3> DEFINE ops == <<Op("Keepalive")>>
      <3>1. ops \in Seq(QueuedOps) /\ queue \in Seq(QueuedOps) /\ ops[1].op = "Keepalive"
        BY OpTyped DEF OpNames, TypeOK, Op
      <3>2. queue' = queue \o ops /\ DOMAIN ops = {1}
        BY <2>3, <3>1
      <3> HIDE DEF ops
      <3> QED BY <2>1, <3>1, <3>2, EnqueuedArms
    <2> QED BY <1>5, <2>2, <2>3 DEF CheckTimers, CheckTimersFails, AutoKeepalive
  <1> QED BY <1>1, <1>2, <1>3, <1>4, <1>5 DEF Progress

LEMMA HandleArms ==
  ASSUME TypeOK, ArmFollowsConfigure, NEW e \in Envelopes, Handle(e)
  PROVE  ArmFollowsConfigure'
  <1>1. CASE FeedActive(e) \/ FeedFails(e)
    <2>1. active # NoOp /\ active' = Fed(active, e) /\ queue' = queue
      BY <1>1 DEF FeedActive, FeedFails, Feeds
    <2> QED BY <2>1, ActiveTyped, FedTyped, QueueStaysArms
  <1>2. CASE NextPhase(e)
    <2>1. NextKind[active.kind] \in {"Avr", "Pi"}
      BY <1>2 DEF NextPhase, NextKind
    <2> QED BY <1>2, <2>1, QueueStaysArms DEF NextPhase, NewSeq
  <1>3. CASE NextPhaseFails(e) \/ HandshakeDone(e)
    BY <1>3, QueueStaysArms DEF NextPhaseFails, HandshakeDone, OpOver, NoOp
  <1>4. CASE FinishDisarm(e) \/ FinishConfigure(e) \/ FinishArm(e) \/ FinishShot(e)
    BY <1>4, QueueStaysArms
       DEF FinishDisarm, FinishConfigure, FinishArm, FinishShot, Finish, OpOver, NoOp
  <1>5. CASE FinishKeepalive(e)
    BY <1>5, QueueStaysArms DEF FinishKeepalive, OpOver, NoOp
  <1>6. CASE FinishKeepaliveAndStart(e)
    BY <1>6, TakeHeadArms, StartHeadTyped DEF FinishKeepaliveAndStart, StartHead
  <1>7. CASE FinishKeepaliveStartFails(e)
    BY <1>7, TakeHeadArms DEF FinishKeepaliveStartFails, StartHeadFails, NoOp
  <1>8. CASE Trigger(e) \/ ProcessedFails(e) \/ PassOn(e)
    BY <1>8, QueueStaysArms DEF Trigger, ProcessedFails, PassOn, opVars
  <1>9. CASE Processed(e)
    BY <1>9, QueueStaysArms DEF Processed, NewSeq
  <1> QED BY <1>1, <1>2, <1>3, <1>4, <1>5, <1>6, <1>7, <1>8, <1>9 DEF Handle

\* What the loop enqueues: nothing, a configuration and its arm, or an arm.
LEMMA MainEnqueues ==
  ASSUME Main
  PROVE  \E ops \in {<<>>, ConfigureThenArm(NoSettings), <<Op("Arm")>>} : Enqueued(ops)
  BY DEF Main, OnHandshake, OnArmed, OnTrigger, OnShotDatum, OnShotComplete, OnOtherEvent,
         OnNone, OnDetectionMode, OnErrorArmed, OnErrorExit

LEMMA MainArms ==
  ASSUME TypeOK, ArmFollowsConfigure, Main
  PROVE  TypeOK' /\ ArmFollowsConfigure'
  <1>1. PICK ops \in {<<>>, ConfigureThenArm(NoSettings), <<Op("Arm")>>} : Enqueued(ops)
    BY MainEnqueues
  <1>2. Op("Arm") \in QueuedOps /\ [op |-> "ConfigureAvr", cfg |-> NoSettings] \in QueuedOps
    BY OpTyped DEF OpNames, QueuedOps, NoSettings, Settings
  <1>3. /\ ops \in Seq(QueuedOps)
        /\ \A i \in DOMAIN ops :
             ops[i].op = "ConfigureAvr" => \E j \in DOMAIN ops : j > i /\ ops[j].op = "Arm"
    <2>1. CASE ops = <<>> BY <2>1
    <2>2. CASE ops = ConfigureThenArm(NoSettings)
      <3>1. /\ ops \in Seq(QueuedOps) /\ DOMAIN ops = {1, 2}
            /\ ops[1].op = "ConfigureAvr" /\ ops[2].op = "Arm"
        BY <1>2, <2>2 DEF ConfigureThenArm, Op
      <3> QED BY <3>1
    <2>3. CASE ops = <<Op("Arm")>>
      <3>1. ops \in Seq(QueuedOps) /\ DOMAIN ops = {1} /\ ops[1].op = "Arm"
        BY <1>2, <2>3 DEF Op
      <3> QED BY <3>1
    <2> QED BY <2>1, <2>2, <2>3
  <1>4. queue \in Seq(QueuedOps) /\ queue' \in Seq(QueuedOps)
    BY <1>1, <1>3 DEF Enqueued, TypeOK
  <1>5. TypeOK'
    BY <1>1, <1>4, Assigned DEF Enqueued, TypeOK, opVars, kaVars, cacheVars, shotVars
  <1>6. ArmFollowsConfigure'
    BY <1>1, <1>3, <1>4, EnqueuedArms DEF Enqueued, opVars
  <1> QED BY <1>5, <1>6

LEMMA FrpTickArms ==
  ASSUME TypeOK, ArmFollowsConfigure, Tick
  PROVE  ArmFollowsConfigure'
  <1>1. active'.kind = active.kind
    <2>1. CASE active = NoOp BY <2>1 DEF Tick
    <2>2. CASE active # NoOp
      BY <2>2, ActiveTyped DEF Tick, Sequencer
    <2> QED BY <2>1, <2>2
  <1> QED BY <1>1, QueueStaysArms DEF Tick

\* Whenever the program configures the device, or is about to, an arm is
\* behind that configuration: through mode changes at any moment, keepalives,
\* shots, recoveries and write errors.
THEOREM ArmIsBehind == FrpSpec => []ArmFollowsConfigure
  <1>1. FrpInit => TypeOK /\ ArmFollowsConfigure
    <2> SUFFICES ASSUME FrpInit PROVE TypeOK /\ ArmFollowsConfigure
      OBVIOUS
    <2>1. queue = <<Op("Handshake")>> /\ Op("Handshake") \in QueuedOps /\ active = NoOp
      BY OpTyped DEF FrpInit, Fresh, OpNames
    <2>2. queue \in Seq(QueuedOps) /\ DOMAIN queue = {1} /\ queue[1].op = "Handshake"
      BY <2>1 DEF Op
    <2>3. out \in Seq(Commands) /\ ret \in Events \cup Errors \cup {"None", "Pending"}
      BY Assigned DEF FrpInit, Fresh
    <2>4. sinceKa \in 0..KeepaliveInterval /\ opLeft \in Nat \cup {Unset}
      BY Assigned DEF FrpInit, Fresh
    <2>5. TypeOK
      BY <2>2, <2>3, <2>4 DEF FrpInit, Fresh, TypeOK
    <2>6. ArmFollowsConfigure
      BY <2>1, <2>2 DEF ArmFollowsConfigure, NoOp
    <2> QED BY <2>5, <2>6
  <1>2. TypeOK /\ ArmFollowsConfigure /\ [FrpNext]_frpVars => TypeOK' /\ ArmFollowsConfigure'
    <2> SUFFICES ASSUME TypeOK, ArmFollowsConfigure, [FrpNext]_frpVars
                 PROVE  TypeOK' /\ ArmFollowsConfigure'
      OBVIOUS
    <2>1. CASE Poll
      <3>1. CASE Progress
        BY <3>1, BeforeRecvTyped, BeforeRecvArms DEF Progress
      <3>2. CASE \E e \in Envelopes : Handle(e)
        BY <3>2, HandleTyped, HandleArms
      <3> QED BY <2>1, <3>1, <3>2 DEF Poll
    <2>2. CASE Main BY <2>2, MainArms
    <2>3. CASE FrpTick BY <2>3, TickTyped, FrpTickArms DEF FrpTick
    <2>4. CASE UNCHANGED frpVars
      <3>1. UNCHANGED vars
        BY <2>4 DEF frpVars
      <3>2. TypeOK'
        BY <3>1 DEF vars, TypeOK, opVars, kaVars, cacheVars, shotVars
      <3>3. queue' = queue /\ active' = active
        BY <3>1 DEF vars, opVars
      <3> QED BY <3>2, <3>3, QueueStaysArms
    <2> QED BY <2>1, <2>2, <2>3, <2>4 DEF FrpNext
  <1> QED BY <1>1, <1>2, PTL DEF FrpSpec

-----------------------------------------------------------------------------
(* What the controller is told.                                            *)

\* Only what is to be sent is told, and all of it or, when a send fails, the
\* part before; without other errors than Closed a failure disconnects.
LEMMA SentIsTold ==
  ASSUME NEW events \in Seq([event: ShotEvents, shot: Nat]), SendEvents(events)
  PROVE  /\ told \subseteq told'
         /\ told' \ told \subseteq Range(events)
         /\ connected' => connected
         /\ connected' /\ "Other" \notin SendErrors => told' = told \cup Range(events)
  <1>1. CASE /\ told' = told \cup (IF connected THEN Range(events) ELSE {})
             /\ connected' = connected
    BY <1>1
  <1>2. CASE /\ connected
             /\ \E err \in SendErrors, k \in 1..Len(events) :
                  /\ told' = told \cup Range(SubSeq(events, 1, k - 1))
                  /\ connected' = (err # "Closed")
    <2>1. PICK err \in SendErrors, k \in 1..Len(events) :
            /\ told' = told \cup Range(SubSeq(events, 1, k - 1))
            /\ connected' = (err # "Closed")
      BY <1>2
    <2>2. Range(SubSeq(events, 1, k - 1)) \subseteq Range(events)
      <3> DEFINE part == SubSeq(events, 1, k - 1)
      <3>1. /\ DOMAIN part = 1..(k - 1) /\ DOMAIN events = 1..Len(events)
            /\ \A i \in 1..(k - 1) : part[i] = events[i]
            /\ k \in Nat /\ Len(events) \in Nat
        BY SubSeqProperties
      <3>2. \A i \in 1..(k - 1) : i \in 1..Len(events)
        BY <3>1
      <3> HIDE DEF part
      <3> QED BY <3>1, <3>2 DEF Range
    <2>3. err = "Closed" \/ err = "Other"
      BY FrpAssumption
    <2> QED BY <1>2, <2>1, <2>2, <2>3
  <1> QED BY <1>1, <1>2 DEF SendEvents

\* A sequence with one more element.
LEMMA ConcatOne ==
  ASSUME NEW S, NEW s \in Seq(S), NEW t \in Seq(S), Len(t) = 1
  PROVE  /\ s \o t \in Seq(S)
         /\ Len(s \o t) = Len(s) + 1
         /\ \A i \in 1..Len(s) : (s \o t)[i] = s[i]
         /\ (s \o t)[Len(s) + 1] = t[1]
  <1>1. /\ s \o t \in Seq(S) /\ Len(s \o t) = Len(s) + Len(t)
        /\ \A i \in 1..(Len(s) + Len(t)) :
             (s \o t)[i] = IF i <= Len(s) THEN s[i] ELSE t[i - Len(s)]
    BY ConcatProperties, Zenon
  <1> DEFINE n == Len(s)
  <1>2. n \in Nat
    OBVIOUS
  <1> HIDE DEF n
  <1>3. n + 1 \in 1..(n + 1) /\ ~(n + 1 <= n) /\ (n + 1) - n = 1
        /\ \A i \in 1..n : i \in 1..(n + 1) /\ i <= n
    BY <1>2
  <1> QED BY <1>1, <1>3 DEF n

\* The data that are sent belong to the open shot.
LEMMA DataOfOpenShot ==
  ASSUME key \in Nat
  PROVE  /\ DataEvents \in Seq([event: ShotEvents, shot: Nat])
         /\ \A t \in Range(DataEvents) :
              key # 0 /\ t.shot = key /\ t \in [event: ShotEvents, shot: {key}]
  <1> DEFINE Flight == IF "flight" \in payload THEN <<Tell("BallFlight", key)>> ELSE <<>>
             Club == IF "club" \in payload THEN <<Tell("ClubPath", key)>> ELSE <<>>
             Own == [event: ShotEvents, shot: {key}]
             AnyShot == [event: ShotEvents, shot: Nat]
  <1>1. /\ Tell("BallFlight", key) \in Own /\ Tell("ClubPath", key) \in Own
        /\ Own \subseteq AnyShot
        /\ \A t \in Own : t.shot = key
    BY DEF Tell, ShotEvents
  <1> HIDE DEF Own, AnyShot
  <1>2. /\ Flight \in Seq(Own) /\ Club \in Seq(Own)
        /\ Flight \in Seq(AnyShot) /\ Club \in Seq(AnyShot)
    BY <1>1
  <1>3. DataEvents = IF key = 0 THEN <<>> ELSE Flight \o Club
    BY DEF DataEvents
  <1> HIDE DEF Flight, Club
  <1>4. DataEvents \in Seq(Own) /\ DataEvents \in Seq(AnyShot) /\ (key = 0 => DataEvents = <<>>)
    BY <1>2, <1>3
  <1>5. /\ \A i \in DOMAIN DataEvents : DataEvents[i] \in Own
        /\ key = 0 => DOMAIN DataEvents = {}
    BY <1>4
  <1>6. \A t \in Range(DataEvents) : key # 0 /\ t \in Own
    BY <1>5 DEF Range
  <1> QED BY <1>1, <1>4, <1>6 DEF Own, AnyShot

\* Of an open shot the trigger was told while the controller is connected, and
\* what is finished lies before it.
Told ==
  /\ shotNumber \in Nat /\ key \in {0, shotNumber}
  /\ told \subseteq [event: ShotEvents, shot: 1..shotNumber]
  /\ \A t \in told : t.event = "ShotFinished" /\ key # 0 => t.shot < key
  /\ TriggerTold
  /\ "Other" \notin SendErrors /\ connected /\ key # 0 => Tell("ShotTrigger", key) \in told

\* What is told lies behind what was finished.
FinishedFirst ==
  \A new \in told' \ told, t \in told : t.event = "ShotFinished" => new.shot > t.shot

\* A step that tells nothing and at most disconnects.
LEMMA SilentKeepsTold ==
  ASSUME Told, UNCHANGED <<shotNumber, key, told>>, connected' => connected
  PROVE  Told'
  BY DEF Told, TriggerTold

LEMMA OnTriggerKeepsTold ==
  ASSUME Told, OnTrigger
  PROVE  Told' /\ FinishedFirst
  <1> DEFINE n == shotNumber + 1
             events == <<Tell("ShotTrigger", n)>>
  <1>1. n \in Nat /\ n # 0 /\ key' = n /\ shotNumber' = n /\ SendEvents(events)
    BY DEF OnTrigger, Told
  <1>2. /\ Tell("ShotTrigger", n) \in [event: ShotEvents, shot: Nat]
        /\ Tell("ShotTrigger", n) \in [event: ShotEvents, shot: 1..n]
        /\ Tell("ShotTrigger", n).shot = n /\ Tell("ShotTrigger", n).event = "ShotTrigger"
    BY <1>1 DEF Tell, ShotEvents
  <1>3. events \in Seq([event: ShotEvents, shot: Nat]) /\ Range(events) = {Tell("ShotTrigger", n)}
    BY <1>2 DEF Range
  <1> HIDE DEF events
  <1>4. /\ told \subseteq told'
        /\ told' \ told \subseteq {Tell("ShotTrigger", n)}
        /\ connected' /\ "Other" \notin SendErrors => told' = told \cup {Tell("ShotTrigger", n)}
    BY <1>1, <1>3, SentIsTold
  <1>5. \A t \in told : t \in [event: ShotEvents, shot: 1..n] /\ t.shot < n
    BY DEF Told
  <1> HIDE DEF n
  <1>6. told' \subseteq [event: ShotEvents, shot: 1..n]
    BY <1>2, <1>4, <1>5
  <1>7. TriggerTold'
    BY <1>2, <1>4 DEF TriggerTold, Told
  <1>8. \A t \in told' : t.event = "ShotFinished" /\ key' # 0 => t.shot < key'
    BY <1>1, <1>2, <1>4, <1>5
  <1>9. Told'
    BY <1>1, <1>4, <1>6, <1>7, <1>8 DEF Told
  <1> QED BY <1>2, <1>4, <1>5, <1>9 DEF FinishedFirst

\* Data and the end of the open shot are told after its trigger.
LEMMA TellKeepsTold ==
  ASSUME Told, key # 0,
         NEW events \in Seq([event: ShotEvents, shot: Nat]),
         \A t \in Range(events) : t \in [event: ShotEvents, shot: {key}],
         SendEvents(events),
         shotNumber' = shotNumber,
         \/ key' = 0
         \/ key' = key /\ \A t \in Range(events) : t.event # "ShotFinished"
  PROVE  Told' /\ FinishedFirst
  <1>1. /\ told \subseteq told' /\ told' \ told \subseteq Range(events)
        /\ connected' => connected
        /\ connected' /\ "Other" \notin SendErrors => told' = told \cup Range(events)
    BY SentIsTold
  <1>2. /\ \A new \in told' \ told :
             new.shot = key /\ new \in [event: ShotEvents, shot: 1..shotNumber]
        /\ key \in 1..shotNumber
    BY <1>1 DEF Told
  <1>3. told' \subseteq [event: ShotEvents, shot: 1..shotNumber]
    BY <1>2 DEF Told
  <1>4. \A new \in told' \ told, t \in told : t.event = "ShotFinished" => new.shot > t.shot
    BY <1>2 DEF Told
  <1>5. \A t \in told' : t.event = "ShotFinished" /\ key' # 0 => t.shot < key'
    BY <1>1 DEF Told
  <1>6. TriggerTold'
    <2> SUFFICES ASSUME "Other" \notin SendErrors, NEW t \in told'
                 PROVE  Tell("ShotTrigger", t.shot) \in told'
      BY DEF TriggerTold
    <2>1. CASE t \in told BY <1>1, <2>1 DEF Told, TriggerTold
    <2>2. CASE t \notin told
      <3>1. connected
        BY <2>2 DEF SendEvents
      <3> QED BY <1>1, <1>2, <2>2, <3>1 DEF Told
    <2> QED BY <2>1, <2>2
  <1> QED BY <1>1, <1>3, <1>4, <1>5, <1>6 DEF Told, FinishedFirst

LEMMA OnShotDatumKeepsTold ==
  ASSUME Told, OnShotDatum
  PROVE  Told' /\ FinishedFirst
  <1>1. key \in Nat BY DEF Told
  <1>2. /\ DataEvents \in Seq([event: ShotEvents, shot: Nat])
        /\ \A t \in Range(DataEvents) : key # 0 /\ t \in [event: ShotEvents, shot: {key}]
    BY <1>1, DataOfOpenShot
  <1>3. SendEvents(DataEvents) /\ shotNumber' = shotNumber /\ key' = key
    BY DEF OnShotDatum
  <1>4. CASE key = 0
    <2>1. told' = told /\ (connected' => connected)
      BY <1>2, <1>3, <1>4, SentIsTold
    <2> QED BY <1>3, <2>1, SilentKeepsTold DEF FinishedFirst
  <1>5. CASE key # 0
    <2>1. \A t \in Range(DataEvents) : t.event # "ShotFinished"
      BY <1>5 DEF DataEvents, Tell, Range
    <2> QED BY <1>2, <1>3, <1>5, <2>1, TellKeepsTold
  <1> QED BY <1>4, <1>5

LEMMA OnShotCompleteKeepsTold ==
  ASSUME Told, OnShotComplete
  PROVE  Told' /\ FinishedFirst
  <1> DEFINE finished == IF key = 0 THEN <<>> ELSE <<Tell("ShotFinished", key)>>
             events == DataEvents \o finished
             Own == [event: ShotEvents, shot: {key}]
             AnyShot == [event: ShotEvents, shot: Nat]
  <1>1. key \in Nat BY DEF Told
  <1>2. /\ DataEvents \in Seq([event: ShotEvents, shot: Nat])
        /\ \A t \in Range(DataEvents) : key # 0 /\ t \in Own
    BY <1>1, DataOfOpenShot
  <1>3. SendEvents(events) /\ shotNumber' = shotNumber /\ key' = 0
    BY DEF OnShotComplete
  <1>4. CASE key = 0
    <2>1. events = <<>>
      BY <1>4 DEF DataEvents
    <2>2. events \in Seq([event: ShotEvents, shot: Nat]) /\ Range(events) = {}
      BY <2>1 DEF Range
    <2> HIDE DEF events
    <2>3. told' = told /\ (connected' => connected)
      BY <1>3, <2>2, SentIsTold
    <2> QED BY <1>3, <1>4, <2>3, SilentKeepsTold DEF FinishedFirst
  <1>5. CASE key # 0
    <2>1. /\ finished \in Seq(AnyShot)
          /\ Len(finished) = 1 /\ finished[1] \in Own
      BY <1>1, <1>5 DEF Tell, ShotEvents
    <2>2. /\ events \in Seq(AnyShot)
          /\ \A i \in DOMAIN events :
               \/ i \in DOMAIN DataEvents /\ events[i] = DataEvents[i]
               \/ events[i] = finished[1]
      <3>1. DataEvents \in Seq(AnyShot)
        BY <1>2
      <3> HIDE DEF finished, Own, AnyShot
      <3>2. /\ events \in Seq(AnyShot)
            /\ Len(events) = Len(DataEvents) + 1
            /\ \A i \in 1..Len(DataEvents) : events[i] = DataEvents[i]
            /\ events[Len(DataEvents) + 1] = finished[1]
        BY <2>1, <3>1, ConcatOne
      <3> HIDE DEF events
      <3>3. /\ DOMAIN events = 1..(Len(DataEvents) + 1) /\ Len(DataEvents) \in Nat
            /\ DOMAIN DataEvents = 1..Len(DataEvents)
        BY <3>1, <3>2
      <3> QED BY <3>2, <3>3
    <2> HIDE DEF events, finished
    <2>3. \A t \in Range(events) : t \in Own
      BY <1>2, <2>1, <2>2 DEF Range
    <2> QED BY <1>3, <1>5, <2>2, <2>3, TellKeepsTold
  <1> QED BY <1>4, <1>5

LEMMA ToldNext ==
  ASSUME Told, [FrpNext]_frpVars
  PROVE  Told' /\ FinishedFirst
  <1>1. CASE OnTrigger BY <1>1, OnTriggerKeepsTold
  <1>2. CASE OnShotDatum BY <1>2, OnShotDatumKeepsTold
  <1>3. CASE OnShotComplete BY <1>3, OnShotCompleteKeepsTold
  <1>4. CASE \/ Poll \/ FrpTick \/ UNCHANGED frpVars
             \/ OnHandshake \/ OnArmed \/ OnOtherEvent \/ OnNone \/ OnDetectionMode
             \/ OnErrorArmed \/ OnErrorExit
    <2>1. UNCHANGED <<shotNumber, key, told>>
      BY <1>4 DEF Poll, FrpTick, frpVars, serverVars, OnHandshake, OnArmed, OnOtherEvent, OnNone,
                  OnDetectionMode, OnErrorArmed, OnErrorExit
    <2>2. connected' => connected
      <3>1. CASE OnHandshake
        <4>1. connected' \in {connected, FALSE}
          BY <3>1 DEF OnHandshake
        <4> QED BY <4>1, Zenon
      <3>2. CASE OnNone
        <4>1. connected' \in {connected, FALSE}
          BY <3>2 DEF OnNone
        <4> QED BY <4>1, Zenon
      <3>3. CASE \/ Poll \/ FrpTick \/ UNCHANGED frpVars \/ OnArmed \/ OnOtherEvent
                 \/ OnDetectionMode \/ OnErrorArmed \/ OnErrorExit
        BY <3>3 DEF Poll, FrpTick, frpVars, serverVars, OnArmed, OnOtherEvent, OnDetectionMode,
                    OnErrorArmed, OnErrorExit
      <3> QED BY <1>4, <3>1, <3>2, <3>3
    <2> QED BY <2>1, <2>2, SilentKeepsTold DEF FinishedFirst
  <1> QED BY <1>1, <1>2, <1>3, <1>4 DEF FrpNext, Main

LEMMA ToldHolds == FrpSpec => []Told
  <1>1. FrpInit => Told
    BY DEF FrpInit, Told, TriggerTold
  <1> QED BY <1>1, ToldNext, PTL DEF FrpSpec

\* The controller learns of a shot's trigger before anything else of it.
THEOREM TriggerIsFirst == FrpSpec => []TriggerTold
  BY ToldHolds, PTL DEF Told

\* Nothing of a finished shot, or of one before it, is told any more.
THEOREM FinishIsLast == FrpSpec => FinishedIsLast
  <1>1. Told /\ [FrpNext]_frpVars => [FinishedFirst]_frpVars
    BY ToldNext
  <1> QED BY <1>1, ToldHolds, PTL DEF FrpSpec, FinishedIsLast, FinishedFirst

-----------------------------------------------------------------------------
(* What is on its way to the client, in the order it was sent: what is     *)
(* stashed is older than what is not read yet.                             *)

Line == Reverse(pending) \o wire

LEMMA ReadTaken ==
  ASSUME NEW X, NEW w \in Seq(X), NEW k \in 1..Len(w)
  PROVE  LET f == SubSeq(w, 1, k)
             p == Stash(f)
         IN /\ First(f) = w[k] /\ First(f) \in X
            /\ p \in Seq(X) /\ Len(p) = k - 1
            /\ \A i \in 1..(k - 1) : k - i \in 1..(k - 1) /\ p[k - i] = w[i]
            /\ SubSeq(w, k + 1, Len(w)) \in Seq(X)
            /\ Reverse(p) \o SubSeq(w, k + 1, Len(w)) = Without(w, k)
  <1> DEFINE f == SubSeq(w, 1, k)
             g == Front(f)
             p == Stash(f)
             n == Len(w)
             v == SubSeq(w, k + 1, n)
             r == Reverse(p)
             t == r \o v
             u == Without(w, k)
  <1>1. n \in Nat /\ k \in 1..n /\ \A i \in 1..n : w[i] \in X OBVIOUS
  <1> HIDE DEF n
  <1>2. f \in Seq(X) /\ Len(f) = k /\ \A i \in 1..k : f[i] = w[i]
    <2>1. k \in Int /\ 1 <= k /\ (k - 1) + 1 = k /\ \A i \in 1..k : w[i] \in X /\ (1 + i) - 1 = i
      BY <1>1
    <2>2. /\ f \in Seq(X) /\ Len(f) = IF 1 <= k THEN (k - 1) + 1 ELSE 0
          /\ \A i \in 1..((k - 1) + 1) : f[i] = w[(1 + i) - 1]
      BY <2>1, SubSeqProperties
    <2> HIDE DEF f
    <2> QED BY <2>1, <2>2
  <1>3. v \in Seq(X) /\ Len(v) = n - k /\ \A i \in 1..(n - k) : v[i] = w[k + i]
    <2>1. k + 1 \in Int /\ n \in Int /\ \A i \in (k + 1)..n : w[i] \in X BY <1>1
    <2>2. /\ v \in Seq(X) /\ Len(v) = IF k + 1 <= n THEN (n - (k + 1)) + 1 ELSE 0
          /\ \A i \in 1..((n - (k + 1)) + 1) : v[i] = w[((k + 1) + i) - 1]
      BY <2>1, SubSeqProperties
    <2>3. (n - (k + 1)) + 1 = n - k /\ (~(k + 1 <= n) => n - k = 0)
          /\ \A i \in 1..(n - k) : ((k + 1) + i) - 1 = k + i
      BY <1>1
    <2> HIDE DEF v
    <2> QED BY <2>2, <2>3
  <1> HIDE DEF f, v
  <1>4. f # <<>>
    <2>1. Len(<<>>) = 0 OBVIOUS
    <2> QED BY <1>1, <1>2, <2>1
  <1>5. /\ First(f) = w[k] /\ First(f) \in X
        /\ g \in Seq(X) /\ Len(g) = k - 1 /\ \A i \in 1..(k - 1) : g[i] = w[i]
    <2>1. /\ Last(f) = f[k] /\ Last(f) \in X
          /\ g \in Seq(X) /\ Len(g) = k - 1 /\ \A i \in 1..(k - 1) : g[i] = f[i]
      BY <1>2, <1>4, LastIs
    <2> QED BY <1>1, <1>2, <2>1 DEF First
  <1> HIDE DEF g
  <1>6. p = Reverse(g) BY DEF Stash, g
  <1>7. p \in Seq(X) /\ Len(p) = k - 1 /\ \A i \in 1..(k - 1) : p[i] = g[((k - 1) - i) + 1]
    BY <1>5, <1>6, ReverseIs
  <1> HIDE DEF p
  <1>8. /\ \A i \in 1..(k - 1) : k - i \in 1..(k - 1) /\ p[k - i] = w[i]
        /\ \A i \in 1..(k - 1) : p[i] = w[k - i]
    <2>1. \A i \in 1..(k - 1) : /\ k - i \in 1..(k - 1) /\ ((k - 1) - (k - i)) + 1 = i
                                /\ ((k - 1) - i) + 1 = k - i
      BY <1>1
    <2> QED BY <1>5, <1>7, <2>1
  <1>9. r \in Seq(X) /\ Len(r) = k - 1 /\ \A i \in 1..(k - 1) : r[i] = w[i]
    <2>1. /\ r \in Seq(X) /\ Len(r) = k - 1
          /\ \A i \in 1..(k - 1) : r[i] = p[((k - 1) - i) + 1]
      BY <1>7, ReverseIs
    <2>2. \A i \in 1..(k - 1) : ((k - 1) - i) + 1 = k - i BY <1>1
    <2> HIDE DEF r
    <2> QED BY <1>8, <2>1, <2>2
  <1> HIDE DEF r
  <1>10. /\ t \in Seq(X) /\ Len(t) = n - 1
         /\ \A i \in 1..(n - 1) : t[i] = IF i <= k - 1 THEN w[i] ELSE w[i + 1]
    <2>0. /\ t \in Seq(X) /\ Len(t) = Len(r) + Len(v)
          /\ \A i \in 1..(Len(r) + Len(v)) : t[i] = IF i <= Len(r) THEN r[i] ELSE v[i - Len(r)]
      BY <1>3, <1>9, ConcatProperties
    <2>2. Len(r) + Len(v) = n - 1 BY <1>1, <1>3, <1>9
    <2> HIDE DEF t
    <2>1. /\ t \in Seq(X) /\ Len(t) = n - 1
          /\ \A i \in 1..(n - 1) : t[i] = IF i <= k - 1 THEN r[i] ELSE v[i - (k - 1)]
      BY <1>9, <2>0, <2>2
    <2>3. ASSUME NEW i \in 1..(n - 1) PROVE t[i] = IF i <= k - 1 THEN w[i] ELSE w[i + 1]
      <3>1. CASE i <= k - 1
        <4>1. i \in 1..(k - 1) BY <1>1, <3>1
        <4> QED BY <1>9, <2>1, <2>2, <3>1, <4>1
      <3>2. CASE ~(i <= k - 1)
        <4>1. i - (k - 1) \in 1..(n - k) /\ k + (i - (k - 1)) = i + 1 BY <1>1, <3>2
        <4> QED BY <1>3, <2>1, <2>2, <3>2, <4>1
      <3> QED BY <3>1, <3>2
    <2> QED BY <2>1, <2>2, <2>3
  <1>11. /\ u \in Seq(X) /\ Len(u) = n - 1
         /\ \A i \in 1..(n - 1) : u[i] = w[IF i < k THEN i ELSE i + 1]
    BY WithoutIs DEF n
  <1> HIDE DEF t, u
  <1>12. \A i \in 1..(n - 1) : t[i] = u[i]
    <2>1. \A i \in 1..(n - 1) : i < k <=> i <= k - 1 BY <1>1
    <2> QED BY <1>10, <1>11, <2>1
  <1>13. t = u BY <1>1, <1>10, <1>11, <1>12, SeqEqual
  <1> QED BY <1>3, <1>5, <1>7, <1>8, <1>13 DEF t, u, r, f, v, p, n

\* The messages that are on their way to the client, those of them that are
\* stashed, and the commands that are on their way to the device.
MsgsIn(s) == {s[i].msg : i \in 1..Len(s)}
On == MsgsIn(Line)
Held == MsgsIn(pending)
Asked == CmdsIn(inbox)

Saying(ms) == {e \in DeviceEnvelopes : e.msg \in ms}
Asking(cs) == {c \in Commands : c.cmd \in cs}

AckCmds == {"Commit", "Arm", "ParamValue"}
AckMsgs == {"ConfigAck", "ConfigNack"}

\* What is on its way at most once, and what comes in an order.
OneAckAsked == Alone(inbox, Asking(AckCmds))
OneResultAsked == Alone(inbox, Asking({"ShotResultReq"}))
DataAckFirst == Ahead(inbox, Asking({"ShotDataAck"}), Asking({"ShotResultReq"}))
OneAck == Alone(Line, Saying(AckMsgs))
OneResult == Alone(Line, Saying({"ClubResult"}))
OneProcessed == Alone(Line, Saying({"PROCESSED"}))
OneIdle == Alone(Line, Saying({"IDLE"}))
TriggerFirst == Ahead(Line, Saying({"BALL TRIGGER"}), Saying({"PROCESSED"}))

OnTheWay ==
  pending \in Seq(DeviceEnvelopes) /\ wire \in Seq(DeviceEnvelopes) /\ inbox \in Seq(Commands)

LEMMA HasMsg ==
  ASSUME NEW s \in Seq(DeviceEnvelopes), NEW ms
  PROVE  Has(s, Saying(ms)) <=> MsgsIn(s) \cap ms # {}
  <1>1. \A i \in 1..Len(s) : s[i] \in DeviceEnvelopes OBVIOUS
  <1> QED BY <1>1 DEF Has, Saying, MsgsIn

LEMMA HasCmd ==
  ASSUME NEW s \in Seq(Commands), NEW cs
  PROVE  Has(s, Asking(cs)) <=> CmdsIn(s) \cap cs # {}
  <1>1. \A i \in 1..Len(s) : s[i] \in Commands OBVIOUS
  <1> QED BY <1>1 DEF Has, Asking, CmdsIn

LEMMA LineTyped ==
  ASSUME OnTheWay
  PROVE  Line \in Seq(DeviceEnvelopes)
  <1>1. Reverse(pending) \in Seq(DeviceEnvelopes) BY ReverseIs DEF OnTheWay
  <1> QED BY <1>1, ConcatProperties DEF Line, OnTheWay

\* What is stashed is on the line.
LEMMA HeldIsOn ==
  ASSUME OnTheWay
  PROVE  Held \subseteq On
  <1> DEFINE r == Reverse(pending)
             n == Len(pending)
  <1>1. /\ r \in Seq(DeviceEnvelopes) /\ Len(r) = n
        /\ \A i \in 1..n : r[i] = pending[(n - i) + 1]
    BY ReverseIs DEF OnTheWay
  <1>2. n \in Nat /\ wire \in Seq(DeviceEnvelopes) BY DEF OnTheWay
  <1> HIDE DEF r, n
  <1>3. Len(wire) \in Nat BY <1>2
  <1>4. Line = r \o wire BY DEF Line, r
  <1>5. Len(Line) = n + Len(wire) /\ \A i \in 1..n : Line[i] = r[i]
    <2> DEFINE s == r \o wire
    <2>1. Len(s) = n + Len(wire) /\ \A i \in 1..n : s[i] = r[i]
      BY <1>1, <1>2
    <2> HIDE DEF s
    <2> QED BY <1>4, <2>1 DEF s
  <1>6. ASSUME NEW i \in 1..n PROVE \E j \in 1..Len(Line) : Line[j] = pending[i]
    <2>1. (n - i) + 1 \in 1..n /\ (n - ((n - i) + 1)) + 1 = i BY <1>2
    <2>2. Line[(n - i) + 1] = pending[i] BY <1>1, <1>5, <2>1
    <2>3. (n - i) + 1 \in 1..Len(Line) BY <1>2, <1>3, <1>5, <2>1
    <2> QED BY <2>2, <2>3
  <1> QED BY <1>6 DEF Held, On, MsgsIn, n

-----------------------------------------------------------------------------
(* What the device sends comes last.                                       *)

LEMMA LineGrows ==
  ASSUME OnTheWay, NEW t \in Seq(DeviceEnvelopes), wire' = wire \o t, pending' = pending
  PROVE  Line' = Line \o t
  <1> DEFINE r == Reverse(pending)
  <1>1. r \in Seq(DeviceEnvelopes) /\ wire \in Seq(DeviceEnvelopes)
    BY ReverseIs DEF OnTheWay
  <1>2. Line = r \o wire BY DEF Line
  <1>3. Line' = r \o (wire \o t) BY DEF Line
  <1> HIDE DEF r
  <1> QED BY <1>1, <1>2, <1>3, ConcatAssociative

\* No message is in t twice.
AllDiffer(t) == \A i, j \in 1..Len(t) : t[i].msg = t[j].msg => i = j

LEMMA GrowsAlone ==
  ASSUME OnTheWay, NEW t \in Seq(DeviceEnvelopes), AllDiffer(t), Line' = Line \o t,
         NEW ms, Alone(Line, Saying(ms)), \A x, y \in MsgsIn(t) \cap ms : x = y,
         On \cap ms = {} \/ MsgsIn(t) \cap ms = {}
  PROVE  Alone(Line, Saying(ms))'
  <1> DEFINE S == Saying(ms)
             w == Line \o t
  <1>1. Line \in Seq(DeviceEnvelopes) BY LineTyped
  <1>2. Alone(t, S)
    <2> SUFFICES ASSUME NEW i \in 1..Len(t), NEW j \in 1..Len(t), t[i] \in S, t[j] \in S
                 PROVE  i = j
      BY DEF Alone
    <2>1. t[i].msg \in MsgsIn(t) \cap ms /\ t[j].msg \in MsgsIn(t) \cap ms
      BY DEF Saying, MsgsIn
    <2> QED BY <2>1 DEF AllDiffer
  <1>3. ~(Has(Line, S) /\ Has(t, S)) BY <1>1, HasMsg DEF On
  <1>4. Alone(w, S)
    <2> HIDE DEF S
    <2>1. Alone(Line, S) BY DEF S
    <2> QED BY <1>1, <1>2, <1>3, <2>1, Joins
  <1>5. S' = S BY DEF Saying
  <1> HIDE DEF w, S
  <1>6. Alone(Line, S)' BY <1>4, <1>5 DEF Alone, w
  <1> QED BY <1>6 DEF S

\* Messages that are on their way, when the device has sent t.
LEMMA Sent ==
  ASSUME OnTheWay, NEW t \in Seq(DeviceEnvelopes), AllDiffer(t),
         wire' = wire \o t, pending' = pending
  PROVE  /\ wire' \in Seq(DeviceEnvelopes) /\ pending' \in Seq(DeviceEnvelopes)
         /\ On' = On \cup MsgsIn(t) /\ Held' = Held
         /\ OneAck /\ (\A x, y \in MsgsIn(t) \cap AckMsgs : x = y)
              /\ (On \cap AckMsgs = {} \/ MsgsIn(t) \cap AckMsgs = {}) => OneAck'
         /\ OneResult /\ ("ClubResult" \notin On \/ "ClubResult" \notin MsgsIn(t)) => OneResult'
         /\ OneProcessed /\ ("PROCESSED" \notin On \/ "PROCESSED" \notin MsgsIn(t)) => OneProcessed'
         /\ OneIdle /\ ("IDLE" \notin On \/ "IDLE" \notin MsgsIn(t)) => OneIdle'
         /\ TriggerFirst /\ ~({"BALL TRIGGER", "PROCESSED"} \subseteq MsgsIn(t))
              /\ ("PROCESSED" \notin On \/ "BALL TRIGGER" \notin MsgsIn(t)) => TriggerFirst'
  <1>1. Line' = Line \o t BY LineGrows
  <1>2. Line \in Seq(DeviceEnvelopes) BY LineTyped
  <1>3. wire' \in Seq(DeviceEnvelopes) /\ pending' \in Seq(DeviceEnvelopes)
    BY ConcatProperties DEF OnTheWay
  <1>4. On' = On \cup MsgsIn(t)
    <2> DEFINE s == Line
               w == s \o t
    <2>1. /\ Len(w) = Len(s) + Len(t) /\ Len(s) \in Nat /\ Len(t) \in Nat
          /\ \A i \in 1..Len(s) : w[i] = s[i]
          /\ \A i \in 1..Len(t) : w[Len(s) + i] = t[i]
      <3> HIDE DEF s
      <3> QED BY <1>2 DEF s
    <2>2. On' = MsgsIn(w) BY <1>1 DEF On, MsgsIn
    <2> HIDE DEF s, w
    <2>3. \A i \in 1..Len(w) : i \in 1..Len(s) \/ \E j \in 1..Len(t) : i = Len(s) + j
      <3> TAKE i \in 1..Len(w)
      <3>1. CASE i <= Len(s) BY <2>1, <3>1
      <3>2. CASE i > Len(s)
        <4>1. i - Len(s) \in 1..Len(t) /\ i = Len(s) + (i - Len(s)) BY <2>1, <3>2
        <4> QED BY <4>1
      <3> QED BY <2>1, <3>1, <3>2
    <2>4. /\ \A i \in 1..Len(s) : i \in 1..Len(w)
          /\ \A i \in 1..Len(t) : Len(s) + i \in 1..Len(w)
      BY <2>1
    <2>5. MsgsIn(w) = MsgsIn(s) \cup MsgsIn(t)
      <3>1. ASSUME NEW i \in 1..Len(w) PROVE w[i].msg \in MsgsIn(s) \cup MsgsIn(t)
        <4>1. CASE i \in 1..Len(s) BY <2>1, <4>1 DEF MsgsIn
        <4>2. CASE i \notin 1..Len(s)
          <5>1. PICK j \in 1..Len(t) : i = Len(s) + j BY <2>3, <4>2
          <5>2. w[i] = t[j] BY <2>1, <5>1
          <5> QED BY <5>2 DEF MsgsIn
        <4> QED BY <4>1, <4>2
      <3>2. MsgsIn(s) \subseteq MsgsIn(w) BY <2>1, <2>4 DEF MsgsIn
      <3>3. MsgsIn(t) \subseteq MsgsIn(w) BY <2>1, <2>4 DEF MsgsIn
      <3>4. MsgsIn(w) \subseteq MsgsIn(s) \cup MsgsIn(t) BY <3>1 DEF MsgsIn
      <3> QED BY <3>2, <3>3, <3>4
    <2> QED BY <2>2, <2>5 DEF On, s
  <1>5. Held' = Held BY DEF Held, MsgsIn
  <1>6. OneAck /\ (\A x, y \in MsgsIn(t) \cap AckMsgs : x = y)
          /\ (On \cap AckMsgs = {} \/ MsgsIn(t) \cap AckMsgs = {}) => OneAck'
    BY <1>1, GrowsAlone DEF OneAck
  <1>7. OneResult /\ ("ClubResult" \notin On \/ "ClubResult" \notin MsgsIn(t)) => OneResult'
    <2> HAVE OneResult /\ ("ClubResult" \notin On \/ "ClubResult" \notin MsgsIn(t))
    <2>1. \A x, y \in MsgsIn(t) \cap {"ClubResult"} : x = y OBVIOUS
    <2>2. On \cap {"ClubResult"} = {} \/ MsgsIn(t) \cap {"ClubResult"} = {} OBVIOUS
    <2> QED BY <1>1, <2>1, <2>2, GrowsAlone DEF OneResult
  <1>8. OneProcessed /\ ("PROCESSED" \notin On \/ "PROCESSED" \notin MsgsIn(t)) => OneProcessed'
    <2> HAVE OneProcessed /\ ("PROCESSED" \notin On \/ "PROCESSED" \notin MsgsIn(t))
    <2>1. \A x, y \in MsgsIn(t) \cap {"PROCESSED"} : x = y OBVIOUS
    <2>2. On \cap {"PROCESSED"} = {} \/ MsgsIn(t) \cap {"PROCESSED"} = {} OBVIOUS
    <2> QED BY <1>1, <2>1, <2>2, GrowsAlone DEF OneProcessed
  <1>9. OneIdle /\ ("IDLE" \notin On \/ "IDLE" \notin MsgsIn(t)) => OneIdle'
    <2> HAVE OneIdle /\ ("IDLE" \notin On \/ "IDLE" \notin MsgsIn(t))
    <2>1. \A x, y \in MsgsIn(t) \cap {"IDLE"} : x = y OBVIOUS
    <2>2. On \cap {"IDLE"} = {} \/ MsgsIn(t) \cap {"IDLE"} = {} OBVIOUS
    <2> QED BY <1>1, <2>1, <2>2, GrowsAlone DEF OneIdle
  <1>10. TriggerFirst /\ ~({"BALL TRIGGER", "PROCESSED"} \subseteq MsgsIn(t))
           /\ ("PROCESSED" \notin On \/ "BALL TRIGGER" \notin MsgsIn(t)) => TriggerFirst'
    <2> HAVE TriggerFirst /\ ~({"BALL TRIGGER", "PROCESSED"} \subseteq MsgsIn(t))
           /\ ("PROCESSED" \notin On \/ "BALL TRIGGER" \notin MsgsIn(t))
    <2> DEFINE S == Saying({"BALL TRIGGER"})
               T == Saying({"PROCESSED"})
               w == Line \o t
    <2>0. /\ Has(Line, T) <=> "PROCESSED" \in On
          /\ Has(t, T) <=> "PROCESSED" \in MsgsIn(t)
          /\ Has(t, S) <=> "BALL TRIGGER" \in MsgsIn(t)
      <3>1. Has(Line, T) <=> On \cap {"PROCESSED"} # {} BY <1>2, HasMsg DEF On
      <3>2. Has(t, T) <=> MsgsIn(t) \cap {"PROCESSED"} # {} BY HasMsg
      <3>3. Has(t, S) <=> MsgsIn(t) \cap {"BALL TRIGGER"} # {} BY HasMsg
      <3> HIDE DEF S, T
      <3> QED BY <3>1, <3>2, <3>3
    <2>1. ~(Has(Line, T) /\ Has(t, S)) BY <2>0
    <2>2. ~(Has(t, S) /\ Has(t, T)) BY <2>0
    <2>3. Ahead(t, S, T) BY <2>2 DEF Ahead, Has
    <2>4. S' = S /\ T' = T BY DEF Saying
    <2>5. Ahead(Line, S, T) BY DEF TriggerFirst
    <2> HIDE DEF S, T
    <2>6. Ahead(w, S, T) BY <1>2, <2>1, <2>3, <2>5, Joins
    <2> HIDE DEF w
    <2>7. Ahead(Line, S, T)' BY <1>1, <2>4, <2>6 DEF Ahead, w
    <2> QED BY <2>7 DEF TriggerFirst, S, T
  <1> QED BY <1>3, <1>4, <1>5, <1>6, <1>7, <1>8, <1>9, <1>10

-----------------------------------------------------------------------------
(* What recv() hands out is gone.                                          *)

LEMMA TakenMsgs ==
  ASSUME NEW s \in Seq(DeviceEnvelopes), NEW k \in 1..Len(s)
  PROVE  LET w == Without(s, k) IN
         /\ w \in Seq(DeviceEnvelopes) /\ s[k].msg \in MsgsIn(s)
         /\ MsgsIn(w) \subseteq MsgsIn(s) /\ MsgsIn(s) \subseteq MsgsIn(w) \cup {s[k].msg}
  <1> DEFINE w == Without(s, k)
  <1>1. /\ w \in Seq(DeviceEnvelopes) /\ Len(w) = Len(s) - 1
        /\ \A i \in 1..(Len(s) - 1) : w[i] = s[IF i < k THEN i ELSE i + 1]
        /\ \A i \in 1..Len(s) : i < k => i \in 1..(Len(s) - 1) /\ w[i] = s[i]
        /\ \A i \in 1..Len(s) : i > k => i - 1 \in 1..(Len(s) - 1) /\ w[i - 1] = s[i]
    BY WithoutIs
  <1> HIDE DEF w
  <1>2. s[k].msg \in MsgsIn(s) BY DEF MsgsIn
  <1>3. MsgsIn(w) \subseteq MsgsIn(s)
    <2> SUFFICES ASSUME NEW i \in 1..Len(w) PROVE w[i].msg \in MsgsIn(s)
      BY DEF MsgsIn
    <2>1. PICK j \in 1..Len(s) : w[i] = s[j]
      <3>1. (IF i < k THEN i ELSE i + 1) \in 1..Len(s) BY <1>1
      <3> QED BY <1>1, <3>1
    <2> QED BY <2>1 DEF MsgsIn
  <1>4. MsgsIn(s) \subseteq MsgsIn(w) \cup {s[k].msg}
    <2> SUFFICES ASSUME NEW i \in 1..Len(s) PROVE s[i].msg \in MsgsIn(w) \cup {s[k].msg}
      BY DEF MsgsIn
    <2>1. CASE i < k BY <1>1, <2>1 DEF MsgsIn
    <2>2. CASE i = k BY <2>2
    <2>3. CASE i > k
      <3>1. i - 1 \in 1..Len(w) /\ w[i - 1] = s[i] BY <1>1, <2>3
      <3> QED BY <3>1 DEF MsgsIn
    <2> QED BY <2>1, <2>2, <2>3
  <1> QED BY <1>1, <1>2, <1>3, <1>4 DEF w

LEMMA TakenAlone ==
  ASSUME OnTheWay, NEW k \in 1..Len(Line), Line' = Without(Line, k),
         NEW ms, Alone(Line, Saying(ms))
  PROVE  Alone(Line, Saying(ms))' /\ (Line[k].msg \in ms => On' \cap ms = {})
  <1> DEFINE S == Saying(ms)
             w == Without(Line, k)
  <1>1. Line \in Seq(DeviceEnvelopes) BY LineTyped
  <1>2. w \in Seq(DeviceEnvelopes) BY <1>1, WithoutIs
  <1>3. S' = S BY DEF Saying
  <1>4. Alone(Line, S) => Alone(w, S) BY <1>1, WithoutKeeps
  <1>5. Alone(Line, S) /\ Line[k] \in S => ~Has(w, S) BY <1>1, WithoutKeeps
  <1>6. Alone(Line, S)'
    <2> HIDE DEF S, w
    <2> QED BY <1>3, <1>4 DEF Alone, S, w
  <1>7. Line[k].msg \in ms => On' \cap ms = {}
    <2> HAVE Line[k].msg \in ms
    <2>1. Line[k] \in S BY <1>1 DEF Saying
    <2>2. ~Has(w, S) BY <1>5, <2>1
    <2>3. MsgsIn(w) \cap ms = {} BY <1>2, <2>2, HasMsg
    <2>4. On' = MsgsIn(w) BY DEF On, MsgsIn
    <2> QED BY <2>3, <2>4
  <1> QED BY <1>6, <1>7

LEMMA TakenAhead ==
  ASSUME OnTheWay, NEW k \in 1..Len(Line), Line' = Without(Line, k), TriggerFirst
  PROVE  /\ TriggerFirst'
         /\ Line[k].msg = "PROCESSED" /\ k = 1 => "BALL TRIGGER" \notin On'
         /\ Line[k].msg = "PROCESSED" /\ "BALL TRIGGER" \in On' =>
              \E i \in 1..Len(Line) : i < k /\ Line[i].msg = "BALL TRIGGER"
  <1> DEFINE S == Saying({"BALL TRIGGER"})
             T == Saying({"PROCESSED"})
             w == Without(Line, k)
  <1>1. Line \in Seq(DeviceEnvelopes) BY LineTyped
  <1>2. S' = S /\ T' = T BY DEF Saying
  <1>3. Ahead(Line, S, T) BY DEF TriggerFirst
  <1>4. Ahead(Line, S, T) => Ahead(w, S, T) BY <1>1, WithoutKeeps
  <1>5. Ahead(Line, S, T) /\ Line[k] \in T /\ k = 1 => ~Has(w, S) BY <1>1, WithoutKeeps
  <1>6. TriggerFirst'
    <2> HIDE DEF S, T, w
    <2>1. Ahead(Line, S, T)' BY <1>2, <1>3, <1>4 DEF Ahead, w
    <2> QED BY <2>1 DEF TriggerFirst, S, T
  <1>7. On' = MsgsIn(w) BY DEF On, MsgsIn
  <1>8. w \in Seq(DeviceEnvelopes) BY <1>1, WithoutIs
  <1>9. Line[k].msg = "PROCESSED" => Line[k] \in T BY <1>1 DEF Saying
  <1>10. Line[k].msg = "PROCESSED" /\ k = 1 => "BALL TRIGGER" \notin On'
    <2> HAVE Line[k].msg = "PROCESSED" /\ k = 1
    <2>1. ~Has(w, S) BY <1>3, <1>5, <1>9
    <2>2. MsgsIn(w) \cap {"BALL TRIGGER"} = {} BY <1>8, <2>1, HasMsg
    <2> QED BY <1>7, <2>2
  <1>11. Line[k].msg = "PROCESSED" /\ "BALL TRIGGER" \in On' =>
           \E i \in 1..Len(Line) : i < k /\ Line[i].msg = "BALL TRIGGER"
    <2> HAVE Line[k].msg = "PROCESSED" /\ "BALL TRIGGER" \in On'
    <2>1. MsgsIn(w) \subseteq MsgsIn(Line) BY <1>1, TakenMsgs
    <2>2. PICK i \in 1..Len(Line) : Line[i].msg = "BALL TRIGGER" BY <1>7, <2>1 DEF MsgsIn
    <2>3. Line[i] \in S
      <3>1. Line[i] \in DeviceEnvelopes BY <1>1, ElementOfSeq
      <3> QED BY <2>2, <3>1 DEF Saying
    <2>4. i < k BY <1>3, <1>9, <2>3 DEF Ahead
    <2> QED BY <2>2, <2>4
  <1> QED BY <1>6, <1>10, <1>11

\* A receipt of e takes it from what is on its way.
Takes(e) ==
  /\ e \in DeviceEnvelopes /\ e.msg \in On
  /\ wire' \in Seq(DeviceEnvelopes) /\ pending' \in Seq(DeviceEnvelopes)
  /\ On' \subseteq On /\ On \subseteq On' \cup {e.msg}
  /\ Held # {} => /\ e.msg \in Held
                  /\ Held' \subseteq Held /\ Held \subseteq Held' \cup {e.msg}
  /\ OneAck => OneAck' /\ (e.msg \in AckMsgs => On' \cap AckMsgs = {})
  /\ OneResult => OneResult' /\ (e.msg = "ClubResult" => "ClubResult" \notin On')
  /\ OneProcessed => OneProcessed' /\ (e.msg = "PROCESSED" => "PROCESSED" \notin On')
  /\ OneIdle => OneIdle' /\ (e.msg = "IDLE" => "IDLE" \notin On')
  /\ TriggerFirst => TriggerFirst' /\ (e.msg = "PROCESSED" /\ "BALL TRIGGER" \in On' =>
                                         "BALL TRIGGER" \in Held')

LEMMA TakenOne ==
  ASSUME OnTheWay, NEW k \in 1..Len(Line), Line' = Without(Line, k),
         NEW m \in {"ClubResult", "PROCESSED", "IDLE"}, Alone(Line, Saying({m}))
  PROVE  Alone(Line, Saying({m}))' /\ (Line[k].msg = m => m \notin On')
  <1> DEFINE ms == {m}
  <1>1. Alone(Line, Saying(ms)) OBVIOUS
  <1>2. m \in ms /\ (Line[k].msg = m => Line[k].msg \in ms) OBVIOUS
  <1> HIDE DEF ms
  <1>3. Alone(Line, Saying(ms))' /\ (Line[k].msg \in ms => On' \cap ms = {})
    BY <1>1, TakenAlone
  <1>4. Line[k].msg = m => m \notin On' BY <1>2, <1>3
  <1>5. Alone(Line, Saying(ms))' BY <1>3
  <1> QED BY <1>4, <1>5 DEF ms

LEMMA TakenFacts ==
  ASSUME OnTheWay, NEW k \in 1..Len(Line), Line' = Without(Line, k)
  PROVE  /\ Line[k] \in DeviceEnvelopes /\ Line[k].msg \in On
         /\ On' \subseteq On /\ On \subseteq On' \cup {Line[k].msg}
         /\ OneAck => OneAck' /\ (Line[k].msg \in AckMsgs => On' \cap AckMsgs = {})
         /\ OneResult => OneResult' /\ (Line[k].msg = "ClubResult" => "ClubResult" \notin On')
         /\ OneProcessed => OneProcessed' /\ (Line[k].msg = "PROCESSED" => "PROCESSED" \notin On')
         /\ OneIdle => OneIdle' /\ (Line[k].msg = "IDLE" => "IDLE" \notin On')
  <1>1. Line \in Seq(DeviceEnvelopes) /\ Line[k] \in DeviceEnvelopes BY LineTyped
  <1>2. Line[k].msg \in On /\ On' \subseteq On /\ On \subseteq On' \cup {Line[k].msg}
    <2>1. On' = MsgsIn(Without(Line, k)) BY DEF On, MsgsIn
    <2> QED BY <1>1, <2>1, TakenMsgs DEF On
  <1>3. OneAck => OneAck' /\ (Line[k].msg \in AckMsgs => On' \cap AckMsgs = {})
    BY TakenAlone DEF OneAck
  <1>4. OneResult => OneResult' /\ (Line[k].msg = "ClubResult" => "ClubResult" \notin On')
    BY TakenOne DEF OneResult
  <1>5. OneProcessed => OneProcessed' /\ (Line[k].msg = "PROCESSED" => "PROCESSED" \notin On')
    BY TakenOne DEF OneProcessed
  <1>6. OneIdle => OneIdle' /\ (Line[k].msg = "IDLE" => "IDLE" \notin On')
    BY TakenOne DEF OneIdle
  <1> QED BY <1>1, <1>2, <1>3, <1>4, <1>5, <1>6

\* e was the first on its way, or a read brought it with others.
TakenAt(e, k) ==
  \E j \in 1..Len(Line) : Line[j] = e /\ Line' = Without(Line, j) /\ (j = 1 \/ k > 1)

LEMMA PendingTaken ==
  ASSUME OnTheWay, ReceivePending
  PROVE  Receive(Last(pending), 1) /\ Takes(Last(pending)) /\ TakenAt(Last(pending), 1)
  <1> DEFINE e == Last(pending)
             n == Len(pending)
             f == Front(pending)
  <1>1. /\ pending # <<>> /\ Receive(e, 1) /\ pending' = f /\ wire' = wire
        /\ pending \in Seq(DeviceEnvelopes) /\ wire \in Seq(DeviceEnvelopes)
    BY DEF ReceivePending, OnTheWay
  <1>2. /\ Line \in Seq(DeviceEnvelopes) /\ 1 \in 1..Len(Line) /\ e = Line[1]
        /\ f \in Seq(DeviceEnvelopes)
        /\ Reverse(f) \o wire = Without(Line, 1)
    <2> HIDE DEF e, f
    <2> QED BY <1>1, StashedTaken DEF Line, e, f
  <1>3. Line' = Without(Line, 1) BY <1>1, <1>2 DEF Line
  <1>4. /\ n \in Nat \ {0} /\ e = pending[n]
        /\ Len(f) = n - 1 /\ \A i \in 1..(n - 1) : f[i] = pending[i]
    BY <1>1, LastIs
  <1>5. e.msg \in Held /\ Held' \subseteq Held /\ Held \subseteq Held' \cup {e.msg}
    <2>1. Held' = MsgsIn(f) BY <1>1 DEF Held, MsgsIn
    <2> HIDE DEF e, f
    <2>2. e.msg \in Held BY <1>4 DEF Held, MsgsIn
    <2>3. ASSUME NEW i \in 1..n PROVE pending[i].msg \in Held' \cup {e.msg}
      <3>1. CASE i = n BY <1>4, <3>1
      <3>2. CASE i # n
        <4>1. i \in 1..(n - 1) BY <1>4, <3>2
        <4> QED BY <1>4, <2>1, <4>1 DEF MsgsIn
      <3> QED BY <3>1, <3>2
    <2>4. Held' \subseteq Held
      <3>1. \A i \in 1..(n - 1) : i \in 1..n BY <1>4
      <3>2. MsgsIn(f) \subseteq MsgsIn(pending) BY <1>4, <3>1 DEF MsgsIn
      <3> QED BY <2>1, <3>2 DEF Held
    <2> QED BY <2>2, <2>3, <2>4 DEF Held, MsgsIn
  <1>6. TriggerFirst => TriggerFirst' /\ (e.msg = "PROCESSED" => "BALL TRIGGER" \notin On')
    BY <1>2, <1>3, TakenAhead
  <1> HIDE DEF e, f
  <1>7. /\ e \in DeviceEnvelopes /\ e.msg \in On
        /\ On' \subseteq On /\ On \subseteq On' \cup {e.msg}
        /\ OneAck => OneAck' /\ (e.msg \in AckMsgs => On' \cap AckMsgs = {})
        /\ OneResult => OneResult' /\ (e.msg = "ClubResult" => "ClubResult" \notin On')
        /\ OneProcessed => OneProcessed' /\ (e.msg = "PROCESSED" => "PROCESSED" \notin On')
        /\ OneIdle => OneIdle' /\ (e.msg = "IDLE" => "IDLE" \notin On')
    BY <1>2, <1>3, TakenFacts
  <1>8. Takes(e) BY <1>1, <1>2, <1>5, <1>6, <1>7 DEF Takes
  <1>9. TakenAt(e, 1) BY <1>2, <1>3 DEF TakenAt
  <1> QED BY <1>1, <1>8, <1>9 DEF e

LEMMA ReadIsTaken ==
  ASSUME OnTheWay, ReceiveRead
  PROVE  \E e, k : Receive(e, k) /\ Takes(e) /\ TakenAt(e, k)
  <1>1. pending = <<>> /\ pending \in Seq(DeviceEnvelopes) /\ wire \in Seq(DeviceEnvelopes)
    BY DEF ReceiveRead, OnTheWay
  <1>2. PICK k \in 1..Len(wire) :
          LET frames == SubSeq(wire, 1, k) IN
          /\ Receive(First(frames), k)
          /\ pending' = Stash(frames)
          /\ wire' = SubSeq(wire, k + 1, Len(wire))
    BY DEF ReceiveRead
  <1> DEFINE frames == SubSeq(wire, 1, k)
             e == First(frames)
             p == Stash(frames)
             v == SubSeq(wire, k + 1, Len(wire))
  <1>3. Receive(e, k) /\ pending' = p /\ wire' = v BY <1>2
  <1>4. /\ e = wire[k] /\ e \in DeviceEnvelopes
        /\ p \in Seq(DeviceEnvelopes) /\ Len(p) = k - 1
        /\ \A i \in 1..(k - 1) : k - i \in 1..(k - 1) /\ p[k - i] = wire[i]
        /\ v \in Seq(DeviceEnvelopes)
        /\ Reverse(p) \o v = Without(wire, k)
    BY <1>1, ReadTaken
  <1>5. Line = wire
    <2>1. /\ Reverse(pending) \in Seq(DeviceEnvelopes) /\ Len(Reverse(pending)) = Len(pending)
      BY <1>1, ReverseIs
    <2>2. Len(pending) = 0 BY <1>1
    <2>3. Reverse(pending) = <<>> BY <2>1, <2>2, EmptySeq
    <2>4. <<>> \o wire = wire BY <1>1
    <2> QED BY <2>3, <2>4 DEF Line
  <1> HIDE DEF e, p, v
  <1>6. Line' = Without(Line, k) BY <1>3, <1>4, <1>5 DEF Line
  <1>7. Held = {} BY <1>1 DEF Held, MsgsIn
  <1>8. k \in 1..Len(Line) /\ Line[k] = e BY <1>4, <1>5
  <1>9. TriggerFirst => TriggerFirst' /\ (e.msg = "PROCESSED" /\ "BALL TRIGGER" \in On' =>
                                            "BALL TRIGGER" \in Held')
    <2> HAVE TriggerFirst
    <2>1. TriggerFirst' BY <1>6, <1>8, TakenAhead
    <2>2. ASSUME e.msg = "PROCESSED", "BALL TRIGGER" \in On' PROVE "BALL TRIGGER" \in Held'
      <3>1. PICK i \in 1..Len(Line) : i < k /\ Line[i].msg = "BALL TRIGGER"
        BY <1>6, <1>8, <2>2, TakenAhead
      <3>0. Len(wire) \in Nat BY <1>1
      <3>2. i \in 1..(k - 1)
        <4>1. i \in 1..Len(wire) /\ k \in 1..Len(wire) BY <1>5
        <4>2. i < k BY <3>1
        <4> HIDE <3>1
        <4> QED BY <3>0, <4>1, <4>2
      <3>3. k - i \in 1..Len(p) /\ p[k - i] = wire[i] BY <1>4, <3>2
      <3>4. Held' = MsgsIn(p) BY <1>3 DEF Held, MsgsIn
      <3> QED BY <1>5, <3>1, <3>3, <3>4 DEF MsgsIn
    <2> QED BY <2>1, <2>2
  <1>10. /\ e \in DeviceEnvelopes /\ e.msg \in On
         /\ On' \subseteq On /\ On \subseteq On' \cup {e.msg}
         /\ OneAck => OneAck' /\ (e.msg \in AckMsgs => On' \cap AckMsgs = {})
         /\ OneResult => OneResult' /\ (e.msg = "ClubResult" => "ClubResult" \notin On')
         /\ OneProcessed => OneProcessed' /\ (e.msg = "PROCESSED" => "PROCESSED" \notin On')
         /\ OneIdle => OneIdle' /\ (e.msg = "IDLE" => "IDLE" \notin On')
    BY <1>6, <1>8, TakenFacts
  <1>11. Takes(e) BY <1>3, <1>4, <1>7, <1>9, <1>10 DEF Takes
  <1>12. k = 1 \/ k > 1 BY <1>1
  <1>13. TakenAt(e, k) BY <1>6, <1>8, <1>12 DEF TakenAt
  <1> QED BY <1>3, <1>11, <1>13

LEMMA Arrival ==
  ASSUME OnTheWay, Arrives
  PROVE  \E e, k : Receive(e, k) /\ Takes(e) /\ TakenAt(e, k)
  <1>1. CASE ReceivePending BY <1>1, PendingTaken
  <1>2. CASE ReceiveRead BY <1>2, ReadIsTaken
  <1> QED BY <1>1, <1>2 DEF Arrives

-----------------------------------------------------------------------------
(* Commands reach the device in order.                                     *)

LEMMA JoinedCmds ==
  ASSUME NEW s \in Seq(Commands), NEW t \in Seq(Commands)
  PROVE  s \o t \in Seq(Commands) /\ CmdsIn(s \o t) = CmdsIn(s) \cup CmdsIn(t)
  <1> DEFINE w == s \o t
  <1>1. /\ w \in Seq(Commands)
        /\ Len(w) = Len(s) + Len(t) /\ Len(s) \in Nat /\ Len(t) \in Nat
        /\ \A i \in 1..Len(s) : w[i] = s[i]
        /\ \A i \in 1..Len(t) : w[Len(s) + i] = t[i]
    OBVIOUS
  <1> HIDE DEF w
  <1>2. \A i \in 1..Len(w) : i \in 1..Len(s) \/ \E j \in 1..Len(t) : i = Len(s) + j
    <2> TAKE i \in 1..Len(w)
    <2>1. CASE i <= Len(s) BY <1>1, <2>1
    <2>2. CASE i > Len(s)
      <3>1. i - Len(s) \in 1..Len(t) /\ i = Len(s) + (i - Len(s)) BY <1>1, <2>2
      <3> QED BY <3>1
    <2> QED BY <1>1, <2>1, <2>2
  <1>3. /\ \A i \in 1..Len(s) : i \in 1..Len(w)
        /\ \A i \in 1..Len(t) : Len(s) + i \in 1..Len(w)
    BY <1>1
  <1>4. ASSUME NEW i \in 1..Len(w) PROVE w[i].cmd \in CmdsIn(s) \cup CmdsIn(t)
    <2>1. CASE i \in 1..Len(s) BY <1>1, <2>1 DEF CmdsIn
    <2>2. CASE i \notin 1..Len(s)
      <3>1. PICK j \in 1..Len(t) : i = Len(s) + j BY <1>2, <2>2
      <3>2. w[i] = t[j] BY <1>1, <3>1
      <3> QED BY <3>2 DEF CmdsIn
    <2> QED BY <2>1, <2>2
  <1>5. CmdsIn(s) \subseteq CmdsIn(w) BY <1>1, <1>3 DEF CmdsIn
  <1>6. CmdsIn(t) \subseteq CmdsIn(w) BY <1>1, <1>3 DEF CmdsIn
  <1>7. CmdsIn(w) \subseteq CmdsIn(s) \cup CmdsIn(t) BY <1>4 DEF CmdsIn
  <1> QED BY <1>1, <1>5, <1>6, <1>7 DEF w

LEMMA WrittenAlone ==
  ASSUME inbox \in Seq(Commands), NEW u \in Seq(Commands), inbox' = inbox \o u,
         NEW cs, Alone(inbox, Asking(cs)),
         CmdsIn(u) \cap cs = {} \/ (Len(u) = 1 /\ Asked \cap cs = {})
  PROVE  Alone(inbox, Asking(cs))'
  <1> DEFINE S == Asking(cs)
             w == inbox \o u
  <1>1. Has(u, S) <=> CmdsIn(u) \cap cs # {} BY HasCmd
  <1>2. Has(inbox, S) <=> Asked \cap cs # {} BY HasCmd DEF Asked
  <1>3. S' = S BY DEF Asking
  <1>4. Alone(inbox, S) OBVIOUS
  <1> HIDE DEF S, w
  <1>5. Alone(u, S)
    <2>1. CASE Len(u) = 1 BY <2>1 DEF Alone
    <2>2. CASE CmdsIn(u) \cap cs = {} BY <1>1, <2>2 DEF Alone, Has
    <2> QED BY <2>1, <2>2
  <1>6. ~(Has(inbox, S) /\ Has(u, S)) BY <1>1, <1>2
  <1>7. Alone(w, S) BY <1>4, <1>5, <1>6, Joins DEF w
  <1>8. Alone(inbox, S)' BY <1>3, <1>7 DEF Alone, w
  <1> QED BY <1>8 DEF S

\* What is asked for when the client has written u.
LEMMA Written ==
  ASSUME inbox \in Seq(Commands), NEW u \in Seq(Commands), inbox' = inbox \o u
  PROVE  /\ inbox' \in Seq(Commands)
         /\ Asked' = Asked \cup CmdsIn(u)
         /\ OneAckAsked /\ (CmdsIn(u) \cap AckCmds = {} \/ (Len(u) = 1 /\ Asked \cap AckCmds = {})) =>
              OneAckAsked'
         /\ OneResultAsked /\ ("ShotResultReq" \notin CmdsIn(u)
                                 \/ (Len(u) = 1 /\ "ShotResultReq" \notin Asked)) =>
              OneResultAsked'
         /\ DataAckFirst /\ ~({"ShotDataAck", "ShotResultReq"} \subseteq CmdsIn(u))
              /\ ("ShotResultReq" \notin Asked \/ "ShotDataAck" \notin CmdsIn(u)) => DataAckFirst'
  <1>1. inbox' \in Seq(Commands) /\ Asked' = Asked \cup CmdsIn(u)
    <2>1. inbox \o u \in Seq(Commands) /\ CmdsIn(inbox \o u) = CmdsIn(inbox) \cup CmdsIn(u)
      BY JoinedCmds
    <2>2. Asked' = CmdsIn(inbox \o u) BY DEF Asked, CmdsIn
    <2> QED BY <2>1, <2>2 DEF Asked
  <1>2. OneAckAsked /\ (CmdsIn(u) \cap AckCmds = {} \/ (Len(u) = 1 /\ Asked \cap AckCmds = {})) =>
          OneAckAsked'
    BY WrittenAlone DEF OneAckAsked
  <1>3. OneResultAsked /\ ("ShotResultReq" \notin CmdsIn(u)
                             \/ (Len(u) = 1 /\ "ShotResultReq" \notin Asked)) => OneResultAsked'
    <2> HAVE OneResultAsked /\ ("ShotResultReq" \notin CmdsIn(u)
                                  \/ (Len(u) = 1 /\ "ShotResultReq" \notin Asked))
    <2> DEFINE cs == {"ShotResultReq"}
    <2>1. CmdsIn(u) \cap cs = {} \/ (Len(u) = 1 /\ Asked \cap cs = {}) OBVIOUS
    <2>2. Alone(inbox, Asking(cs)) BY DEF OneResultAsked
    <2> HIDE DEF cs
    <2>3. Alone(inbox, Asking(cs))' BY <2>1, <2>2, WrittenAlone
    <2> QED BY <2>3 DEF OneResultAsked, cs
  <1>4. DataAckFirst /\ ~({"ShotDataAck", "ShotResultReq"} \subseteq CmdsIn(u))
          /\ ("ShotResultReq" \notin Asked \/ "ShotDataAck" \notin CmdsIn(u)) => DataAckFirst'
    <2> HAVE DataAckFirst /\ ~({"ShotDataAck", "ShotResultReq"} \subseteq CmdsIn(u))
          /\ ("ShotResultReq" \notin Asked \/ "ShotDataAck" \notin CmdsIn(u))
    <2> DEFINE S == Asking({"ShotDataAck"})
               T == Asking({"ShotResultReq"})
               w == inbox \o u
    <2>0. /\ Has(inbox, T) <=> "ShotResultReq" \in Asked
          /\ Has(u, T) <=> "ShotResultReq" \in CmdsIn(u)
          /\ Has(u, S) <=> "ShotDataAck" \in CmdsIn(u)
      <3>1. Has(inbox, T) <=> Asked \cap {"ShotResultReq"} # {} BY HasCmd DEF Asked
      <3>2. Has(u, T) <=> CmdsIn(u) \cap {"ShotResultReq"} # {} BY HasCmd
      <3>3. Has(u, S) <=> CmdsIn(u) \cap {"ShotDataAck"} # {} BY HasCmd
      <3> HIDE DEF S, T
      <3> QED BY <3>1, <3>2, <3>3
    <2>1. ~(Has(inbox, T) /\ Has(u, S)) BY <2>0
    <2>2. ~(Has(u, S) /\ Has(u, T)) BY <2>0
    <2>3. Ahead(u, S, T) BY <2>2 DEF Ahead, Has
    <2>4. S' = S /\ T' = T BY DEF Asking
    <2>5. Ahead(inbox, S, T) BY DEF DataAckFirst
    <2> HIDE DEF S, T
    <2>6. Ahead(w, S, T) BY <2>1, <2>3, <2>5, Joins
    <2> HIDE DEF w
    <2>7. Ahead(inbox, S, T)' BY <2>4, <2>6 DEF Ahead, w
    <2> QED BY <2>7 DEF DataAckFirst, S, T
  <1> QED BY <1>1, <1>2, <1>3, <1>4

\* The device takes the command c.
Serves(c) ==
  /\ c \in Commands /\ c.cmd \in Asked
  /\ inbox' \in Seq(Commands)
  /\ Asked' \subseteq Asked /\ Asked \subseteq Asked' \cup {c.cmd}
  /\ OneAckAsked => OneAckAsked' /\ (c.cmd \in AckCmds => Asked' \cap AckCmds = {})
  /\ OneResultAsked =>
       OneResultAsked' /\ (c.cmd = "ShotResultReq" => "ShotResultReq" \notin Asked')
  /\ DataAckFirst => DataAckFirst' /\ (c.cmd = "ShotResultReq" => "ShotDataAck" \notin Asked')

LEMMA ServedAlone ==
  ASSUME inbox \in Seq(Commands), inbox # <<>>, inbox' = Tail(inbox),
         NEW cs, Alone(inbox, Asking(cs))
  PROVE  Alone(inbox, Asking(cs))' /\ (Head(inbox).cmd \in cs => Asked' \cap cs = {})
  <1> DEFINE S == Asking(cs)
             w == Without(inbox, 1)
  <1>1. 1 \in 1..Len(inbox) /\ Head(inbox) = inbox[1] /\ Head(inbox) \in Commands /\ inbox' = w
    BY TailIs
  <1>2. w \in Seq(Commands) BY <1>1, WithoutIs
  <1>3. S' = S BY DEF Asking
  <1>4. Alone(inbox, S) => Alone(w, S) BY <1>1, WithoutKeeps
  <1>5. Alone(inbox, S) /\ inbox[1] \in S => ~Has(w, S) BY <1>1, WithoutKeeps
  <1>6. Alone(inbox, S)'
    <2> HIDE DEF S, w
    <2> QED BY <1>1, <1>3, <1>4 DEF Alone, S, w
  <1>7. Head(inbox).cmd \in cs => Asked' \cap cs = {}
    <2> HAVE Head(inbox).cmd \in cs
    <2>1. inbox[1] \in S BY <1>1 DEF Asking
    <2>2. ~Has(w, S) BY <1>5, <2>1
    <2>3. CmdsIn(w) \cap cs = {} BY <1>2, <2>2, HasCmd
    <2>4. Asked' = CmdsIn(w) BY <1>1 DEF Asked, CmdsIn
    <2> QED BY <2>3, <2>4
  <1> QED BY <1>6, <1>7

LEMMA ServedFacts ==
  ASSUME inbox \in Seq(Commands), inbox # <<>>, inbox' = Tail(inbox)
  PROVE  Serves(Head(inbox))
  <1> DEFINE c == Head(inbox)
             w == Without(inbox, 1)
             n == Len(inbox) - 1
  <1>1. 1 \in 1..Len(inbox) /\ c = inbox[1] /\ c \in Commands /\ inbox' = w
    BY TailIs
  <1>2. /\ w \in Seq(Commands) /\ Len(w) = n
        /\ \A i \in 1..Len(inbox) : i > 1 => i - 1 \in 1..n /\ w[i - 1] = inbox[i]
    BY <1>1, WithoutIs
  <1>3. \A i \in 1..n : w[i] = inbox[i + 1] /\ i + 1 \in 1..Len(inbox)
    <2>1. Len(inbox) \in Nat OBVIOUS
    <2>2. \A i \in 1..n : i + 1 \in 1..Len(inbox) /\ i + 1 > 1 /\ (i + 1) - 1 = i BY <2>1
    <2> HIDE DEF w, n
    <2> QED BY <1>2, <2>2
  <1>4. Asked' = CmdsIn(w) BY <1>1 DEF Asked, CmdsIn
  <1> HIDE DEF c, w, n
  <1>5. c.cmd \in Asked BY <1>1 DEF Asked, CmdsIn
  <1>6. Asked' \subseteq Asked BY <1>2, <1>3, <1>4 DEF Asked, CmdsIn
  <1>7. Asked \subseteq Asked' \cup {c.cmd}
    <2>1. ASSUME NEW i \in 1..Len(inbox) PROVE inbox[i].cmd \in Asked' \cup {c.cmd}
      <3>1. CASE i = 1 BY <1>1, <3>1
      <3>2. CASE i # 1
        <4>1. i > 1 BY <3>2
        <4>2. i - 1 \in 1..n /\ w[i - 1] = inbox[i] BY <1>2, <4>1
        <4> QED BY <1>2, <1>4, <4>2 DEF CmdsIn
      <3> QED BY <3>1, <3>2
    <2> QED BY <2>1 DEF Asked, CmdsIn
  <1>8. OneAckAsked => OneAckAsked' /\ (c.cmd \in AckCmds => Asked' \cap AckCmds = {})
    BY ServedAlone DEF OneAckAsked, c
  <1>9. OneResultAsked =>
          OneResultAsked' /\ (c.cmd = "ShotResultReq" => "ShotResultReq" \notin Asked')
    <2> HAVE OneResultAsked
    <2> DEFINE cs == {"ShotResultReq"}
    <2>1. Alone(inbox, Asking(cs)) BY DEF OneResultAsked
    <2>2. "ShotResultReq" \in cs OBVIOUS
    <2> HIDE DEF cs
    <2>3. Alone(inbox, Asking(cs))' /\ (c.cmd \in cs => Asked' \cap cs = {})
      BY <2>1, ServedAlone DEF c
    <2>4. c.cmd = "ShotResultReq" => "ShotResultReq" \notin Asked' BY <2>2, <2>3
    <2> QED BY <2>3, <2>4 DEF OneResultAsked, cs
  <1>10. DataAckFirst =>
           DataAckFirst' /\ (c.cmd = "ShotResultReq" => "ShotDataAck" \notin Asked')
    <2> HAVE DataAckFirst
    <2> DEFINE S == Asking({"ShotDataAck"})
               T == Asking({"ShotResultReq"})
    <2>1. S' = S /\ T' = T BY DEF Asking
    <2>2. Ahead(inbox, S, T) BY DEF DataAckFirst
    <2>3. c.cmd = "ShotResultReq" => inbox[1] \in T BY <1>1 DEF Asking
    <2>4. Has(w, S) <=> CmdsIn(w) \cap {"ShotDataAck"} # {} BY <1>2, HasCmd
    <2> HIDE DEF S, T
    <2>5. Ahead(w, S, T) /\ (inbox[1] \in T => ~Has(w, S))
      <3>1. Ahead(inbox, S, T) => Ahead(w, S, T) BY <1>1, WithoutKeeps DEF w
      <3>2. Ahead(inbox, S, T) /\ inbox[1] \in T => ~Has(w, S) BY <1>1, WithoutKeeps DEF w
      <3> QED BY <2>2, <3>1, <3>2
    <2>6. Ahead(inbox, S, T)' BY <1>1, <2>1, <2>5 DEF Ahead
    <2>7. c.cmd = "ShotResultReq" => "ShotDataAck" \notin Asked' BY <1>4, <2>3, <2>4, <2>5
    <2> QED BY <2>6, <2>7 DEF DataAckFirst, S, T
  <1>11. c \in Commands /\ inbox' \in Seq(Commands) BY <1>1, <1>2
  <1>12. Serves(c) BY <1>5, <1>6, <1>7, <1>8, <1>9, <1>10, <1>11 DEF Serves
  <1> QED BY <1>12 DEF c

-----------------------------------------------------------------------------
(* What a session consists of: operations of four kinds and shots.         *)

SessionOps == {"ConfigureAvr", "Arm", "Keepalive"}
FedKinds == {"Disarm", "AvrConfig", "Arm", "Shot"}

SessionQueue(q) == \A i \in 1..Len(q) : q[i].op \in SessionOps

InSession ==
  /\ Inv
  /\ SessionQueue(queue)
  /\ active.kind \in {"None", "Keepalive"} \cup FedKinds
  /\ active.kind \in FedKinds => active.step # "Done"
  /\ OnTheWay

At(kind, step) == active.kind = kind /\ active.step = step
Free == active.kind \in {"None", "Keepalive"}
Drains == At("Shot", "Draining")

(* What a step of the client does to the active operation.                 *)

Stands == active' = active /\ out' = <<>>
Drops == active.kind = "Keepalive" /\ active' = NoOp /\ out' = <<>>
Begins ==
  /\ Free
  /\ \/ At("Disarm", "WaitAck")' /\ AsksFor(out', "Commit")
     \/ At("AvrConfig", "WaitInitGateAck")' /\ AsksFor(out', "Commit")
     \/ /\ At("Arm", "WaitDspStatus")' /\ AsksFor(out', "StatusPoll")
        /\ out' = <<Cmd("StatusPoll", "Dsp")>> /\ active'.got = {}
     \/ At("Keepalive", "Collecting")' /\ CmdsIn(out') = {"StatusPoll"}
GivesUp ==
  /\ Drains /\ active.timer = 0
  /\ At("Shot", "WaitingForArmAck")' /\ AsksFor(out', "Arm")

LEMMA QueueHead ==
  ASSUME InSession, queue # <<>>
  PROVE  Head(queue) \in QueuedOps /\ Head(queue).op \in SessionOps
  <1>1. queue \in Seq(QueuedOps) BY DEF InSession, Inv, TypeOK
  <1>2. Head(queue) = queue[1] /\ 1 \in 1..Len(queue) /\ Head(queue) \in QueuedOps
    BY <1>1
  <1> QED BY <1>2 DEF InSession, SessionQueue

LEMMA NewSeqIs ==
  ASSUME NEW kind \in Kinds, NEW cfg
  PROVE  /\ NewSeq(kind, cfg).kind = kind /\ NewSeq(kind, cfg).step = FirstStep[kind]
         /\ NewSeq(kind, cfg).timer = Unset /\ NewSeq(kind, cfg).got = {}
  BY DEF NewSeq

LEMMA BeginsIs ==
  ASSUME InSession, Free, StartHead
  PROVE  Begins
  <1> DEFINE kind == KindFor(Head(queue))
  <1>1. queue # <<>> /\ active' = NewSeq(kind, Head(queue).cfg) /\ out' = InitialSends[kind]
    BY DEF StartHead, TakeHead
  <1>2. Head(queue) \in QueuedOps /\ Head(queue).op \in SessionOps BY <1>1, QueueHead
  <1>3. kind \in {"Disarm", "AvrConfig", "Arm", "Keepalive"}
    BY <1>2 DEF KindFor, SequencerOf, SessionOps
  <1>4. kind \in Kinds BY <1>3 DEF Kinds, FirstStep
  <1> HIDE DEF kind
  <1>5. active'.kind = kind /\ active'.step = FirstStep[kind] /\ active'.got = {} BY <1>1, <1>4, NewSeqIs
  <1>6. /\ AsksFor(<<Cmd("Commit", "Avr")>>, "Commit")
        /\ AsksFor(<<Cmd("StatusPoll", "Dsp")>>, "StatusPoll")
    BY OneCommand
  <1>7. CmdsIn(PollAll) = {"StatusPoll"} BY DEF CmdsIn, PollAll, Cmd
  <1>8. CASE kind = "Disarm"
    <2>1. InitialSends[kind] = <<Cmd("Commit", "Avr")>> BY <1>8 DEF InitialSends
    <2>2. FirstStep[kind] = "WaitAck" BY <1>8 DEF FirstStep
    <2> QED BY <1>1, <1>5, <1>6, <1>8, <2>1, <2>2 DEF Begins, At
  <1>9. CASE kind = "AvrConfig"
    <2>1. InitialSends[kind] = <<Cmd("Commit", "Avr")>> BY <1>9 DEF InitialSends
    <2>2. FirstStep[kind] = "WaitInitGateAck" BY <1>9 DEF FirstStep
    <2> QED BY <1>1, <1>5, <1>6, <1>9, <2>1, <2>2 DEF Begins, At
  <1>10. CASE kind = "Arm"
    <2>1. InitialSends[kind] = <<Cmd("StatusPoll", "Dsp")>> BY <1>10 DEF InitialSends
    <2>2. FirstStep[kind] = "WaitDspStatus" BY <1>10 DEF FirstStep
    <2> QED BY <1>1, <1>5, <1>6, <1>10, <2>1, <2>2 DEF Begins, At
  <1>11. CASE kind = "Keepalive"
    <2>1. InitialSends[kind] = PollAll BY <1>11 DEF InitialSends
    <2>2. FirstStep[kind] = "Collecting" BY <1>11 DEF FirstStep
    <2> QED BY <1>1, <1>5, <1>7, <1>11, <2>1, <2>2 DEF Begins, At
  <1> QED BY <1>3, <1>8, <1>9, <1>10, <1>11

\* A step of poll() in which nothing is received.
LEMMA AloneMoves ==
  ASSUME InSession, PollAlone
  PROVE  /\ armed' = armed /\ inbox' = inbox \o out' /\ mode' = mode /\ swallowed' = swallowed
         /\ wire' = wire /\ pending' = pending
         /\ Stands \/ Drops \/ Begins \/ GivesUp
  <1>0. TypeOK BY DEF InSession, Inv
  <1>1. inbox' = inbox \o out' /\ mode' = mode /\ swallowed' = swallowed
          /\ wire' = wire /\ pending' = pending
    BY DEF PollAlone, Writes, deviceVars
  <1>2. CASE DeadlineOpen \/ OperationTimesOut \/ NothingToStart \/ RecvNothing
    BY <1>1, <1>2
       DEF DeadlineOpen, OperationTimesOut, NothingToStart, RecvNothing, opVars, shotVars, Stands
  <1>3. CASE KeepaliveTimesOut
    BY <1>1, <1>3 DEF KeepaliveTimesOut, OpOver, shotVars, Drops
  <1>4. CASE StartNext
    <2>1. Free /\ StartHead /\ armed' = armed BY <1>4 DEF StartNext, Free, NoOp, shotVars
    <2> QED BY <1>1, <2>1, BeginsIs
  <1>5. CASE CheckTimers
    <2>1. armed' = armed BY <1>5 DEF CheckTimers, shotVars
    <2>2. CASE ActiveTimerDue
      <3>1. active \in Sequencer /\ TimerDue(active) BY <1>0, <2>2, ActiveTyped DEF ActiveTimerDue
      <3>2. active' = TimedOut(active) /\ out' = TimeoutSends(active)
        BY <1>5, <2>2 DEF CheckTimers
      <3>3. Drains /\ active.timer = 0
        BY <3>1 DEF TimerDue, Drains, At, InSession, FedKinds
      <3>4. active'.step = "WaitingForArmAck" /\ active'.kind = "Shot"
        BY <3>1, <3>2, <3>3 DEF TimedOut, GiveUp, Drains, At, Sequencer
      <3>5. GiveUp[active.step].cmd = "Arm" BY <3>3 DEF GiveUp, Drains, At
      <3>6. out' = <<Cmd("Arm", "Avr")>> BY <3>2, <3>5 DEF TimeoutSends
      <3> QED BY <1>1, <2>1, <3>3, <3>4, <3>6, OneCommand DEF GivesUp, At
    <2>3. CASE ~ActiveTimerDue BY <1>1, <1>5, <2>1, <2>3 DEF CheckTimers, Stands
    <2> QED BY <2>2, <2>3
  <1> QED BY <1>2, <1>3, <1>4, <1>5 DEF PollAlone

(* What a receipt of e does, when no message of a shot is swallowed.       *)

NotAShot(e) == e.msg \notin {"BALL TRIGGER", "PROCESSED"}

Passes(e) ==
  /\ Free /\ active'.kind = active.kind /\ out' = <<>>
  /\ e.msg # "PROCESSED"
  /\ armed' = (armed /\ e.msg # "BALL TRIGGER")
ShotBegins(e) ==
  /\ Free /\ e.msg = "PROCESSED" /\ armed' = armed
  /\ At("Shot", "Draining")' /\ active'.timer = Unset
  /\ active'.got = {} /\ opLeft' = OpTimeout
  /\ CmdsIn(out') = {"ShotDataAck"}
KeepaliveEnds(e) ==
  /\ NotAShot(e) /\ armed' = armed
  /\ Drops \/ Begins
MovesOn(m) ==
  /\ active.kind = "Disarm" => DisarmMove(active, m, active', out')
  /\ active.kind = "AvrConfig" => AvrConfigMove(active, m, active', out')
  /\ active.kind = "Arm" => ArmMove(active, m, active', out')
  /\ active.kind = "Shot" => /\ ShotMove(active, m, active', out')
                             /\ active'.timer \in {active.timer, DrainTimeout}
IsFed(e) ==
  /\ active.kind \in FedKinds /\ NotAShot(e) /\ armed' = armed
  /\ active'.kind = active.kind /\ active'.step # "Done"
  /\ active' = Fed(active, e) /\ out' = Replies(active, e) /\ opLeft' = opLeft
  /\ MovesOn(e.msg)
IsDone(e) ==
  /\ active' = NoOp /\ out' = <<>> /\ NotAShot(e)
  /\ \/ At("Disarm", "WaitStateIdle") /\ armed' = FALSE
     \/ /\ active.kind = "AvrConfig" /\ active.step \in ConfigAckSteps /\ armed' = armed
        /\ e.msg = "ConfigAck"
     \/ At("Arm", "WaitPiAndArmed") /\ armed' = TRUE
     \/ At("Shot", "WaitingForArmed") /\ armed' = TRUE

LEMMA FedMoves ==
  ASSUME InSession, active.kind \in FedKinds, NEW e
  PROVE  LET t == Fed(active, e)
             u == Replies(active, e)
         IN /\ active \in Sequencer /\ t \in Sequencer /\ t.kind = active.kind
            /\ active.kind = "Disarm" => DisarmMove(active, e.msg, t, u)
            /\ active.kind = "AvrConfig" => AvrConfigMove(active, e.msg, t, u)
            /\ active.kind = "Arm" => ArmMove(active, e.msg, t, u)
            /\ active.kind = "Shot" => /\ ShotMove(active, e.msg, t, u)
                                       /\ t.timer \in {active.timer, DrainTimeout}
  <1>1. active \in Sequencer
    BY ActiveTyped DEF InSession, Inv, FedKinds
  <1> QED BY <1>1, FedTyped, DisarmMoves, AvrConfigMoves, ArmMoves, ShotMoves

LEMMA ReceiptMoves ==
  ASSUME InSession, NEW e, NEW k, Receive(e, k), ~swallowed'
  PROVE  /\ inbox' = inbox \o out' /\ mode' = mode /\ ~swallowed
         /\ Passes(e) \/ ShotBegins(e) \/ KeepaliveEnds(e) \/ IsFed(e) \/ IsDone(e)
  <1>0. TypeOK /\ (active.kind = "None" <=> active = NoOp) BY ActiveTyped DEF InSession, Inv
  <1>1. /\ Handle(e) /\ inbox' = inbox \o out' /\ mode' = mode /\ ~swallowed
        /\ ~(Feeds(e) /\ e.msg \in Foreign)
    BY DEF Receive, Writes, deviceVars
  <1>2. Feeds(e) => NotAShot(e)
    BY <1>1 DEF Foreign, ShotMessages, NotAShot
  <1>3. ~Feeds(e) => Free
    BY <1>0 DEF Feeds, Dominated, Free
  <1>4. Feeds(e) => active.kind \in FedKinds \cup {"Keepalive"}
    BY <1>0 DEF Feeds, InSession
  <1>5. ~SendMayFail BY SessionAssumption
  <1>6. CASE Trigger(e) \/ PassOn(e)
    <2>1. ~Feeds(e) /\ active' = active /\ out' = <<>>
      BY <1>6 DEF Trigger, PassOn, Unclaimed, opVars
    <2>2. e.msg # "PROCESSED" /\ armed' = (armed /\ e.msg # "BALL TRIGGER")
      BY <1>0, <1>6 DEF Trigger, PassOn, shotVars, TypeOK
    <2> QED BY <1>1, <1>3, <2>1, <2>2 DEF Passes
  <1>7. CASE Processed(e)
    <2>1. ~Feeds(e) /\ e.msg = "PROCESSED" /\ armed' = armed
          /\ active' = NewSeq("Shot", NoSettings) /\ out' = InitialSends["Shot"]
          /\ opLeft' = OpTimeout
      BY <1>7 DEF Processed, Unclaimed, shotVars
    <2>2. "Shot" \in Kinds /\ FirstStep["Shot"] = "Draining" BY DEF Kinds, FirstStep
    <2>3. /\ active'.kind = "Shot" /\ active'.step = "Draining" /\ active'.timer = Unset
          /\ active'.got = {}
      BY <2>1, <2>2, NewSeqIs
    <2>4. CmdsIn(out') = {"ShotDataAck"} BY <2>1 DEF InitialSends, CmdsIn, Cmd
    <2> QED BY <1>1, <1>3, <2>1, <2>3, <2>4 DEF ShotBegins, At
  <1>8. CASE FeedActive(e)
    <2>1. Feeds(e) /\ ~Completes(e) /\ active' = Fed(active, e) /\ out' = Replies(active, e)
            /\ armed' = armed /\ opLeft' = opLeft
      BY <1>8 DEF FeedActive, shotVars
    <2>2. CASE active.kind = "Keepalive"
      <3>1. active \in Sequencer BY <1>0, <2>2, ActiveTyped
      <3>2. active'.kind = "Keepalive" BY <2>1, <2>2, <3>1, FedTyped
      <3>3. Replies(active, e) = <<>>
        <4>1. CASE Fed(active, e) = active /\ Replies(active, e) = <<>> BY <4>1
        <4>2. CASE \E r \in Rows(active) : Replies(active, e) = r.send
          <5>1. PICK r \in Rows(active) : Replies(active, e) = r.send BY <4>2
          <5>2. r \in KeepaliveScript["Collecting"]
            BY <2>2, <5>1 DEF Rows, Script, KeepaliveScript
          <5> QED BY <5>1, <5>2 DEF KeepaliveScript, Row
        <4> QED BY <3>1, <4>1, <4>2, RowTaken
      <3>4. armed' = (armed /\ e.msg # "BALL TRIGGER") /\ e.msg # "PROCESSED"
        BY <1>0, <1>2, <2>1 DEF NotAShot, TypeOK
      <3> QED BY <1>1, <2>1, <2>2, <3>2, <3>3, <3>4 DEF Passes, Free
    <2>3. CASE active.kind \in FedKinds
      <3>1. active'.step # "Done" BY <2>1 DEF Completes, IsComplete
      <3>2. active'.kind = active.kind /\ MovesOn(e.msg) BY <2>1, <2>3, FedMoves DEF MovesOn
      <3> QED BY <1>1, <1>2, <2>1, <2>3, <3>1, <3>2 DEF IsFed
    <2> QED BY <1>4, <2>1, <2>2, <2>3
  <1>9. CASE FinishDisarm(e) \/ FinishConfigure(e) \/ FinishArm(e) \/ FinishShot(e)
    <2>1. /\ active.kind \in {"Disarm", "AvrConfig", "Camera", "Arm", "Shot"} /\ Completes(e)
          /\ active' = NoOp /\ out' = <<>>
      BY <1>9 DEF FinishDisarm, FinishConfigure, FinishArm, FinishShot, Finish, OpOver
    <2>2. active.kind \in FedKinds /\ NotAShot(e) BY <1>2, <1>4, <2>1 DEF Completes, FedKinds
    <2>3. Fed(active, e).step = "Done"
      <3>1. Fed(active, e).kind # "Keepalive" BY <2>2, FedMoves DEF FedKinds
      <3> QED BY <2>1, <3>1 DEF Completes, IsComplete
    <2>4. active.step # "Done" BY <2>2 DEF InSession, FedKinds
    <2>5. CASE active.kind = "Disarm"
      <3>1. armed' = FALSE
        BY <1>9, <2>5 DEF FinishDisarm, FinishConfigure, FinishArm, FinishShot, Finish
      <3>2. active.step = "WaitStateIdle"
        BY <2>2, <2>3, <2>4, <2>5, FedMoves DEF DisarmMove
      <3> QED BY <1>1, <2>1, <2>2, <2>5, <3>1, <3>2 DEF IsDone, At
    <2>6. CASE active.kind = "AvrConfig"
      <3>1. armed' = armed
        BY <1>9, <2>6 DEF FinishDisarm, FinishConfigure, FinishArm, FinishShot, Finish, shotVars
      <3>2. active.step \in ConfigAckSteps /\ e.msg = "ConfigAck"
        BY <2>2, <2>3, <2>4, <2>6, FedMoves DEF AvrConfigMove
      <3> QED BY <1>1, <2>1, <2>2, <2>6, <3>1, <3>2 DEF IsDone, At
    <2>7. CASE active.kind = "Arm"
      <3>1. armed' = TRUE
        BY <1>9, <2>7 DEF FinishDisarm, FinishConfigure, FinishArm, FinishShot, Finish
      <3>2. active.step = "WaitPiAndArmed"
        BY <2>2, <2>3, <2>4, <2>7, FedMoves DEF ArmMove
      <3> QED BY <1>1, <2>1, <2>2, <2>7, <3>1, <3>2 DEF IsDone, At
    <2>8. CASE active.kind = "Shot"
      <3>1. armed' = TRUE
        BY <1>9, <2>8 DEF FinishDisarm, FinishConfigure, FinishArm, FinishShot, Finish
      <3>2. active.step = "WaitingForArmed"
        BY <2>2, <2>3, <2>4, <2>8, FedMoves DEF ShotMove
      <3> QED BY <1>1, <2>1, <2>2, <2>8, <3>1, <3>2 DEF IsDone, At
    <2> QED BY <2>2, <2>5, <2>6, <2>7, <2>8 DEF FedKinds
  <1>10. CASE FinishKeepalive(e) \/ FinishKeepaliveAndStart(e)
    <2>1. active.kind = "Keepalive" /\ Feeds(e) /\ armed' = armed
      BY <1>10 DEF FinishKeepalive, FinishKeepaliveAndStart, KeepaliveDone, Completes, shotVars
    <2>2. Drops \/ Begins
      BY <1>10, <2>1, BeginsIs DEF FinishKeepalive, FinishKeepaliveAndStart, OpOver, Drops, Free
    <2> QED BY <1>1, <1>2, <2>1, <2>2 DEF KeepaliveEnds
  <1>11. ~NextPhase(e) /\ ~NextPhaseFails(e) /\ ~HandshakeDone(e)
    BY DEF NextPhase, NextPhaseFails, HandshakeDone, NextKind, InSession, FedKinds
  <1>12. ~FeedFails(e) /\ ~FinishKeepaliveStartFails(e) /\ ~ProcessedFails(e)
    BY <1>5 DEF FeedFails, FinishKeepaliveStartFails, StartHeadFails, ProcessedFails, WriteFails
  <1> QED BY <1>1, <1>6, <1>7, <1>8, <1>9, <1>10, <1>11, <1>12 DEF Handle

-----------------------------------------------------------------------------
(* What the device does: what it sends, in the order of t.                 *)

Statuses == {"DspStatus", "DspStatus6", "AvrStatus", "PiStatus"}

\* The data of a shot is ahead of its IDLE, behind its trigger.
DataFirst(t) == Ahead(t, Saying(ShotData), Saying({"IDLE"}))
DataLed(t) == Led(t, Saying(ShotData), Saying({"BALL TRIGGER"}))

\* An acknowledgement is ahead of what it announces.
Sequel(t, a, b) == HasPair(t, Saying({a}), Saying({b}))
Sequels(t, a, b, c) == HasTriple(t, Saying({a}), Saying({b}), Saying({c}))
AckAnnounces(t) ==
  /\ "ARMED" \in MsgsIn(t) => Sequel(t, "ConfigAck", "ARMED")
  /\ "ARMED CANCELLED" \in MsgsIn(t) =>
       Sequels(t, "ConfigAck", "ARMED CANCELLED", "System State")

Hits(t) ==
  /\ mode = "armed" /\ mode' = "triggered" /\ inbox' = inbox /\ shots' = shots + 1
  /\ DataLed(t)
  /\ MsgsIn(t) = {"BALL TRIGGER", "FlightResultV1"}
Measures(t) ==
  /\ mode = "triggered" /\ AwaitsAck' /\ inbox' = inbox /\ shots' = shots
  /\ MsgsIn(t) = {"FlightResult", "PROCESSED"}
Replied(x, ms) ==
  \/ mode' = mode /\ x = "StatusPoll" /\ ms \subseteq Statuses
  \/ mode' = mode /\ x = "ParamValue" /\ ms = {"ConfigAck"}
  \/ mode' = mode /\ x = "ModeSet" /\ ms = {"ModeSet"}
  \/ mode' = mode /\ x = "RadarCal" /\ ms = {"RadarCal"}
  \/ mode' = mode /\ x = "ShotResultReq" /\ ms = {"ClubResult"}
  \/ /\ x = "Commit" /\ mode = "armed" /\ mode' = "disarmed"
     /\ ms = {"ConfigAck", "ARMED CANCELLED", "System State", "ModeAck"}
  \/ x = "Commit" /\ mode # "armed" /\ mode' = mode /\ ms = {"ConfigAck"}
  \/ x = "Arm" /\ ~InShot /\ mode' = "armed" /\ ms = {"ConfigAck", "ARMED"}
  \/ x = "Arm" /\ InShot /\ mode' = mode /\ ms = {"ConfigNack"}
  \/ /\ x = "ShotDataAck" /\ AwaitsAck /\ mode' = "disarmed"
     /\ \/ mode = "processed" /\ ms = {"SpinResult", "System State", "ModeAck", "IDLE"}
        \/ mode # "processed" /\ ms = {"SpinResult", "System State", "ModeAck"}
  \/ x = "ShotDataAck" /\ ~AwaitsAck /\ mode' = mode /\ ms = {}
StatusReplied(c, ms) ==
  c.cmd = "StatusPoll" =>
    /\ c.dest = "Dsp" => ms \cap {"DspStatus", "DspStatus6"} # {}
    /\ c.dest = "Avr" => "AvrStatus" \in ms
    /\ c.dest = "Pi" => "PiStatus" \in ms
TakesOne(t) ==
  /\ inbox # <<>> /\ inbox' = Tail(inbox) /\ shots' = shots
  /\ Replied(Head(inbox).cmd, MsgsIn(t)) /\ StatusReplied(Head(inbox), MsgsIn(t))

DeviceSends(t) ==
  /\ t \in Seq(DeviceEnvelopes) /\ AllDiffer(t) /\ DataFirst(t) /\ wire' = wire \o t
  /\ AckAnnounces(t)
  /\ owed' \subseteq owed \cup (MsgsIn(t) \cap ShotData)
  /\ Hits(t) \/ Measures(t) \/ TakesOne(t)

LEMMA EnvelopesSent ==
  /\ \A m \in {"DspStatus", "DspStatus6", "System State"} : Dsp(m) \in DeviceEnvelopes
  /\ Pi("PiStatus") \in DeviceEnvelopes
  /\ \A m \in {"AvrStatus", "ConfigAck", "ConfigNack", "ARMED", "ARMED CANCELLED",
               "ModeAck", "ModeSet", "RadarCal", "BALL TRIGGER", "FlightResultV1",
               "FlightResult", "PROCESSED", "SpinResult", "IDLE", "ClubResult"} :
       Avr(m) \in DeviceEnvelopes
  /\ \A m : Avr(m).msg = m /\ Dsp(m).msg = m /\ Pi(m).msg = m
  BY DEF DeviceEnvelopes, Avr, Dsp, Pi

\* t is sent, and says ms.
Says(t, ms) ==
  t \in Seq(DeviceEnvelopes) /\ AllDiffer(t) /\ DataFirst(t) /\ MsgsIn(t) = ms

LEMMA WithoutIdle ==
  ASSUME NEW t \in Seq(DeviceEnvelopes), "IDLE" \notin MsgsIn(t)
  PROVE  DataFirst(t)
  BY DEF DataFirst, Ahead, Saying, MsgsIn

LEMMA SaysNothing == Says(<<>>, {})
  <1>1. <<>> \in Seq(DeviceEnvelopes) /\ AllDiffer(<<>>) /\ MsgsIn(<<>>) = {}
    BY DEF AllDiffer, MsgsIn
  <1> QED BY <1>1, WithoutIdle DEF Says

LEMMA SaysOne ==
  ASSUME NEW a \in DeviceEnvelopes, a.msg # "IDLE"
  PROVE  Says(<<a>>, {a.msg})
  <1>1. <<a>> \in Seq(DeviceEnvelopes) /\ AllDiffer(<<a>>) /\ MsgsIn(<<a>>) = {a.msg}
    BY DEF AllDiffer, MsgsIn
  <1>2. "IDLE" \notin MsgsIn(<<a>>) BY <1>1
  <1> QED BY <1>1, <1>2, WithoutIdle DEF Says

LEMMA SaysMore ==
  ASSUME NEW s, NEW ms, Says(s, ms), NEW a \in DeviceEnvelopes, a.msg \notin ms, "IDLE" \notin ms
  PROVE  Says(s \o <<a>>, ms \cup {a.msg})
  <1> DEFINE w == s \o <<a>>
             n == Len(s)
  <1>1. s \in Seq(DeviceEnvelopes) /\ AllDiffer(s) /\ MsgsIn(s) = ms BY DEF Says
  <1>2. /\ w \in Seq(DeviceEnvelopes) /\ n \in Nat /\ Len(w) = n + 1
        /\ \A i \in 1..n : w[i] = s[i]
        /\ w[n + 1] = a
    BY <1>1
  <1>3. \A i \in 1..Len(w) : (i \in 1..n /\ w[i] = s[i] /\ s[i].msg \in ms) \/ (i = n + 1 /\ w[i] = a)
    BY <1>1, <1>2 DEF MsgsIn
  <1>8. DataFirst(w)
    <2> DEFINE S == Saying(ShotData)
               T == Saying({"IDLE"})
    <2>1. ASSUME NEW i \in 1..Len(w), NEW j \in 1..Len(w), w[i] \in S, w[j] \in T PROVE i < j
      <3>1. w[i].msg \in ShotData /\ w[j].msg = "IDLE" BY <2>1 DEF Saying
      <3>2. w[i].msg # "IDLE" BY <3>1 DEF ShotData
      <3>3. j = n + 1 BY <1>3, <3>1
      <3>4. i # n + 1 BY <3>1, <3>2, <3>3
      <3>5. i \in 1..n BY <1>3, <3>4
      <3> QED BY <1>2, <3>3, <3>5
    <2> QED BY <2>1 DEF DataFirst, Ahead
  <1> HIDE DEF w
  <1>4. AllDiffer(w) BY <1>1, <1>3 DEF AllDiffer, n
  <1>5. \A i \in 1..n : i \in 1..Len(w) BY <1>2
  <1>6. n + 1 \in 1..Len(w) BY <1>2
  <1> HIDE DEF n
  <1>7. MsgsIn(w) = ms \cup {a.msg}
    <2>1. ASSUME NEW i \in 1..Len(w) PROVE w[i].msg \in ms \cup {a.msg} BY <1>3
    <2>2. ms \subseteq MsgsIn(w)
      <3>1. ASSUME NEW i \in 1..n PROVE s[i].msg \in MsgsIn(w) BY <1>2, <1>5 DEF MsgsIn
      <3> QED BY <1>1, <3>1 DEF MsgsIn, n
    <2>3. a.msg \in MsgsIn(w) BY <1>2, <1>6 DEF MsgsIn
    <2>4. MsgsIn(w) \subseteq ms \cup {a.msg} BY <2>1 DEF MsgsIn
    <2> QED BY <2>2, <2>3, <2>4
  <1> QED BY <1>2, <1>4, <1>7, <1>8 DEF Says, w

LEMMA SaysTwo ==
  ASSUME NEW a \in DeviceEnvelopes, NEW b \in DeviceEnvelopes, a.msg # b.msg,
         "IDLE" \notin {a.msg, b.msg}
  PROVE  Says(<<a, b>>, {a.msg, b.msg})
  <1> DEFINE t == <<a, b>>
  <1>1. t \in Seq(DeviceEnvelopes) /\ AllDiffer(t) /\ MsgsIn(t) = {a.msg, b.msg}
    BY DEF AllDiffer, MsgsIn
  <1> HIDE DEF t
  <1>2. DataFirst(t) BY <1>1, WithoutIdle
  <1> QED BY <1>1, <1>2 DEF Says, t

LEMMA SaysThree ==
  ASSUME NEW a \in DeviceEnvelopes, NEW b \in DeviceEnvelopes, NEW c \in DeviceEnvelopes,
         a.msg # b.msg, a.msg # c.msg, b.msg # c.msg, "IDLE" \notin {a.msg, b.msg, c.msg}
  PROVE  Says(<<a, b, c>>, {a.msg, b.msg, c.msg})
  <1> DEFINE t == <<a, b, c>>
  <1>1. t \in Seq(DeviceEnvelopes) /\ AllDiffer(t) /\ MsgsIn(t) = {a.msg, b.msg, c.msg}
    BY DEF AllDiffer, MsgsIn
  <1> HIDE DEF t
  <1>2. DataFirst(t) BY <1>1, WithoutIdle
  <1> QED BY <1>1, <1>2 DEF Says, t

LEMMA SaysFour ==
  ASSUME NEW a \in DeviceEnvelopes, NEW b \in DeviceEnvelopes, NEW c \in DeviceEnvelopes,
         NEW d \in DeviceEnvelopes,
         a.msg # b.msg, a.msg # c.msg, b.msg # c.msg, a.msg # d.msg, b.msg # d.msg, c.msg # d.msg,
         "IDLE" \notin {a.msg, b.msg, c.msg, d.msg}
  PROVE  Says(<<a, b, c, d>>, {a.msg, b.msg, c.msg, d.msg})
  <1> DEFINE t == <<a, b, c, d>>
  <1>1. t \in Seq(DeviceEnvelopes) /\ AllDiffer(t) /\ MsgsIn(t) = {a.msg, b.msg, c.msg, d.msg}
    BY DEF AllDiffer, MsgsIn
  <1> HIDE DEF t
  <1>2. DataFirst(t) BY <1>1, WithoutIdle
  <1> QED BY <1>1, <1>2 DEF Says, t

\* The messages the device sends together.
LEMMA Bundles ==
  /\ \A m \in {"ConfigAck", "ConfigNack", "ModeSet", "RadarCal", "ClubResult"} :
       Says(<<Avr(m)>>, {m})
  /\ Says(<<Avr("BALL TRIGGER"), Avr("FlightResultV1")>>, {"BALL TRIGGER", "FlightResultV1"})
  /\ Says(<<Avr("FlightResult"), Avr("PROCESSED")>>, {"FlightResult", "PROCESSED"})
  /\ Says(<<Avr("PROCESSED"), Avr("FlightResult")>>, {"FlightResult", "PROCESSED"})
  /\ Says(<<Avr("ConfigAck"), Avr("ARMED CANCELLED"), Dsp("System State"), Avr("ModeAck")>>,
          {"ConfigAck", "ARMED CANCELLED", "System State", "ModeAck"})
  /\ Says(<<Avr("ConfigAck"), Avr("ARMED")>>, {"ConfigAck", "ARMED"})
  /\ Says(<<Avr("SpinResult"), Dsp("System State"), Avr("ModeAck")>>,
          {"SpinResult", "System State", "ModeAck"})
  <1>1. ASSUME NEW m \in {"ConfigAck", "ConfigNack", "ModeSet", "RadarCal", "ClubResult"}
        PROVE  Says(<<Avr(m)>>, {m})
    <2>1. Avr(m) \in DeviceEnvelopes /\ Avr(m).msg = m BY EnvelopesSent
    <2>2. Says(<<Avr(m)>>, {Avr(m).msg}) BY <2>1, SaysOne
    <2> QED BY <2>1, <2>2
  <1>2. Says(<<Avr("BALL TRIGGER"), Avr("FlightResultV1")>>, {"BALL TRIGGER", "FlightResultV1"})
    <2> DEFINE a == Avr("BALL TRIGGER")
               b == Avr("FlightResultV1")
    <2>1. /\ a \in DeviceEnvelopes /\ a.msg = "BALL TRIGGER"
          /\ b \in DeviceEnvelopes /\ b.msg = "FlightResultV1"
      BY EnvelopesSent
    <2> HIDE DEF a, b
    <2>2. Says(<<a, b>>, {a.msg, b.msg}) BY <2>1, SaysTwo
    <2>3. {a.msg, b.msg} = {"BALL TRIGGER", "FlightResultV1"} BY <2>1
    <2> QED BY <2>2, <2>3 DEF a, b
  <1>3. Says(<<Avr("FlightResult"), Avr("PROCESSED")>>, {"FlightResult", "PROCESSED"})
    <2> DEFINE a == Avr("FlightResult")
               b == Avr("PROCESSED")
    <2>1. /\ a \in DeviceEnvelopes /\ a.msg = "FlightResult"
          /\ b \in DeviceEnvelopes /\ b.msg = "PROCESSED"
      BY EnvelopesSent
    <2> HIDE DEF a, b
    <2>2. Says(<<a, b>>, {a.msg, b.msg}) BY <2>1, SaysTwo
    <2>3. {a.msg, b.msg} = {"FlightResult", "PROCESSED"} BY <2>1
    <2> QED BY <2>2, <2>3 DEF a, b
  <1>4. Says(<<Avr("PROCESSED"), Avr("FlightResult")>>, {"FlightResult", "PROCESSED"})
    <2> DEFINE a == Avr("PROCESSED")
               b == Avr("FlightResult")
    <2>1. /\ a \in DeviceEnvelopes /\ a.msg = "PROCESSED"
          /\ b \in DeviceEnvelopes /\ b.msg = "FlightResult"
      BY EnvelopesSent
    <2> HIDE DEF a, b
    <2>2. Says(<<a, b>>, {a.msg, b.msg}) BY <2>1, SaysTwo
    <2>3. {a.msg, b.msg} = {"FlightResult", "PROCESSED"} BY <2>1
    <2> QED BY <2>2, <2>3 DEF a, b
  <1>5. Says(<<Avr("ConfigAck"), Avr("ARMED CANCELLED"), Dsp("System State"), Avr("ModeAck")>>,
             {"ConfigAck", "ARMED CANCELLED", "System State", "ModeAck"})
    <2> DEFINE a == Avr("ConfigAck")
               b == Avr("ARMED CANCELLED")
               c == Dsp("System State")
               d == Avr("ModeAck")
    <2>1. /\ a \in DeviceEnvelopes /\ a.msg = "ConfigAck"
          /\ b \in DeviceEnvelopes /\ b.msg = "ARMED CANCELLED"
          /\ c \in DeviceEnvelopes /\ c.msg = "System State"
          /\ d \in DeviceEnvelopes /\ d.msg = "ModeAck"
      BY EnvelopesSent
    <2> HIDE DEF a, b, c, d
    <2>2. Says(<<a, b, c, d>>, {a.msg, b.msg, c.msg, d.msg}) BY <2>1, SaysFour
    <2>3. {a.msg, b.msg, c.msg, d.msg} = {"ConfigAck", "ARMED CANCELLED", "System State", "ModeAck"} BY <2>1
    <2> QED BY <2>2, <2>3 DEF a, b, c, d
  <1>6. Says(<<Avr("ConfigAck"), Avr("ARMED")>>, {"ConfigAck", "ARMED"})
    <2> DEFINE a == Avr("ConfigAck")
               b == Avr("ARMED")
    <2>1. /\ a \in DeviceEnvelopes /\ a.msg = "ConfigAck"
          /\ b \in DeviceEnvelopes /\ b.msg = "ARMED"
      BY EnvelopesSent
    <2> HIDE DEF a, b
    <2>2. Says(<<a, b>>, {a.msg, b.msg}) BY <2>1, SaysTwo
    <2>3. {a.msg, b.msg} = {"ConfigAck", "ARMED"} BY <2>1
    <2> QED BY <2>2, <2>3 DEF a, b
  <1>7. Says(<<Avr("SpinResult"), Dsp("System State"), Avr("ModeAck")>>,
             {"SpinResult", "System State", "ModeAck"})
    <2> DEFINE a == Avr("SpinResult")
               b == Dsp("System State")
               c == Avr("ModeAck")
    <2>1. /\ a \in DeviceEnvelopes /\ a.msg = "SpinResult"
          /\ b \in DeviceEnvelopes /\ b.msg = "System State"
          /\ c \in DeviceEnvelopes /\ c.msg = "ModeAck"
      BY EnvelopesSent
    <2> HIDE DEF a, b, c
    <2>2. Says(<<a, b, c>>, {a.msg, b.msg, c.msg}) BY <2>1, SaysThree
    <2>3. {a.msg, b.msg, c.msg} = {"SpinResult", "System State", "ModeAck"} BY <2>1
    <2> QED BY <2>2, <2>3 DEF a, b, c
  <1> QED BY <1>1, <1>2, <1>3, <1>4, <1>5, <1>6, <1>7

Announces(t, ms) == ms \cap {"ARMED", "ARMED CANCELLED"} = {} \/ AckAnnounces(t)

LEMMA Announced ==
  ASSUME NEW t, NEW ms, Says(t, ms), Announces(t, ms)
  PROVE  AckAnnounces(t)
  BY DEF Says, Announces, AckAnnounces

LEMMA Acknowledgements ==
  /\ AckAnnounces(<<Avr("ConfigAck"), Avr("ARMED CANCELLED"), Dsp("System State"), Avr("ModeAck")>>)
  /\ AckAnnounces(<<Avr("ConfigAck"), Avr("ARMED")>>)
  <1>1. AckAnnounces(<<Avr("ConfigAck"), Avr("ARMED CANCELLED"), Dsp("System State"), Avr("ModeAck")>>)
    <2> DEFINE t == <<Avr("ConfigAck"), Avr("ARMED CANCELLED"), Dsp("System State"), Avr("ModeAck")>>
    <2>1. Says(t, {"ConfigAck", "ARMED CANCELLED", "System State", "ModeAck"}) BY Bundles
    <2>2. t[1].msg = "ConfigAck" /\ t[2].msg = "ARMED CANCELLED" /\ t[3].msg = "System State"
      BY EnvelopesSent
    <2>3. Len(t) = 4 OBVIOUS
    <2> HIDE DEF t
    <2>4. t \in Seq(DeviceEnvelopes) BY <2>1 DEF Says
    <2>8. "ARMED" \notin MsgsIn(t) BY <2>1 DEF Says
    <2>5. 1 \in 1..Len(t) /\ 2 \in 1..Len(t) /\ 3 \in 1..Len(t) /\ 1 < 2 /\ 2 < 3 BY <2>3
    <2>6. /\ t[1] \in Saying({"ConfigAck"}) /\ t[2] \in Saying({"ARMED CANCELLED"})
          /\ t[3] \in Saying({"System State"})
      <3>0. \A i \in 1..Len(t) : t[i] \in DeviceEnvelopes BY <2>4
      <3>1. t[1] \in DeviceEnvelopes /\ t[2] \in DeviceEnvelopes /\ t[3] \in DeviceEnvelopes
        BY <2>5, <3>0
      <3> QED BY <2>2, <3>1 DEF Saying
    <2>7. Sequels(t, "ConfigAck", "ARMED CANCELLED", "System State")
      BY <2>5, <2>6 DEF Sequels, HasTriple
    <2> QED BY <2>7, <2>8 DEF AckAnnounces, t
  <1>2. AckAnnounces(<<Avr("ConfigAck"), Avr("ARMED")>>)
    <2> DEFINE t == <<Avr("ConfigAck"), Avr("ARMED")>>
    <2>1. Says(t, {"ConfigAck", "ARMED"}) BY Bundles
    <2>2. t[1].msg = "ConfigAck" /\ t[2].msg = "ARMED" BY EnvelopesSent
    <2>3. Len(t) = 2 OBVIOUS
    <2> HIDE DEF t
    <2>4. t \in Seq(DeviceEnvelopes) BY <2>1 DEF Says
    <2>8. "ARMED CANCELLED" \notin MsgsIn(t) BY <2>1 DEF Says
    <2>5. 1 \in 1..Len(t) /\ 2 \in 1..Len(t) /\ 1 < 2 BY <2>3
    <2>6. t[1] \in Saying({"ConfigAck"}) /\ t[2] \in Saying({"ARMED"})
      <3>0. \A i \in 1..Len(t) : t[i] \in DeviceEnvelopes BY <2>4
      <3>1. t[1] \in DeviceEnvelopes /\ t[2] \in DeviceEnvelopes BY <2>5, <3>0
      <3> QED BY <2>2, <3>1 DEF Saying
    <2>7. Sequel(t, "ConfigAck", "ARMED") BY <2>5, <2>6 DEF Sequel, HasPair
    <2> QED BY <2>7, <2>8 DEF AckAnnounces, t
  <1> QED BY <1>1, <1>2

LEMMA ServeMoves ==
  ASSUME InSession, Serve
  PROVE  \E t : DeviceSends(t)
  <1> DEFINE c == Head(inbox)
  <1>0. inbox # <<>> /\ inbox' = Tail(inbox) /\ shots' = shots BY DEF Serve
  <1>1. ASSUME NEW t, NEW ms, Sends(t), Says(t, ms), Replied(c.cmd, ms),
               c.cmd = "StatusPoll" => StatusReplied(c, ms), Announces(t, ms)
        PROVE  \E u : DeviceSends(u)
    <2>1. owed' = owed \cup DataIn(t) BY <1>1 DEF Sends
    <2>2. DataIn(t) = MsgsIn(t) \cap ShotData
      <3>1. t \in Seq(DeviceEnvelopes) BY <1>1 DEF Says
      <3>2. DOMAIN t = 1..Len(t) BY <3>1
      <3> QED BY <3>2 DEF DataIn, MsgsIn
    <2>3. AckAnnounces(t) /\ StatusReplied(c, ms) BY <1>1, Announced DEF StatusReplied
    <2> QED BY <1>0, <1>1, <2>1, <2>2, <2>3 DEF DeviceSends, TakesOne, Sends, Says
  <1> HIDE DEF c
  <1>2. CASE c.cmd = "StatusPoll" /\ Sends(<<StatusOf(c.dest)>>) /\ UNCHANGED mode
    <2> DEFINE a == StatusOf(c.dest)
    <2>1. a \in DeviceEnvelopes /\ a.msg \in Statuses
      BY EnvelopesSent DEF StatusOf, Statuses
    <2> HIDE DEF a
    <2>2. Says(<<a>>, {a.msg}) BY <2>1, SaysOne DEF Statuses
    <2>3. Replied(c.cmd, {a.msg}) BY <1>2, <2>1 DEF Replied
    <2>4. Sends(<<a>>) BY <1>2 DEF a
    <2>5. Announces(<<a>>, {a.msg}) BY <2>1 DEF Announces, Statuses
    <2>6. StatusReplied(c, {a.msg}) BY EnvelopesSent DEF StatusReplied, a, StatusOf
    <2> QED BY <1>1, <2>2, <2>3, <2>4, <2>5, <2>6
  <1>3. CASE c.cmd \in DOMAIN Answer /\ Sends(Answer[c.cmd]) /\ UNCHANGED mode
    <2>2. c.cmd \in {"ParamValue", "ModeSet", "RadarCal", "ShotResultReq"} BY <1>3 DEF Answer
    <2>1. ASSUME NEW m \in {"ConfigAck", "ModeSet", "RadarCal", "ClubResult"},
                 Answer[c.cmd] = <<Avr(m)>>, Replied(c.cmd, {m})
          PROVE  \E u : DeviceSends(u)
      <3>1. Says(<<Avr(m)>>, {m}) BY Bundles
      <3>2. Announces(<<Avr(m)>>, {m}) BY DEF Announces
      <3> QED BY <1>1, <1>3, <2>1, <2>2, <3>1, <3>2
    <2>3. CASE c.cmd = "ParamValue" BY <1>3, <2>1, <2>3 DEF Answer, Replied
    <2>4. CASE c.cmd = "ModeSet" BY <1>3, <2>1, <2>4 DEF Answer, Replied
    <2>5. CASE c.cmd = "RadarCal" BY <1>3, <2>1, <2>5 DEF Answer, Replied
    <2>6. CASE c.cmd = "ShotResultReq" BY <1>3, <2>1, <2>6 DEF Answer, Replied
    <2> QED BY <2>2, <2>3, <2>4, <2>5, <2>6
  <1>4. CASE /\ c.cmd = "Commit" /\ mode = "armed"
             /\ Sends(<<Avr("ConfigAck"), Avr("ARMED CANCELLED"), Dsp("System State"), Avr("ModeAck")>>)
             /\ mode' = "disarmed"
    <2>1. Replied(c.cmd, {"ConfigAck", "ARMED CANCELLED", "System State", "ModeAck"})
      BY <1>4 DEF Replied
    <2>2. Announces(<<Avr("ConfigAck"), Avr("ARMED CANCELLED"), Dsp("System State"), Avr("ModeAck")>>,
                    {"ConfigAck", "ARMED CANCELLED", "System State", "ModeAck"})
      BY Acknowledgements DEF Announces
    <2> QED BY <1>1, <1>4, <2>1, <2>2, Bundles
  <1>5. CASE c.cmd = "Commit" /\ mode # "armed" /\ Sends(<<Avr("ConfigAck")>>) /\ UNCHANGED mode
    <2>1. Replied(c.cmd, {"ConfigAck"}) BY <1>5 DEF Replied
    <2>2. Announces(<<Avr("ConfigAck")>>, {"ConfigAck"}) BY DEF Announces
    <2> QED BY <1>1, <1>5, <2>1, <2>2, Bundles
  <1>6. CASE /\ c.cmd = "Arm" /\ ~InShot
             /\ Sends(<<Avr("ConfigAck"), Avr("ARMED")>>)
             /\ mode' = "armed"
    <2>1. Replied(c.cmd, {"ConfigAck", "ARMED"}) BY <1>6 DEF Replied
    <2>2. Announces(<<Avr("ConfigAck"), Avr("ARMED")>>, {"ConfigAck", "ARMED"})
      BY Acknowledgements DEF Announces
    <2> QED BY <1>1, <1>6, <2>1, <2>2, Bundles
  <1>7. CASE c.cmd = "Arm" /\ InShot /\ Sends(<<Avr("ConfigNack")>>) /\ UNCHANGED mode
    <2>1. Replied(c.cmd, {"ConfigNack"}) BY <1>7 DEF Replied
    <2>2. Announces(<<Avr("ConfigNack")>>, {"ConfigNack"}) BY DEF Announces
    <2> QED BY <1>1, <1>7, <2>1, <2>2, Bundles
  <1>8. CASE /\ c.cmd = "ShotDataAck" /\ AwaitsAck
             /\ Sends(<<Avr("SpinResult"), Dsp("System State"), Avr("ModeAck")>>
                        \o IF mode = "processed" THEN <<Avr("IDLE")>> ELSE <<>>)
             /\ mode' = "disarmed"
    <2> DEFINE s == <<Avr("SpinResult"), Dsp("System State"), Avr("ModeAck")>>
               ms == {"SpinResult", "System State", "ModeAck"}
               a == Avr("IDLE")
    <2>1. Says(s, ms) BY Bundles
    <2>2. a \in DeviceEnvelopes /\ a.msg = "IDLE" BY EnvelopesSent
    <2>3. CASE mode = "processed"
      <3>1. Sends(s \o <<a>>) BY <1>8, <2>3
      <3> HIDE DEF s, a
      <3>2. Says(s \o <<a>>, ms \cup {a.msg}) BY <2>1, <2>2, SaysMore
      <3>3. ms \cup {a.msg} = {"SpinResult", "System State", "ModeAck", "IDLE"} BY <2>2
      <3>4. Replied(c.cmd, {"SpinResult", "System State", "ModeAck", "IDLE"})
        BY <1>8, <2>3 DEF Replied
      <3>5. Announces(s \o <<a>>, ms \cup {a.msg}) BY <3>3 DEF Announces
      <3> QED BY <1>1, <1>8, <3>1, <3>2, <3>3, <3>4, <3>5
    <2>4. CASE mode # "processed"
      <3>1. s \o <<>> = s OBVIOUS
      <3>2. Sends(s) BY <1>8, <2>4, <3>1
      <3> HIDE DEF s
      <3>3. Replied(c.cmd, ms) BY <1>8, <2>4 DEF Replied
      <3>4. Announces(s, ms) BY DEF Announces
      <3> QED BY <1>1, <1>8, <2>1, <3>2, <3>3, <3>4
    <2> QED BY <2>3, <2>4
  <1>9. CASE c.cmd = "ShotDataAck" /\ ~AwaitsAck /\ Sends(<<>>) /\ UNCHANGED mode
    <2>1. Replied(c.cmd, {}) BY <1>9 DEF Replied
    <2>2. Announces(<<>>, {}) BY DEF Announces
    <2> QED BY <1>1, <1>9, <2>1, <2>2, SaysNothing
  <1> QED BY <1>2, <1>3, <1>4, <1>5, <1>6, <1>7, <1>8, <1>9 DEF Serve, c

LEMMA DeviceMoves ==
  ASSUME InSession, Device
  PROVE  UNCHANGED <<vars, pending, swallowed, mixed>> /\ \E t : DeviceSends(t)
  <1>1. UNCHANGED <<vars, pending, swallowed, mixed>>
    BY DEF Device, Hit, Measured, Serve, DeviceRest
  <1>5. ASSUME NEW t, NEW ms, Says(t, ms), Sends(t)
        PROVE  wire' = wire \o t /\ owed' \subseteq owed \cup (MsgsIn(t) \cap ShotData)
    <2>1. t \in Seq(DeviceEnvelopes) BY <1>5 DEF Says
    <2>2. DOMAIN t = 1..Len(t) BY <2>1
    <2> QED BY <1>5, <2>2 DEF Sends, DataIn, MsgsIn
  <1>2. CASE Hit
    <2> DEFINE a == Avr("BALL TRIGGER")
               b == Avr("FlightResultV1")
               t == <<a, b>>
    <2>1. Says(t, {"BALL TRIGGER", "FlightResultV1"}) BY Bundles
    <2>2. Sends(t) BY <1>2 DEF Hit
    <2>3. a.msg = "BALL TRIGGER" /\ a \in DeviceEnvelopes BY EnvelopesSent
    <2>4. DataLed(t)
      <3> DEFINE S == Saying(ShotData)
                 T == Saying({"BALL TRIGGER"})
      <3>1. a \in T BY <2>3 DEF Saying
      <3>2. a \notin S BY <2>3 DEF Saying, ShotData
      <3> HIDE DEF a, b, S, T
      <3>3. Led(t, S, T)
        <4>1. Len(t) = 2 /\ t[1] = a OBVIOUS
        <4> HIDE DEF t
        <4>2. ASSUME NEW j \in 1..2, t[j] \in S PROVE \E i \in 1..(j - 1) : t[i] \in T
          <5>1. j = 2 /\ 1 \in 1..(j - 1) BY <3>2, <4>1, <4>2
          <5> QED BY <3>1, <4>1, <5>1
        <4> QED BY <4>1, <4>2 DEF Led
      <3> QED BY <3>3 DEF DataLed, S, T
    <2> HIDE DEF t
    <2>5. wire' = wire \o t /\ owed' \subseteq owed \cup (MsgsIn(t) \cap ShotData) BY <1>5, <2>1, <2>2
    <2>7. AckAnnounces(t) BY <2>1 DEF Says, AckAnnounces
    <2>6. DeviceSends(t) BY <1>2, <2>1, <2>4, <2>5, <2>7 DEF DeviceSends, Hits, Hit, Says
    <2> QED BY <1>1, <2>6
  <1>3. CASE Measured
    <2> DEFINE t == <<Avr("FlightResult"), Avr("PROCESSED")>>
               u == <<Avr("PROCESSED"), Avr("FlightResult")>>
               ms == {"FlightResult", "PROCESSED"}
    <2>1. Says(t, ms) /\ Says(u, ms) BY Bundles
    <2>2. Sends(t) \/ Sends(u) BY <1>3 DEF Measured
    <2>3. mode = "triggered" /\ AwaitsAck' /\ inbox' = inbox /\ shots' = shots
      BY <1>3 DEF Measured, AwaitsAck
    <2> HIDE DEF t, u
    <2>4. ASSUME NEW s, Says(s, ms), Sends(s) PROVE DeviceSends(s)
      <3>1. wire' = wire \o s /\ owed' \subseteq owed \cup (MsgsIn(s) \cap ShotData)
        BY <1>5, <2>4
      <3>2. AckAnnounces(s) BY <2>4 DEF Says, AckAnnounces
      <3> QED BY <2>3, <2>4, <3>1, <3>2 DEF DeviceSends, Measures, Says
    <2> QED BY <1>1, <2>1, <2>2, <2>4
  <1>4. CASE Serve BY <1>1, <1>4, ServeMoves
  <1> QED BY <1>2, <1>3, <1>4 DEF Device

-----------------------------------------------------------------------------
(* InSession holds as long as no operation is fed a message of a shot that *)
(* it has no use for.                                                      *)

LEMMA QueueAppended ==
  ASSUME queue \in Seq(QueuedOps), SessionQueue(queue), NEW op \in QueuedOps,
         op.op \in SessionOps, queue' = Append(queue, op)
  PROVE  SessionQueue(queue')
  <1> DEFINE w == Append(queue, op)
  <1>1. /\ Len(queue) \in Nat /\ Len(w) = Len(queue) + 1
        /\ \A i \in 1..Len(queue) : w[i] = queue[i]
        /\ w[Len(queue) + 1] = op
    OBVIOUS
  <1> HIDE DEF w
  <1>2. ASSUME NEW i \in 1..Len(w) PROVE w[i].op \in SessionOps
    <2>1. CASE i = Len(queue) + 1 BY <1>1, <2>1
    <2>2. CASE i # Len(queue) + 1
      <3>1. i \in 1..Len(queue) BY <1>1, <2>2
      <3> QED BY <1>1, <3>1 DEF SessionQueue
    <2> QED BY <2>1, <2>2
  <1> QED BY <1>2 DEF SessionQueue, w

LEMMA QueueTaken ==
  ASSUME queue \in Seq(QueuedOps), SessionQueue(queue), TakeHead
  PROVE  SessionQueue(queue')
  <1>1. CASE queue' = queue BY <1>1
  <1>2. CASE queue' = Tail(queue)
    <2> DEFINE w == Tail(queue)
    <2>1. queue # <<>> BY DEF TakeHead
    <2>2. /\ Len(queue) \in Nat /\ Len(w) = Len(queue) - 1
          /\ \A i \in 1..Len(w) : w[i] = queue[i + 1]
      BY <2>1
    <2> HIDE DEF w
    <2>3. ASSUME NEW i \in 1..Len(w) PROVE w[i].op \in SessionOps
      <3>1. i + 1 \in 1..Len(queue) BY <2>2
      <3> QED BY <2>2, <3>1 DEF SessionQueue
    <2> QED BY <1>2, <2>3 DEF SessionQueue, w
  <1> QED BY <1>1, <1>2 DEF TakeHead

\* What a session's calls enqueue.
LEMMA CallsEnqueue ==
  ASSUME SessionCalls
  PROVE  /\ \E op \in QueuedOps : op.op \in SessionOps /\ Enqueue(op)
         /\ inbox' = inbox \o out' /\ mode' = mode /\ swallowed' = swallowed
         /\ wire' = wire /\ pending' = pending
  <1>1. \A cfg \in SettingsChoices : [op |-> "ConfigureAvr", cfg |-> cfg] \in QueuedOps
    BY ClientAssumption DEF QueuedOps, OpNames
  <1>2. Op("Arm") \in QueuedOps /\ Op("Arm").op = "Arm"
    BY OpTyped DEF OpNames, Op
  <1>3. CallConfigureAvr => \E op \in QueuedOps : op.op \in SessionOps /\ Enqueue(op)
    <2> HAVE CallConfigureAvr
    <2>1. PICK cfg \in SettingsChoices : Enqueue([op |-> "ConfigureAvr", cfg |-> cfg])
      BY DEF CallConfigureAvr
    <2> QED BY <1>1, <2>1 DEF SessionOps
  <1>4. CallArm => \E op \in QueuedOps : op.op \in SessionOps /\ Enqueue(op)
    BY <1>2 DEF CallArm, SessionOps
  <1> QED BY <1>3, <1>4 DEF SessionCalls, Enqueues, Writes, deviceVars, historyVars

LEMMA CallInSession ==
  ASSUME InSession, SessionCalls
  PROVE  InSession' /\ active' = active /\ armed' = armed /\ out' = <<>>
  <1>0. TypeOK BY DEF InSession, Inv
  <1>1. PICK op \in QueuedOps : op.op \in SessionOps /\ Enqueue(op) BY CallsEnqueue
  <1>2. TypeOK' BY <1>0, <1>1, CallTyped
  <1>3. active' = active /\ armed' = armed /\ opLeft' = opLeft /\ out' = <<>>
        /\ queue' = Append(queue, op)
    BY <1>1 DEF Enqueue, opVars, shotVars
  <1>4. queue # <<>> => queue' # <<>> /\ Head(queue') = Head(queue)
    BY <1>0, <1>3 DEF TypeOK
  <1>5. Safe' BY <1>3, <1>4, GoesOnSafe DEF InSession, Inv
  <1>6. SessionQueue(queue)' BY <1>0, <1>1, <1>3, QueueAppended DEF InSession, TypeOK
  <1>7. OnTheWay'
    <2>1. inbox' = inbox \o <<>> /\ wire' = wire /\ pending' = pending
      BY <1>3, CallsEnqueue
    <2>2. inbox' = inbox BY <2>1 DEF InSession, OnTheWay
    <2> QED BY <2>1, <2>2 DEF InSession, OnTheWay
  <1> QED BY <1>2, <1>3, <1>5, <1>6, <1>7 DEF InSession, Inv

LEMMA DeviceInSession ==
  ASSUME InSession, Device
  PROVE  InSession'
  <1>1. UNCHANGED <<vars, pending, swallowed, mixed>> /\ \E t : DeviceSends(t) BY DeviceMoves
  <1>2. PICK t : DeviceSends(t) BY <1>1
  <1>3. Inv'
    <2>1. UNCHANGED vars BY <1>1
    <2>2. TypeOK'
      BY <2>1 DEF vars, TypeOK, InSession, Inv, opVars, kaVars, cacheVars, shotVars
    <2>3. Safe' BY <2>1, GoesOnSafe DEF InSession, Inv, vars, opVars, shotVars
    <2> QED BY <2>2, <2>3 DEF Inv
  <1>4. queue' = queue /\ active' = active BY <1>1 DEF vars, opVars
  <1>5. wire' \in Seq(DeviceEnvelopes) /\ pending' \in Seq(DeviceEnvelopes)
    BY <1>1, <1>2, Sent DEF DeviceSends, InSession
  <1>6. inbox' \in Seq(Commands)
    <2>1. CASE inbox' = inbox BY <2>1 DEF InSession, OnTheWay
    <2>2. CASE inbox # <<>> /\ inbox' = Tail(inbox)
      BY <2>2, ServedFacts DEF Serves, InSession, OnTheWay
    <2> QED BY <1>2, <2>1, <2>2 DEF DeviceSends, Hits, Measures, TakesOne
  <1> QED BY <1>3, <1>4, <1>5, <1>6 DEF InSession, OnTheWay

LEMMA WritesInSession ==
  ASSUME InSession, TypeOK', inbox' = inbox \o out'
  PROVE  inbox' \in Seq(Commands)
  <1>1. out' \in Seq(Commands) BY DEF TypeOK
  <1> QED BY <1>1, Written DEF InSession, OnTheWay

LEMMA AloneInSession ==
  ASSUME InSession, PollAlone
  PROVE  InSession'
  <1>0. TypeOK /\ Inv BY DEF InSession, Inv
  <1>1. /\ inbox' = inbox \o out' /\ wire' = wire /\ pending' = pending
        /\ Stands \/ Drops \/ Begins \/ GivesUp
    BY AloneMoves
  <1>2. TypeOK' /\ Safe' BY <1>0, BeforeRecvTyped, BeforeRecvSafe DEF PollAlone
  <1>3. OnTheWay' BY <1>1, <1>2, WritesInSession DEF InSession, OnTheWay
  <1>4. /\ active'.kind \in {"None", "Keepalive"} \cup FedKinds
        /\ active'.kind \in FedKinds => active'.step # "Done"
    BY <1>1 DEF Stands, Drops, Begins, GivesUp, At, NoOp, FedKinds, InSession
  <1>5. SessionQueue(queue)'
    <2>1. CASE StartNext BY <2>1, QueueTaken DEF StartNext, StartHead, InSession, Inv, TypeOK
    <2>2. CASE CheckTimers
      <3>1. Op("Keepalive") \in QueuedOps /\ Op("Keepalive").op = "Keepalive"
        BY OpTyped DEF OpNames, Op
      <3>2. queue' = queue \/ queue' = Append(queue, Op("Keepalive"))
        BY <2>2 DEF CheckTimers, AutoKeepalive
      <3>3. queue \in Seq(QueuedOps) /\ SessionQueue(queue) BY <1>0 DEF InSession, TypeOK
      <3>4. Op("Keepalive").op \in SessionOps BY <3>1 DEF SessionOps
      <3> QED BY <3>1, <3>2, <3>3, <3>4, QueueAppended
    <2>3. CASE ~StartNext /\ ~CheckTimers
      <3>1. queue' = queue
        BY <2>3 DEF PollAlone, DeadlineOpen, KeepaliveTimesOut, OperationTimesOut, NothingToStart,
                    RecvNothing
      <3> QED BY <3>1 DEF InSession
    <2> QED BY <2>1, <2>2, <2>3
  <1> QED BY <1>2, <1>3, <1>4, <1>5 DEF InSession, Inv

LEMMA ReceiptInSession ==
  ASSUME InSession, NEW e, NEW k, Receive(e, k), Takes(e), ~swallowed'
  PROVE  InSession'
  <1>0. TypeOK /\ Inv BY DEF InSession, Inv
  <1>1. Handle(e) /\ e \in Envelopes BY SessionAssumption DEF Receive, Takes
  <1>2. TypeOK' /\ Safe' BY <1>0, <1>1, HandleTyped, HandleSafe
  <1>3. /\ inbox' = inbox \o out'
        /\ Passes(e) \/ ShotBegins(e) \/ KeepaliveEnds(e) \/ IsFed(e) \/ IsDone(e)
    BY ReceiptMoves
  <1>4. OnTheWay' BY <1>2, <1>3, WritesInSession DEF Takes, OnTheWay
  <1>5. /\ active'.kind \in {"None", "Keepalive"} \cup FedKinds
        /\ active'.kind \in FedKinds => active'.step # "Done"
    <2>1. CASE Passes(e) BY <2>1 DEF Passes, Free, FedKinds
    <2>2. CASE ShotBegins(e) BY <2>2 DEF ShotBegins, At, FedKinds
    <2>3. CASE KeepaliveEnds(e) BY <2>3 DEF KeepaliveEnds, Drops, Begins, At, NoOp, FedKinds
    <2>4. CASE IsFed(e) BY <2>4 DEF IsFed, FedKinds
    <2>5. CASE IsDone(e) BY <2>5 DEF IsDone, NoOp, FedKinds
    <2> QED BY <1>3, <2>1, <2>2, <2>3, <2>4, <2>5
  <1>6. SessionQueue(queue)'
    <2>1. CASE FinishKeepaliveAndStart(e)
      BY <2>1, QueueTaken DEF FinishKeepaliveAndStart, StartHead, InSession, Inv, TypeOK
    <2>2. CASE ~FinishKeepaliveAndStart(e)
      <3>1. ~SendMayFail BY SessionAssumption
      <3>2. ~FinishKeepaliveStartFails(e)
        BY <3>1 DEF FinishKeepaliveStartFails, StartHeadFails, WriteFails
      <3>3. queue' = queue
        BY <1>1, <2>2, <3>2
           DEF Handle, FeedActive, FeedFails, NextPhase, NextPhaseFails, HandshakeDone,
               FinishDisarm, FinishConfigure, FinishArm, FinishShot, Finish, FinishKeepalive,
               Trigger, Processed, ProcessedFails, PassOn
      <3> QED BY <3>3 DEF InSession
    <2> QED BY <2>1, <2>2
  <1> QED BY <1>2, <1>4, <1>5, <1>6 DEF InSession, Inv

\* Time passes for the operation alone.
LEMMA TickMoves ==
  ASSUME InSession, TimePasses
  PROVE  /\ Quiet /\ UNCHANGED <<mode, armed, inbox, wire, pending, swallowed, queue>>
         /\ active'.kind = active.kind /\ active'.step = active.step
  <1>0. TypeOK BY DEF InSession, Inv
  <1>1. /\ Quiet /\ UNCHANGED <<mode, armed, inbox, wire, pending, swallowed, queue>>
        /\ active' = IF active = NoOp THEN NoOp ELSE [active EXCEPT !.timer = Ticked(@)]
    BY DEF TimePasses, Tick, deviceVars, shotVars
  <1>2. CASE active = NoOp BY <1>1, <1>2
  <1>3. CASE active # NoOp
    <2>1. active \in Sequencer BY <1>0, <1>3, ActiveTyped
    <2> QED BY <1>1, <1>3, <2>1 DEF Sequencer
  <1> QED BY <1>2, <1>3

LEMMA TickInSession ==
  ASSUME InSession, TimePasses
  PROVE  InSession'
  <1>1. TypeOK' /\ Safe' BY TickTyped, TickSafe DEF TimePasses, InSession, Inv
  <1> QED BY <1>1, TickMoves DEF InSession, Inv, OnTheWay

LEMMA StutterInSession ==
  ASSUME InSession, UNCHANGED sessionVars
  PROVE  InSession'
  <1>1. UNCHANGED vars /\ UNCHANGED <<inbox, wire, pending>> BY DEF sessionVars
  <1>2. TypeOK'
    BY <1>1 DEF vars, TypeOK, InSession, Inv, opVars, kaVars, cacheVars, shotVars
  <1>3. Safe' BY <1>1, GoesOnSafe DEF InSession, Inv, vars, opVars, shotVars
  <1> QED BY <1>1, <1>2, <1>3 DEF InSession, Inv, OnTheWay, vars, opVars

LEMMA SwallowedStays ==
  ASSUME SessionNext \/ UNCHANGED sessionVars, ~swallowed'
  PROVE  ~swallowed
  <1>1. CASE Device BY <1>1 DEF Device, Hit, Measured, Serve, DeviceRest
  <1>2. CASE SessionCalls BY <1>2, CallsEnqueue
  <1>3. CASE PollAlone BY <1>3 DEF PollAlone
  <1>4. CASE Arrives BY <1>4 DEF Arrives, ReceivePending, ReceiveRead, Receive
  <1>5. CASE TimePasses BY <1>5 DEF TimePasses
  <1>6. CASE UNCHANGED sessionVars BY <1>6 DEF sessionVars, historyVars
  <1> QED BY <1>1, <1>2, <1>3, <1>4, <1>5, <1>6 DEF SessionNext

LEMMA StaysInSession ==
  ASSUME InSession, SessionNext \/ UNCHANGED sessionVars, ~swallowed'
  PROVE  InSession'
  <1>1. CASE Arrives
    <2>1. PICK e, k : Receive(e, k) /\ Takes(e) BY <1>1, Arrival DEF InSession
    <2> QED BY <2>1, ReceiptInSession
  <1> QED BY <1>1, DeviceInSession, CallInSession, AloneInSession, TickInSession, StutterInSession
          DEF SessionNext

LEMMA StartsInSession ==
  ASSUME SessionInit
  PROVE  InSession
  <1>1. TypeOK
    <2>1. queue \in Seq(QueuedOps) /\ out \in Seq(Commands) BY DEF SessionInit
    <2>2. /\ sinceKa \in 0..KeepaliveInterval /\ opLeft \in Nat \cup {Unset}
          /\ ret \in Events \cup Errors \cup {"None", "Pending"}
      BY Assigned DEF SessionInit
    <2> QED BY <2>1, <2>2 DEF SessionInit, TypeOK, Buses
  <1>2. Safe
    BY DEF SessionInit, Safe, DeadlineIffActive, DeadlineWhenActive, DisarmThenConfigure,
           ConfigureOnlyDisarmed, NoOp
  <1>3. SessionQueue(queue) BY DEF SessionInit, SessionQueue
  <1>4. active.kind = "None" BY DEF SessionInit, NoOp
  <1>5. OnTheWay BY DEF SessionInit, OnTheWay
  <1> QED BY <1>1, <1>2, <1>3, <1>4, <1>5 DEF InSession, Inv, FedKinds

-----------------------------------------------------------------------------
(* What the device and the client know of each other: a request is         *)
(* answered once, the answer finds the operation that asked, and a shot    *)
(* and the shot operation follow each other.                               *)

AwaitsResult == At("Shot", "WaitingForClubResult")
AwaitsArmAck == At("Arm", "WaitArmAck") \/ At("Shot", "WaitingForArmAck")
AwaitsArmed == At("Arm", "WaitPiAndArmed") \/ At("Shot", "WaitingForArmed")
AwaitsAnAck ==
  \/ AwaitsArmAck
  \/ At("Disarm", "WaitAck")
  \/ active.kind = "AvrConfig" /\ active.step \in ConfigAckSteps

\* The request for an acknowledgement, or the acknowledgement.
Exchange == (Asked \cap AckCmds) \cup (On \cap AckMsgs)

\* Who asks for an acknowledgement awaits it, and nobody else.
Exchanges ==
  /\ Exchange # {} => AwaitsAnAck
  /\ \A x, y \in Exchange : x = y
  /\ OneAckAsked /\ OneAck
  /\ "Arm" \in Asked => AwaitsArmAck
  /\ "Commit" \in Asked => active.kind \in {"Disarm", "AvrConfig"}
  /\ "ParamValue" \in Asked => active.kind = "AvrConfig"

\* So does who asks for the result of a shot, behind the shot's data.
Results ==
  /\ "ShotResultReq" \in Asked \/ "ClubResult" \in On => AwaitsResult
  /\ ~("ShotResultReq" \in Asked /\ "ClubResult" \in On)
  /\ OneResultAsked /\ OneResult /\ DataAckFirst
  /\ "ClubResult" \in On => "ShotDataAck" \notin Asked

\* Where the shot operation, the device and what is between them are in a shot.
Stages ==
  /\ Drains => mode = "disarmed" \/ (AwaitsAck /\ "ShotDataAck" \in Asked)
  /\ AwaitsResult => mode = "disarmed"
  /\ At("Shot", "WaitingForArmAck") /\ "Arm" \in Asked => mode = "disarmed"
  /\ "ShotDataAck" \in Asked => Drains \/ AwaitsResult
  /\ "PROCESSED" \in On => AwaitsAck /\ ~Drains /\ ~AwaitsResult
  /\ "IDLE" \in On => Drains /\ mode = "disarmed"
  /\ OneProcessed /\ OneIdle /\ TriggerFirst
  /\ Drains /\ active.timer = 0 => Quiet

\* No shot operation outlives the trigger of the next shot.
Triggers ==
  "BALL TRIGGER" \in On =>
    \/ InShot /\ ~Drains /\ ~AwaitsResult
    \/ Drains /\ "BALL TRIGGER" \in Held /\ "IDLE" \notin Held

\* Where armed may be wrong, something is on its way that will correct it.
Beliefs ==
  /\ mode = "armed" /\ ~armed => active.kind \in {"Arm", "Shot"}
  /\ armed /\ mode # "armed" => "BALL TRIGGER" \in On \/ active.kind = "Disarm"
  /\ AwaitsArmed \/ (AwaitsArmAck /\ "ConfigAck" \in On) =>
       mode = "armed" \/ "BALL TRIGGER" \in On
  /\ active.kind = "Disarm" /\ "Commit" \notin Asked => mode # "armed"

InStep == Exchanges /\ Results /\ Stages /\ Triggers /\ Beliefs

LEMMA QuietIs ==
  ASSUME Quiet
  PROVE  On = {} /\ Held = {} /\ Asked = {}
  <1>1. Reverse(pending) = <<>>
    <2>1. pending \in Seq({}) /\ Len(pending) = 0 BY DEF Quiet
    <2>2. Reverse(pending) \in Seq({}) /\ Len(Reverse(pending)) = 0 BY <2>1, ReverseIs
    <2> QED BY <2>2, EmptySeq
  <1>2. Line = <<>>
    <2>1. <<>> \o <<>> = <<>> OBVIOUS
    <2> QED BY <1>1, <2>1 DEF Line, Quiet
  <1> QED BY <1>2 DEF On, Held, Asked, MsgsIn, CmdsIn, Quiet

\* Nothing has arrived.
LEMMA LineSame ==
  ASSUME wire' = wire, pending' = pending
  PROVE  /\ On' = On /\ Held' = Held
         /\ (OneAck' <=> OneAck) /\ (OneResult' <=> OneResult) /\ (OneProcessed' <=> OneProcessed)
         /\ (OneIdle' <=> OneIdle) /\ (TriggerFirst' <=> TriggerFirst)
  <1>1. Line' = Line BY DEF Line
  <1>2. \A ms : Saying(ms)' = Saying(ms) BY DEF Saying
  <1> QED BY <1>1, <1>2
      DEF On, Held, MsgsIn, OneAck, OneResult, OneProcessed, OneIdle, TriggerFirst, Alone, Ahead

LEMMA InboxSame ==
  ASSUME inbox' = inbox
  PROVE  /\ Asked' = Asked
         /\ (OneAckAsked' <=> OneAckAsked) /\ (OneResultAsked' <=> OneResultAsked)
         /\ (DataAckFirst' <=> DataAckFirst)
  BY DEF Asked, CmdsIn, OneAckAsked, OneResultAsked, DataAckFirst, Alone, Ahead, Asking

LEMMA StaysInStep ==
  ASSUME InSession, InStep, inbox' = inbox, wire' = wire, pending' = pending,
         mode' = mode, armed' = armed, active'.kind = active.kind, active'.step = active.step,
         active'.timer = active.timer \/ Quiet
  PROVE  InStep'
  <1>1. Quiet' = Quiet BY DEF Quiet
  <1>2. /\ Drains' = Drains /\ AwaitsResult' = AwaitsResult /\ AwaitsArmAck' = AwaitsArmAck
        /\ AwaitsArmed' = AwaitsArmed /\ AwaitsAnAck' = AwaitsAnAck
        /\ At("Shot", "WaitingForArmAck")' = At("Shot", "WaitingForArmAck")
    BY DEF Drains, AwaitsResult, AwaitsArmAck, AwaitsArmed, AwaitsAnAck, At
  <1>3. AwaitsAck' = AwaitsAck /\ InShot' = InShot BY DEF AwaitsAck, InShot
  <1>4. Exchange' = Exchange BY LineSame, InboxSame DEF Exchange
  <1>5. Exchanges' BY <1>2, <1>4, LineSame, InboxSame DEF InStep, Exchanges
  <1>6. Results' BY <1>2, LineSame, InboxSame DEF InStep, Results
  <1>7. Stages' BY <1>1, <1>2, <1>3, LineSame, InboxSame DEF InStep, Stages
  <1>8. Triggers' BY <1>2, <1>3, LineSame, InboxSame DEF InStep, Triggers
  <1>9. Beliefs' BY <1>2, LineSame, InboxSame DEF InStep, Beliefs
  <1> QED BY <1>5, <1>6, <1>7, <1>8, <1>9 DEF InStep

\* What the client writes and takes, beside the operation.
Wrote(u) ==
  /\ Asked' = Asked \cup CmdsIn(u)
  /\ OneAckAsked /\ (CmdsIn(u) \cap AckCmds = {} \/ (Len(u) = 1 /\ Asked \cap AckCmds = {})) =>
       OneAckAsked'
  /\ OneResultAsked /\ ("ShotResultReq" \notin CmdsIn(u)
                          \/ (Len(u) = 1 /\ "ShotResultReq" \notin Asked)) =>
       OneResultAsked'
  /\ DataAckFirst /\ ~({"ShotDataAck", "ShotResultReq"} \subseteq CmdsIn(u))
       /\ ("ShotResultReq" \notin Asked \/ "ShotDataAck" \notin CmdsIn(u)) => DataAckFirst'

LEMMA WritesWrote ==
  ASSUME InSession, TypeOK', inbox' = inbox \o out'
  PROVE  Wrote(out')
  <1>1. inbox \in Seq(Commands) /\ out' \in Seq(Commands)
    BY DEF InSession, OnTheWay, TypeOK
  <1> QED BY <1>1, Written DEF Wrote

\* Nothing is written, or one command is.
LEMMA WroteNothing ==
  ASSUME Wrote(<<>>)
  PROVE  /\ Asked' = Asked
         /\ OneAckAsked => OneAckAsked'
         /\ OneResultAsked => OneResultAsked'
         /\ DataAckFirst => DataAckFirst'
  <1>1. CmdsIn(<<>>) = {} BY DEF CmdsIn
  <1> QED BY <1>1 DEF Wrote

LEMMA WroteOne ==
  ASSUME NEW u, NEW x, Wrote(u), AsksFor(u, x)
  PROVE  /\ Asked' = Asked \cup {x}
         /\ OneAckAsked /\ (x \in AckCmds => Asked \cap AckCmds = {}) => OneAckAsked'
         /\ OneResultAsked /\ (x = "ShotResultReq" => x \notin Asked) => OneResultAsked'
         /\ DataAckFirst /\ (x = "ShotDataAck" => "ShotResultReq" \notin Asked) => DataAckFirst'
  <1>1. CmdsIn(u) = {x} /\ Len(u) = 1 BY DEF AsksFor
  <1>2. Asked' = Asked \cup {x} BY <1>1 DEF Wrote
  <1>3. OneAckAsked /\ (x \in AckCmds => Asked \cap AckCmds = {}) => OneAckAsked'
    <2>1. x \notin AckCmds => CmdsIn(u) \cap AckCmds = {} BY <1>1
    <2> QED BY <1>1, <2>1 DEF Wrote
  <1>4. OneResultAsked /\ (x = "ShotResultReq" => x \notin Asked) => OneResultAsked'
    BY <1>1 DEF Wrote
  <1>5. DataAckFirst /\ (x = "ShotDataAck" => "ShotResultReq" \notin Asked) => DataAckFirst'
    BY <1>1 DEF Wrote
  <1> QED BY <1>2, <1>3, <1>4, <1>5

\* A message that is gone was none of a shot's first two.
Less ==
  /\ On' \subseteq On /\ ("BALL TRIGGER" \in On => "BALL TRIGGER" \in On')
  /\ OneAck => OneAck'
  /\ OneResult => OneResult'
  /\ OneProcessed => OneProcessed'
  /\ OneIdle => OneIdle'
  /\ TriggerFirst => TriggerFirst'

LEMMA SameIsLess ==
  ASSUME wire' = wire, pending' = pending
  PROVE  Less
  <1>1. On' = On BY LineSame
  <1>2. /\ OneAck => OneAck'
        /\ OneResult => OneResult'
        /\ OneProcessed => OneProcessed'
        /\ OneIdle => OneIdle'
        /\ TriggerFirst => TriggerFirst'
    BY LineSame
  <1> QED BY <1>1, <1>2 DEF Less

LEMMA TakesLess ==
  ASSUME NEW e, Takes(e), NotAShot(e)
  PROVE  Less
  BY DEF Takes, NotAShot, Less

\* No operation waits for anything but its status.
LEMMA FreeIs ==
  ASSUME Free
  PROVE  /\ ~AwaitsAnAck /\ ~AwaitsResult /\ ~Drains /\ ~AwaitsArmAck /\ ~AwaitsArmed
         /\ ~At("Shot", "WaitingForArmAck")
         /\ active.kind \notin FedKinds
  BY DEF Free, AwaitsAnAck, AwaitsResult, Drains, AwaitsArmAck, AwaitsArmed, At, FedKinds

LEMMA FreeAgain ==
  ASSUME Free'
  PROVE  /\ ~AwaitsAnAck' /\ ~AwaitsResult' /\ ~Drains' /\ ~AwaitsArmAck' /\ ~AwaitsArmed'
         /\ ~At("Shot", "WaitingForArmAck")'
         /\ active'.kind \notin FedKinds
  BY DEF Free, AwaitsAnAck, AwaitsResult, Drains, AwaitsArmAck, AwaitsArmed, At, FedKinds

\* There is no operation to wait for anything, before or after.
LEMMA IdlesInStep ==
  ASSUME InStep, Free, Free', armed' = armed, mode' = mode, Less, Asked' \subseteq Asked \cup {"StatusPoll"},
         OneAckAsked => OneAckAsked', OneResultAsked => OneResultAsked', DataAckFirst => DataAckFirst'
  PROVE  InStep'
  <1>1. AwaitsAck' = AwaitsAck /\ InShot' = InShot BY DEF AwaitsAck, InShot
  <1>2. Exchange' \subseteq Exchange BY DEF Exchange, Less, AckCmds
  <1>3. Exchanges' BY <1>2, FreeIs DEF InStep, Exchanges, Less, FedKinds
  <1>4. Results' BY FreeIs DEF InStep, Results, Less
  <1>5. Stages' BY <1>1, FreeIs, FreeAgain DEF InStep, Stages, Less
  <1>6. Triggers' BY <1>1, FreeIs, FreeAgain DEF InStep, Triggers, Less
  <1>7. Beliefs' BY FreeIs, FreeAgain DEF InStep, Beliefs, Less, FedKinds
  <1> QED BY <1>3, <1>4, <1>5, <1>6, <1>7 DEF InStep

LEMMA DropsInStep ==
  ASSUME InStep, Drops, armed' = armed, mode' = mode, Less, Wrote(out')
  PROVE  InStep'
  <1>1. Free /\ Free' BY DEF Drops, NoOp, Free
  <1>2. out' = <<>> BY DEF Drops
  <1> QED BY <1>1, <1>2, WroteNothing, IdlesInStep

\* An operation begins: nothing is on its way that it could mistake for an
\* answer.
LEMMA BeginsInStep ==
  ASSUME InStep, Begins, armed' = armed, mode' = mode, Less, Wrote(out'), ConfigureOnlyDisarmed'
  PROVE  InStep'
  <1>0. Free BY DEF Begins
  <1>1. AwaitsAck' = AwaitsAck /\ InShot' = InShot BY DEF AwaitsAck, InShot
  <1>2. Exchange = {} BY <1>0, FreeIs DEF InStep, Exchanges
  <1>3. ~Drains' /\ ~AwaitsResult' /\ ~At("Shot", "WaitingForArmAck")' /\ ~AwaitsArmAck' /\ ~AwaitsArmed'
    BY DEF Begins, Drains, AwaitsResult, AwaitsArmAck, AwaitsArmed, At
  <1>4. CASE At("Keepalive", "Collecting")' /\ CmdsIn(out') = {"StatusPoll"}
    <2>1. Free' BY <1>4 DEF At, Free
    <2>2. /\ Asked' = Asked \cup {"StatusPoll"}
          /\ OneAckAsked => OneAckAsked'
          /\ OneResultAsked => OneResultAsked'
          /\ DataAckFirst => DataAckFirst'
      BY <1>4 DEF Wrote, AckCmds
    <2> QED BY <1>0, <2>1, <2>2, IdlesInStep
  <1>5. CASE At("Arm", "WaitDspStatus")' /\ AsksFor(out', "StatusPoll")
    <2>1. /\ Asked' = Asked \cup {"StatusPoll"}
          /\ OneAckAsked => OneAckAsked'
          /\ OneResultAsked => OneResultAsked'
          /\ DataAckFirst => DataAckFirst'
      BY <1>5, WroteOne DEF AckCmds
    <2>2. active'.kind = "Arm" BY <1>5 DEF At
    <2>3. Exchange' = {} BY <1>2, <2>1 DEF Exchange, Less, AckCmds
    <2>4. Exchanges' BY <1>0, <2>1, <2>3, FreeIs DEF InStep, Exchanges, Less, FedKinds
    <2>5. Results' BY <1>0, <2>1, FreeIs DEF InStep, Results, Less
    <2>6. Stages' BY <1>0, <1>1, <1>3, <2>1, FreeIs DEF InStep, Stages, Less
    <2>7. Triggers' BY <1>0, <1>1, <1>3, FreeIs DEF InStep, Triggers, Less
    <2>8. Beliefs' BY <1>0, <1>3, <2>1, <2>2, FreeIs DEF InStep, Beliefs, Less, FedKinds
    <2> QED BY <2>4, <2>5, <2>6, <2>7, <2>8 DEF InStep
  <1>6. CASE /\ At("Disarm", "WaitAck")' \/ At("AvrConfig", "WaitInitGateAck")'
             /\ AsksFor(out', "Commit")
    <2>0. Asked \cap AckCmds = {} /\ On \cap AckMsgs = {} BY <1>2 DEF Exchange
    <2>1. /\ Asked' = Asked \cup {"Commit"}
          /\ OneAckAsked => OneAckAsked'
          /\ OneResultAsked => OneResultAsked'
          /\ DataAckFirst => DataAckFirst'
      BY <1>6, <2>0, WroteOne
    <2>2. active'.kind \in {"Disarm", "AvrConfig"} /\ AwaitsAnAck'
      BY <1>6 DEF At, AwaitsAnAck, ConfigAckSteps
    <2>3. Exchange' = {"Commit"} BY <2>0, <2>1 DEF Exchange, Less, AckCmds
    <2>4. Exchanges' BY <1>0, <2>1, <2>2, <2>3, FreeIs DEF InStep, Exchanges, Less, FedKinds
    <2>5. Results' BY <1>0, <2>1, FreeIs DEF InStep, Results, Less
    <2>6. Stages' BY <1>0, <1>1, <1>3, <2>1, FreeIs DEF InStep, Stages, Less
    <2>7. Triggers' BY <1>0, <1>1, <1>3, FreeIs DEF InStep, Triggers, Less
    <2>8. Beliefs'
      BY <1>0, <1>3, <2>1, <2>2, FreeIs DEF InStep, Beliefs, Less, FedKinds, ConfigureOnlyDisarmed
    <2> QED BY <2>4, <2>5, <2>6, <2>7, <2>8 DEF InStep
  <1> QED BY <1>4, <1>5, <1>6 DEF Begins

LEMMA GivesUpInStep ==
  ASSUME InStep, GivesUp, armed' = armed, mode' = mode, wire' = wire, pending' = pending, Wrote(out')
  PROVE  InStep'
  <1>1. On = {} /\ Asked = {} /\ mode = "disarmed" /\ Drains
    BY QuietIs DEF InStep, Stages, GivesUp
  <1>2. AwaitsAck' = AwaitsAck /\ InShot' = InShot BY DEF AwaitsAck, InShot
  <1>3. /\ Asked' = {"Arm"} /\ On' = {}
        /\ OneAckAsked => OneAckAsked'
        /\ OneResultAsked => OneResultAsked'
        /\ DataAckFirst => DataAckFirst'
    BY <1>1, WroteOne, LineSame DEF GivesUp
  <1>4. /\ AwaitsArmAck' /\ AwaitsAnAck' /\ active'.kind = "Shot"
        /\ ~Drains' /\ ~AwaitsResult' /\ ~AwaitsArmed'
    BY DEF GivesUp, At, AwaitsArmAck, AwaitsAnAck, Drains, AwaitsResult, AwaitsArmed
  <1>5. Exchange' = {"Arm"} BY <1>3 DEF Exchange, AckCmds
  <1>6. Exchanges' BY <1>3, <1>4, <1>5, LineSame DEF InStep, Exchanges
  <1>7. Results' BY <1>3, LineSame DEF InStep, Results
  <1>8. Stages' BY <1>1, <1>3, <1>4, LineSame DEF InStep, Stages
  <1>9. Triggers' BY <1>3 DEF Triggers
  <1>10. Beliefs' BY <1>1, <1>3, <1>4 DEF InStep, Beliefs, Drains, At
  <1> QED BY <1>6, <1>7, <1>8, <1>9, <1>10 DEF InStep

LEMMA AloneInStep ==
  ASSUME InSession, InStep, PollAlone
  PROVE  InStep'
  <1>1. InSession' BY AloneInSession
  <1>2. /\ armed' = armed /\ inbox' = inbox \o out' /\ mode' = mode
        /\ wire' = wire /\ pending' = pending
        /\ Stands \/ Drops \/ Begins \/ GivesUp
    BY AloneMoves
  <1>3. TypeOK' /\ ConfigureOnlyDisarmed' BY <1>1 DEF InSession, Inv, Safe
  <1>4. Wrote(out') /\ Less BY <1>2, <1>3, WritesWrote, SameIsLess
  <1>5. CASE Stands
    <2>1. inbox \o <<>> = inbox BY DEF InSession, OnTheWay
    <2>2. inbox' = inbox BY <1>2, <1>5, <2>1 DEF Stands
    <2> QED BY <1>2, <1>5, <2>2, StaysInStep DEF Stands
  <1>6. CASE Drops BY <1>2, <1>4, <1>6, DropsInStep
  <1>7. CASE Begins BY <1>2, <1>3, <1>4, <1>7, BeginsInStep
  <1>8. CASE GivesUp BY <1>2, <1>4, <1>8, GivesUpInStep
  <1> QED BY <1>2, <1>5, <1>6, <1>7, <1>8

-----------------------------------------------------------------------------
(* A receipt keeps the client and the device in step.                      *)

LEMMA TakesEmptiesExchange ==
  ASSUME InStep, NEW e, Takes(e), e.msg \in AckMsgs
  PROVE  e.msg \in Exchange /\ Exchange = {e.msg} /\ Asked \cap AckCmds = {} /\ On' \cap AckMsgs = {}
  <1>1. OneAck /\ e.msg \in On BY DEF InStep, Exchanges, Takes
  <1>2. e.msg \in Exchange BY <1>1 DEF Exchange
  <1>3. Exchange = {e.msg} BY <1>2 DEF InStep, Exchanges
  <1>4. Asked \cap AckCmds = {} BY <1>3 DEF Exchange, AckCmds, AckMsgs
  <1>5. On' \cap AckMsgs = {} BY <1>1 DEF Takes
  <1> QED BY <1>2, <1>3, <1>4, <1>5

LEMMA PassesInStep ==
  ASSUME TypeOK, InStep, NEW e, Takes(e), Passes(e), mode' = mode, Wrote(out')
  PROVE  InStep'
  <1>1. Free /\ Free' /\ out' = <<>> BY DEF Passes, Free
  <1>2. /\ Asked' = Asked
        /\ OneAckAsked => OneAckAsked'
        /\ OneResultAsked => OneResultAsked'
        /\ DataAckFirst => DataAckFirst'
    BY <1>1, WroteNothing
  <1>3. CASE NotAShot(e)
    <2>1. Less BY <1>3, TakesLess
    <2>2. armed' = armed BY <1>3 DEF Passes, NotAShot, TypeOK
    <2> QED BY <1>1, <1>2, <2>1, <2>2, IdlesInStep
  <1>4. CASE e.msg = "BALL TRIGGER"
    <2>1. ~armed' BY <1>4 DEF Passes
    <2>2. "BALL TRIGGER" \in On /\ On' \subseteq On BY <1>4 DEF Takes
    <2>3. InShot /\ ~Drains /\ ~AwaitsResult BY <1>1, <2>2, FreeIs DEF InStep, Triggers
    <2>4. AwaitsAck' = AwaitsAck /\ InShot' = InShot BY DEF AwaitsAck, InShot
    <2>5. mode # "armed" BY <2>3 DEF InShot
    <2>6. Exchange' \subseteq Exchange BY <1>2, <2>2 DEF Exchange
    <2>7. /\ OneAck => OneAck'
          /\ OneResult => OneResult'
          /\ OneProcessed => OneProcessed'
          /\ OneIdle => OneIdle'
          /\ TriggerFirst => TriggerFirst'
      BY DEF Takes
    <2>8. Exchanges' BY <1>1, <1>2, <2>6, <2>7, FreeIs DEF InStep, Exchanges, FedKinds
    <2>9. Results' BY <1>1, <1>2, <2>2, <2>7, FreeIs DEF InStep, Results
    <2>10. Stages' BY <1>1, <1>2, <2>2, <2>4, <2>7, FreeIs, FreeAgain DEF InStep, Stages
    <2>11. Triggers' BY <1>1, <2>3, <2>4, FreeAgain DEF Triggers
    <2>12. Beliefs' BY <1>1, <2>1, <2>5, FreeAgain DEF InStep, Beliefs, FedKinds
    <2> QED BY <2>8, <2>9, <2>10, <2>11, <2>12 DEF InStep
  <1> QED BY <1>3, <1>4 DEF Passes, NotAShot

LEMMA ShotBeginsInStep ==
  ASSUME InStep, NEW e, Takes(e), ShotBegins(e), mode' = mode, Wrote(out'), Held' \subseteq On'
  PROVE  InStep'
  <1>1. Free /\ armed' = armed /\ e.msg = "PROCESSED" BY DEF ShotBegins
  <1>2. AwaitsAck' = AwaitsAck /\ InShot' = InShot BY DEF AwaitsAck, InShot
  <1>3. AwaitsAck BY <1>1 DEF Takes, InStep, Stages
  <1>4. mode # "armed" BY <1>3 DEF AwaitsAck
  <1>5. /\ active'.kind = "Shot" /\ Drains' /\ ~AwaitsResult' /\ ~AwaitsArmAck' /\ ~AwaitsArmed'
        /\ ~At("Shot", "WaitingForArmAck")'
        /\ active'.timer # 0
    BY DEF ShotBegins, At, Drains, AwaitsResult, AwaitsArmAck, AwaitsArmed, Unset
  <1>6. /\ OneAck => OneAck'
        /\ OneResult => OneResult'
        /\ OneProcessed => OneProcessed' /\ "PROCESSED" \notin On'
        /\ OneIdle => OneIdle'
        /\ TriggerFirst => TriggerFirst' /\ ("BALL TRIGGER" \in On' => "BALL TRIGGER" \in Held')
        /\ On' \subseteq On /\ On \subseteq On' \cup {"PROCESSED"}
    BY <1>1 DEF Takes
  <1>7. OneProcessed /\ TriggerFirst BY DEF InStep, Stages
  <1>8. Exchange = {} BY <1>1, FreeIs DEF InStep, Exchanges
  <1>9. "ShotResultReq" \notin Asked /\ "ClubResult" \notin On /\ "IDLE" \notin On
    BY <1>1, FreeIs DEF InStep, Results, Stages
  <1>10. /\ Asked' = Asked \cup {"ShotDataAck"}
         /\ OneAckAsked => OneAckAsked'
         /\ OneResultAsked => OneResultAsked'
         /\ DataAckFirst => DataAckFirst'
    BY <1>9 DEF ShotBegins, Wrote, AckCmds
  <1>11. Exchange' = {} BY <1>6, <1>8, <1>10 DEF Exchange, AckCmds
  <1>12. Exchanges' BY <1>1, <1>6, <1>10, <1>11, FreeIs DEF InStep, Exchanges, FedKinds
  <1>13. Results' BY <1>6, <1>9, <1>10 DEF InStep, Results
  <1>14. Stages' BY <1>2, <1>3, <1>5, <1>6, <1>7, <1>9, <1>10 DEF InStep, Stages
  <1>15. Triggers' BY <1>5, <1>6, <1>7, <1>9 DEF Triggers
  <1>16. Beliefs' BY <1>1, <1>4, <1>5, <1>6, FreeIs DEF InStep, Beliefs, FedKinds
  <1> QED BY <1>12, <1>13, <1>14, <1>15, <1>16 DEF InStep

LEMMA DisarmFed ==
  ASSUME InStep, active.kind = "Disarm", NEW e, Takes(e), IsFed(e), mode' = mode, Wrote(out')
  PROVE  InStep'
  <1>1. Less /\ armed' = armed /\ active'.kind = "Disarm" BY TakesLess DEF IsFed
  <1>2. DisarmMove(active, e.msg, active', out') BY DEF IsFed, MovesOn
  <1>3. /\ Asked' = Asked
        /\ OneAckAsked => OneAckAsked'
        /\ OneResultAsked => OneResultAsked'
        /\ DataAckFirst => DataAckFirst'
    BY <1>2, WroteNothing DEF DisarmMove
  <1>4. /\ ~Drains /\ ~AwaitsResult /\ ~AwaitsArmAck /\ ~AwaitsArmed
        /\ ~Drains' /\ ~AwaitsResult' /\ ~AwaitsArmAck' /\ ~AwaitsArmed'
        /\ ~At("Shot", "WaitingForArmAck")'
    BY <1>1 DEF Drains, AwaitsResult, AwaitsArmAck, AwaitsArmed, At
  <1>5. AwaitsAck' = AwaitsAck /\ InShot' = InShot BY DEF AwaitsAck, InShot
  <1>6. Exchange' \subseteq Exchange BY <1>1, <1>3 DEF Exchange, Less
  <1>7. Exchange' # {} => AwaitsAnAck'
    <2>1. CASE active'.step = active.step
      BY <1>1, <1>6, <2>1 DEF InStep, Exchanges, AwaitsAnAck, AwaitsArmAck, At
    <2>2. CASE e.msg = "ConfigAck"
      BY <1>3, <2>2, TakesEmptiesExchange DEF Exchange, AckMsgs
    <2>3. CASE active.step \in {"WaitModeReset", "WaitStateIdle"}
      <3>1. ~AwaitsAnAck BY <2>3 DEF AwaitsAnAck, AwaitsArmAck, At
      <3> QED BY <1>6, <3>1 DEF InStep, Exchanges
    <2> QED BY <1>2, <2>1, <2>2, <2>3 DEF DisarmMove
  <1>8. Exchanges' BY <1>1, <1>3, <1>4, <1>6, <1>7 DEF InStep, Exchanges, Less
  <1>9. Results' BY <1>1, <1>3, <1>4 DEF InStep, Results, Less
  <1>10. Stages' BY <1>1, <1>3, <1>4, <1>5 DEF InStep, Stages, Less
  <1>11. Triggers' BY <1>1, <1>4, <1>5 DEF InStep, Triggers, Less
  <1>12. Beliefs' BY <1>1, <1>3, <1>4 DEF InStep, Beliefs, Less
  <1> QED BY <1>8, <1>9, <1>10, <1>11, <1>12 DEF InStep

LEMMA AvrConfigFed ==
  ASSUME InStep, active.kind = "AvrConfig", NEW e, Takes(e), IsFed(e), mode' = mode, Wrote(out'),
         ConfigureOnlyDisarmed
  PROVE  InStep'
  <1>1. Less /\ armed' = armed /\ active'.kind = "AvrConfig" BY TakesLess DEF IsFed
  <1>2. AvrConfigMove(active, e.msg, active', out') /\ active'.step # "Done" BY DEF IsFed, MovesOn
  <1>3. ~armed BY DEF ConfigureOnlyDisarmed
  <1>4. /\ ~Drains /\ ~AwaitsResult /\ ~AwaitsArmAck /\ ~AwaitsArmed
        /\ ~Drains' /\ ~AwaitsResult' /\ ~AwaitsArmAck' /\ ~AwaitsArmed'
        /\ ~At("Shot", "WaitingForArmAck")'
    BY <1>1 DEF Drains, AwaitsResult, AwaitsArmAck, AwaitsArmed, At
  <1>5. AwaitsAck' = AwaitsAck /\ InShot' = InShot BY DEF AwaitsAck, InShot
  <1>6. /\ AwaitsAnAck <=> active.step \in ConfigAckSteps
        /\ AwaitsAnAck' <=> active'.step \in ConfigAckSteps
    BY <1>1, <1>4 DEF AwaitsAnAck, At
  <1>7. ASSUME Asked \subseteq Asked', Asked' \subseteq Asked \cup {"ParamValue", "Commit", "ModeSet", "RadarCal"},
               Exchange' # {} => AwaitsAnAck',
               \A x, y \in Exchange' : x = y,
               OneAckAsked => OneAckAsked', OneResultAsked => OneResultAsked',
               DataAckFirst => DataAckFirst'
        PROVE  InStep'
    <2>1. Exchanges' BY <1>1, <1>4, <1>7 DEF InStep, Exchanges, Less
    <2>2. Results' BY <1>1, <1>4, <1>7 DEF InStep, Results, Less
    <2>3. Stages' BY <1>1, <1>4, <1>5, <1>7 DEF InStep, Stages, Less
    <2>4. Triggers' BY <1>1, <1>4, <1>5 DEF InStep, Triggers, Less
    <2>5. Beliefs' BY <1>1, <1>3, <1>4 DEF InStep, Beliefs, Less
    <2> QED BY <2>1, <2>2, <2>3, <2>4, <2>5 DEF InStep
  <1>8. CASE active'.step = active.step /\ out' = <<>>
    <2>1. /\ Asked' = Asked
          /\ OneAckAsked => OneAckAsked'
          /\ OneResultAsked => OneResultAsked'
          /\ DataAckFirst => DataAckFirst'
      BY <1>8, WroteNothing
    <2>2. Exchange' \subseteq Exchange BY <1>1, <2>1 DEF Exchange, Less
    <2> QED BY <1>6, <1>7, <1>8, <2>1, <2>2 DEF InStep, Exchanges
  <1>9. ASSUME active.step \in ConfigAckSteps => e.msg = "ConfigAck"
        PROVE  Asked \cap AckCmds = {} /\ On' \cap AckMsgs = {}
    <2>1. CASE e.msg = "ConfigAck" BY <2>1, TakesEmptiesExchange DEF AckMsgs
    <2>2. CASE active.step \notin ConfigAckSteps
      <3>1. Exchange = {} BY <1>6, <2>2 DEF InStep, Exchanges
      <3> QED BY <1>1, <3>1 DEF Exchange, Less
    <2> QED BY <1>9, <2>1, <2>2
  <1>10. CASE /\ active.step \in ConfigAckSteps => e.msg = "ConfigAck"
              /\ \E x \in {"ParamValue", "Commit"} : AsksFor(out', x)
              /\ active'.step \in ConfigAckSteps
    <2>1. PICK x \in {"ParamValue", "Commit"} : AsksFor(out', x) BY <1>10
    <2>2. Asked \cap AckCmds = {} /\ On' \cap AckMsgs = {} BY <1>9, <1>10
    <2>3. /\ Asked' = Asked \cup {x}
          /\ OneAckAsked => OneAckAsked'
          /\ OneResultAsked => OneResultAsked'
          /\ DataAckFirst => DataAckFirst'
      BY <2>1, <2>2, WroteOne
    <2>4. Exchange' = {x} BY <2>1, <2>2, <2>3 DEF Exchange, AckCmds
    <2> QED BY <1>6, <1>7, <1>10, <2>1, <2>3, <2>4
  <1>11. CASE /\ active.step \in ConfigAckSteps => e.msg = "ConfigAck"
              /\ \E x \in {"ModeSet", "RadarCal"} : AsksFor(out', x)
    <2>1. PICK x \in {"ModeSet", "RadarCal"} : AsksFor(out', x) BY <1>11
    <2>2. Asked \cap AckCmds = {} /\ On' \cap AckMsgs = {} BY <1>9, <1>11
    <2>3. /\ Asked' = Asked \cup {x}
          /\ OneAckAsked => OneAckAsked'
          /\ OneResultAsked => OneResultAsked'
          /\ DataAckFirst => DataAckFirst'
      BY <2>1, <2>2, WroteOne
    <2>4. Exchange' = {} BY <2>1, <2>2, <2>3 DEF Exchange, AckCmds
    <2> QED BY <1>7, <2>1, <2>3, <2>4
  <1> QED BY <1>2, <1>8, <1>10, <1>11 DEF AvrConfigMove

LEMMA ArmFed ==
  ASSUME InStep, active.kind = "Arm", NEW e, Takes(e), IsFed(e), mode' = mode, Wrote(out')
  PROVE  InStep'
  <1>1. Less /\ armed' = armed /\ active'.kind = "Arm" BY TakesLess DEF IsFed
  <1>2. ArmMove(active, e.msg, active', out') /\ active'.step # "Done" BY DEF IsFed, MovesOn
  <1>3. /\ ~Drains /\ ~AwaitsResult /\ ~Drains' /\ ~AwaitsResult'
        /\ ~At("Shot", "WaitingForArmAck")'
        /\ AwaitsAnAck <=> active.step = "WaitArmAck"
        /\ AwaitsAnAck' <=> active'.step = "WaitArmAck"
        /\ AwaitsArmAck <=> active.step = "WaitArmAck"
        /\ AwaitsArmAck' <=> active'.step = "WaitArmAck"
        /\ AwaitsArmed <=> active.step = "WaitPiAndArmed"
        /\ AwaitsArmed' <=> active'.step = "WaitPiAndArmed"
    BY <1>1 DEF Drains, AwaitsResult, AwaitsAnAck, AwaitsArmAck, AwaitsArmed, At
  <1>4. AwaitsAck' = AwaitsAck /\ InShot' = InShot BY DEF AwaitsAck, InShot
  <1>5. ASSUME Asked \subseteq Asked', Asked' \subseteq Asked \cup {"StatusPoll", "Arm"},
               Exchange' # {} \/ "Arm" \in Asked' => AwaitsArmAck',
               \A x, y \in Exchange' : x = y,
               OneAckAsked => OneAckAsked', OneResultAsked => OneResultAsked',
               DataAckFirst => DataAckFirst',
               AwaitsArmed' \/ (AwaitsArmAck' /\ "ConfigAck" \in On') =>
                 mode = "armed" \/ "BALL TRIGGER" \in On
        PROVE  InStep'
    <2>1. Exchanges' BY <1>1, <1>3, <1>5 DEF InStep, Exchanges, Less
    <2>2. Results' BY <1>1, <1>3, <1>5 DEF InStep, Results, Less
    <2>3. Stages' BY <1>1, <1>3, <1>4, <1>5 DEF InStep, Stages, Less
    <2>4. Triggers' BY <1>1, <1>3, <1>4 DEF InStep, Triggers, Less
    <2>5. Beliefs' BY <1>1, <1>3, <1>5 DEF InStep, Beliefs, Less
    <2> QED BY <2>1, <2>2, <2>3, <2>4, <2>5 DEF InStep
  <1>6. CASE active'.step = active.step /\ out' = <<>>
    <2>1. /\ Asked' = Asked
          /\ OneAckAsked => OneAckAsked'
          /\ OneResultAsked => OneResultAsked'
          /\ DataAckFirst => DataAckFirst'
      BY <1>6, WroteNothing
    <2>2. Exchange' \subseteq Exchange BY <1>1, <2>1 DEF Exchange, Less
    <2>3. Exchange' # {} \/ "Arm" \in Asked' => AwaitsArmAck'
      BY <1>3, <1>6, <2>1, <2>2 DEF InStep, Exchanges
    <2>4. AwaitsArmed' \/ (AwaitsArmAck' /\ "ConfigAck" \in On') =>
            mode = "armed" \/ "BALL TRIGGER" \in On
      BY <1>1, <1>3, <1>6 DEF InStep, Beliefs, Less
    <2> QED BY <1>5, <2>1, <2>2, <2>3, <2>4 DEF InStep, Exchanges
  <1>7. CASE \/ active.step = "WaitDspStatus" /\ active'.step = "WaitAvrStatus"
             \/ active.step = "WaitArmAck" /\ e.msg = "ConfigNack" /\ active'.step = "WaitDspStatus"
             \/ active.step = "WaitArmAck" /\ e.msg = "ConfigAck" /\ active'.step = "WaitPiAndArmed"
    <2>1. AsksFor(out', "StatusPoll") BY <1>2, <1>7 DEF ArmMove
    <2>2. /\ Asked' = Asked \cup {"StatusPoll"}
          /\ OneAckAsked => OneAckAsked'
          /\ OneResultAsked => OneResultAsked'
          /\ DataAckFirst => DataAckFirst'
      BY <2>1, WroteOne DEF AckCmds
    <2>3. Asked \cap AckCmds = {} /\ On' \cap AckMsgs = {}
      <3>1. CASE e.msg \in AckMsgs BY <3>1, TakesEmptiesExchange
      <3>2. CASE active.step # "WaitArmAck"
        <4>1. Exchange = {} BY <1>3, <3>2 DEF InStep, Exchanges
        <4> QED BY <1>1, <4>1 DEF Exchange, Less
      <3> QED BY <1>7, <3>1, <3>2 DEF AckMsgs
    <2>4. Exchange' = {} /\ "Arm" \notin Asked' BY <2>2, <2>3 DEF Exchange, AckCmds
    <2>5. AwaitsArmed' \/ (AwaitsArmAck' /\ "ConfigAck" \in On') =>
            mode = "armed" \/ "BALL TRIGGER" \in On
      BY <1>3, <1>7 DEF InStep, Beliefs, Takes
    <2> QED BY <1>5, <2>2, <2>4, <2>5
  <1>8. CASE active.step = "WaitAvrStatus" /\ active'.step = "WaitArmAck"
    <2>1. AsksFor(out', "Arm") BY <1>2, <1>8 DEF ArmMove
    <2>2. Exchange = {} BY <1>3, <1>8 DEF InStep, Exchanges
    <2>3. Asked \cap AckCmds = {} /\ On' \cap AckMsgs = {} BY <1>1, <2>2 DEF Exchange, Less
    <2>4. /\ Asked' = Asked \cup {"Arm"}
          /\ OneAckAsked => OneAckAsked'
          /\ OneResultAsked => OneResultAsked'
          /\ DataAckFirst => DataAckFirst'
      BY <2>1, <2>3, WroteOne
    <2>5. Exchange' = {"Arm"} BY <2>3, <2>4 DEF Exchange, AckCmds
    <2>6. AwaitsArmed' \/ (AwaitsArmAck' /\ "ConfigAck" \in On') =>
            mode = "armed" \/ "BALL TRIGGER" \in On
      BY <1>3, <1>8, <2>3 DEF AckMsgs
    <2>7. AwaitsArmAck' BY <1>3, <1>8
    <2> QED BY <1>5, <2>4, <2>5, <2>6, <2>7
  <1> QED BY <1>2, <1>6, <1>7, <1>8 DEF ArmMove

LEMMA ShotFedInStep ==
  ASSUME InStep, active.kind = "Shot", NEW e, Takes(e), IsFed(e), mode' = mode, Wrote(out'),
         Held' \subseteq On', DrainTimeout # 0
  PROVE  InStep'
  <1>1. Less /\ armed' = armed /\ active'.kind = "Shot" BY TakesLess DEF IsFed
  <1>2. /\ ShotMove(active, e.msg, active', out') /\ active'.step # "Done"
        /\ active'.timer \in {active.timer, DrainTimeout}
    BY DEF IsFed, MovesOn
  <1>3. /\ Drains <=> active.step = "Draining"
        /\ Drains' <=> active'.step = "Draining"
        /\ AwaitsResult <=> active.step = "WaitingForClubResult"
        /\ AwaitsResult' <=> active'.step = "WaitingForClubResult"
        /\ At("Shot", "WaitingForArmAck") <=> active.step = "WaitingForArmAck"
        /\ At("Shot", "WaitingForArmAck")' <=> active'.step = "WaitingForArmAck"
        /\ AwaitsAnAck <=> active.step = "WaitingForArmAck"
        /\ AwaitsAnAck' <=> active'.step = "WaitingForArmAck"
        /\ AwaitsArmAck <=> active.step = "WaitingForArmAck"
        /\ AwaitsArmAck' <=> active'.step = "WaitingForArmAck"
        /\ AwaitsArmed <=> active.step = "WaitingForArmed"
        /\ AwaitsArmed' <=> active'.step = "WaitingForArmed"
    BY <1>1 DEF Drains, AwaitsResult, AwaitsAnAck, AwaitsArmAck, AwaitsArmed, At
  <1>4. AwaitsAck' = AwaitsAck /\ InShot' = InShot BY DEF AwaitsAck, InShot
  <1>5. ~Quiet /\ e.msg \in On BY QuietIs DEF Takes
  <1>6. CASE active'.step = active.step /\ out' = <<>>
    <2>1. /\ Asked' = Asked
          /\ OneAckAsked => OneAckAsked'
          /\ OneResultAsked => OneResultAsked'
          /\ DataAckFirst => DataAckFirst'
      BY <1>6, WroteNothing
    <2>2. Exchange' \subseteq Exchange BY <1>1, <2>1 DEF Exchange, Less
    <2>3. Exchanges' BY <1>1, <1>3, <1>6, <2>1, <2>2 DEF InStep, Exchanges, Less
    <2>4. Results' BY <1>1, <1>3, <1>6, <2>1 DEF InStep, Results, Less
    <2>5. Drains' => active'.timer # 0 BY <1>2, <1>3, <1>5, <1>6 DEF InStep, Stages
    <2>6. Stages' BY <1>1, <1>3, <1>4, <1>6, <2>1, <2>5 DEF InStep, Stages, Less
    <2>7. Triggers'
      <3>1. Held # {} => Held' \subseteq Held /\ Held \subseteq Held' \cup {e.msg} BY DEF Takes
      <3>2. e.msg # "BALL TRIGGER" BY DEF IsFed, NotAShot
      <3> QED BY <1>1, <1>3, <1>4, <1>6, <3>1, <3>2 DEF InStep, Triggers, Less
    <2>8. Beliefs' BY <1>1, <1>3, <1>6, <2>1 DEF InStep, Beliefs, Less
    <2> QED BY <2>3, <2>4, <2>6, <2>7, <2>8 DEF InStep
  <1>7. CASE active.step = "Draining" /\ e.msg = "IDLE" /\ active'.step = "WaitingForClubResult"
               /\ AsksFor(out', "ShotResultReq")
    <2>1. mode = "disarmed" /\ "IDLE" \notin On' BY <1>5, <1>7 DEF InStep, Stages, Takes
    <2>2. "BALL TRIGGER" \notin On
      <3>1. Held # {} => "IDLE" \in Held BY <1>7 DEF Takes
      <3> QED BY <1>3, <1>7, <3>1 DEF InStep, Triggers
    <2>3. "ShotResultReq" \notin Asked /\ "ClubResult" \notin On BY <1>3, <1>7 DEF InStep, Results
    <2>4. /\ Asked' = Asked \cup {"ShotResultReq"}
          /\ OneAckAsked => OneAckAsked'
          /\ OneResultAsked => OneResultAsked'
          /\ DataAckFirst => DataAckFirst'
      BY <1>7, <2>3, WroteOne DEF AckCmds
    <2>5. Exchange = {} BY <1>3, <1>7 DEF InStep, Exchanges
    <2>6. Exchange' = {} BY <1>1, <2>4, <2>5 DEF Exchange, Less, AckCmds
    <2>7. Exchanges' BY <1>1, <1>3, <1>7, <2>4, <2>6 DEF InStep, Exchanges, Less
    <2>8. Results' BY <1>1, <1>3, <1>7, <2>3, <2>4 DEF InStep, Results, Less
    <2>9. Stages' BY <1>1, <1>3, <1>4, <1>7, <2>1, <2>4 DEF InStep, Stages, Less
    <2>10. Triggers' BY <1>1, <2>2 DEF Triggers, Less
    <2>11. Beliefs' BY <1>1, <1>3, <1>7, <2>2 DEF InStep, Beliefs, Less
    <2> QED BY <2>7, <2>8, <2>9, <2>10, <2>11 DEF InStep
  <1>8. CASE active.step = "WaitingForClubResult" /\ e.msg = "ClubResult"
               /\ active'.step = "WaitingForArmAck" /\ AsksFor(out', "Arm")
    <2>1. mode = "disarmed" BY <1>3, <1>8 DEF InStep, Stages
    <2>2. "BALL TRIGGER" \notin On BY <1>3, <1>8 DEF InStep, Triggers
    <2>3. /\ "ShotDataAck" \notin Asked /\ "ShotResultReq" \notin Asked
          /\ "ClubResult" \notin On'
      BY <1>5, <1>8 DEF InStep, Results, Takes
    <2>4. Exchange = {} BY <1>3, <1>8 DEF InStep, Exchanges
    <2>5. Asked \cap AckCmds = {} /\ On' \cap AckMsgs = {} BY <1>1, <2>4 DEF Exchange, Less
    <2>6. /\ Asked' = Asked \cup {"Arm"}
          /\ OneAckAsked => OneAckAsked'
          /\ OneResultAsked => OneResultAsked'
          /\ DataAckFirst => DataAckFirst'
      BY <1>8, <2>5, WroteOne
    <2>7. Exchange' = {"Arm"} BY <2>5, <2>6 DEF Exchange, AckCmds
    <2>8. "Commit" \notin Asked BY <2>5 DEF AckCmds
    <2>9. Exchanges' BY <1>1, <1>3, <1>8, <2>6, <2>7, <2>8 DEF InStep, Exchanges, Less
    <2>10. Results' BY <1>1, <2>3, <2>6 DEF InStep, Results, Less
    <2>11. Stages' BY <1>1, <1>3, <1>4, <1>8, <2>1, <2>3, <2>6 DEF InStep, Stages, Less
    <2>12. Triggers' BY <1>1, <2>2 DEF Triggers, Less
    <2>13. Beliefs' BY <1>1, <1>3, <1>8, <2>2, <2>5 DEF InStep, Beliefs, Less, AckMsgs
    <2> QED BY <2>9, <2>10, <2>11, <2>12, <2>13 DEF InStep
  <1>9. CASE active.step = "WaitingForArmAck" /\ e.msg = "ConfigAck"
               /\ active'.step = "WaitingForArmed" /\ out' = <<>>
    <2>1. /\ Asked' = Asked
          /\ OneAckAsked => OneAckAsked'
          /\ OneResultAsked => OneResultAsked'
          /\ DataAckFirst => DataAckFirst'
      BY <1>9, WroteNothing
    <2>2. Asked \cap AckCmds = {} /\ On' \cap AckMsgs = {}
      BY <1>9, TakesEmptiesExchange DEF AckMsgs
    <2>3. Exchange' = {} /\ "Arm" \notin Asked /\ "Commit" \notin Asked
      BY <2>1, <2>2 DEF Exchange, AckCmds
    <2>4. Exchanges' BY <1>1, <2>1, <2>3 DEF InStep, Exchanges, Less
    <2>5. Results' BY <1>1, <1>3, <1>9, <2>1 DEF InStep, Results, Less
    <2>6. Stages' BY <1>1, <1>3, <1>4, <1>9, <2>1 DEF InStep, Stages, Less
    <2>7. Triggers' BY <1>1, <1>3, <1>4, <1>9 DEF InStep, Triggers, Less
    <2>8. Beliefs' BY <1>1, <1>3, <1>5, <1>9 DEF InStep, Beliefs, Less
    <2> QED BY <2>4, <2>5, <2>6, <2>7, <2>8 DEF InStep
  <1> QED BY <1>2, <1>6, <1>7, <1>8, <1>9 DEF ShotMove

\* An operation is done, and the device has reached what it was done for.
LEMMA DoneInStep ==
  ASSUME InStep, NEW e, Takes(e), IsDone(e), mode' = mode, Wrote(out'),
         ConfigureOnlyDisarmed
  PROVE  InStep'
  <1>1. Less /\ active'.kind = "None" BY TakesLess DEF IsDone, NoOp
  <1>2. /\ Asked' = Asked
        /\ OneAckAsked => OneAckAsked'
        /\ OneResultAsked => OneResultAsked'
        /\ DataAckFirst => DataAckFirst'
    BY WroteNothing DEF IsDone
  <1>3. Free' BY <1>1 DEF Free
  <1>4. AwaitsAck' = AwaitsAck /\ InShot' = InShot BY DEF AwaitsAck, InShot
  <1>5. ~Drains /\ ~AwaitsResult /\ ~AwaitsArmAck
    BY DEF IsDone, Drains, AwaitsResult, AwaitsArmAck, ConfigAckSteps, At
  <1>6. Exchange' = {}
    <2>1. CASE e.msg = "ConfigAck"
      BY <1>2, <2>1, TakesEmptiesExchange DEF Exchange, AckMsgs
    <2>2. CASE active.kind # "AvrConfig"
      <3>1. ~AwaitsAnAck BY <1>5, <2>2 DEF IsDone, AwaitsAnAck, At
      <3> QED BY <1>1, <1>2, <3>1 DEF InStep, Exchanges, Exchange, Less
    <2> QED BY <2>1, <2>2 DEF IsDone, At
  <1>7. "Commit" \notin Asked /\ "Arm" \notin Asked /\ "ParamValue" \notin Asked
    BY <1>2, <1>6 DEF Exchange, AckCmds
  <1>8. Exchanges' BY <1>1, <1>2, <1>6, <1>7 DEF InStep, Exchanges, Less
  <1>9. Results' BY <1>1, <1>2, <1>5 DEF InStep, Results, Less
  <1>10. Stages' BY <1>1, <1>2, <1>3, <1>4, <1>5, <1>7, FreeAgain DEF InStep, Stages, Less
  <1>11. Triggers' BY <1>1, <1>3, <1>4, <1>5, FreeAgain DEF InStep, Triggers, Less
  <1>12. Beliefs'
    <2>1. ~AwaitsArmed' /\ ~AwaitsArmAck' BY <1>3, FreeAgain
    <2>2. /\ mode = "armed" /\ ~armed' => FALSE
          /\ armed' /\ mode # "armed" => "BALL TRIGGER" \in On
      <3>1. CASE At("Disarm", "WaitStateIdle") /\ armed' = FALSE
        BY <1>7, <3>1 DEF InStep, Beliefs, At
      <3>2. CASE active.kind = "AvrConfig" /\ armed' = armed
        BY <3>2 DEF InStep, Beliefs, ConfigureOnlyDisarmed
      <3>3. CASE (At("Arm", "WaitPiAndArmed") \/ At("Shot", "WaitingForArmed")) /\ armed' = TRUE
        BY <3>3 DEF InStep, Beliefs, AwaitsArmed
      <3> QED BY <3>1, <3>2, <3>3 DEF IsDone
    <2> QED BY <1>1, <2>1, <2>2 DEF Beliefs, Less
  <1> QED BY <1>8, <1>9, <1>10, <1>11, <1>12 DEF InStep

LEMMA HeldAlways == OnTheWay => Held \subseteq On
  BY HeldIsOn

LEMMA ReceiptInStep ==
  ASSUME InSession, InStep, NEW e, NEW k, Receive(e, k), Takes(e), ~swallowed'
  PROVE  InStep'
  <1>1. InSession' BY ReceiptInSession
  <1>2. /\ inbox' = inbox \o out' /\ mode' = mode
        /\ Passes(e) \/ ShotBegins(e) \/ KeepaliveEnds(e) \/ IsFed(e) \/ IsDone(e)
    BY ReceiptMoves
  <1>3. TypeOK /\ TypeOK' /\ ConfigureOnlyDisarmed /\ ConfigureOnlyDisarmed'
    BY <1>1 DEF InSession, Inv, Safe
  <1>4. Wrote(out') BY <1>2, <1>3, WritesWrote
  <1>5. Held' \subseteq On'
    <2>1. OnTheWay' BY <1>1 DEF InSession
    <2>2. OnTheWay' => (Held \subseteq On)' BY HeldAlways, PTL
    <2> QED BY <2>1, <2>2
  <1>6. DrainTimeout # 0 BY TimeoutAssumption
  <1>7. CASE Passes(e) BY <1>2, <1>3, <1>4, <1>7, PassesInStep
  <1>8. CASE ShotBegins(e) BY <1>2, <1>4, <1>5, <1>8, ShotBeginsInStep
  <1>9. CASE KeepaliveEnds(e)
    <2>1. Less /\ armed' = armed /\ (Drops \/ Begins) BY <1>9, TakesLess DEF KeepaliveEnds
    <2> QED BY <1>2, <1>3, <1>4, <2>1, DropsInStep, BeginsInStep
  <1>10. CASE IsFed(e)
    <2>1. active.kind \in {"Disarm", "AvrConfig", "Arm", "Shot"} BY <1>10 DEF IsFed, FedKinds
    <2> QED BY <1>2, <1>3, <1>4, <1>5, <1>6, <1>10, <2>1, DisarmFed, AvrConfigFed, ArmFed, ShotFedInStep
  <1>11. CASE IsDone(e) BY <1>2, <1>3, <1>4, <1>11, DoneInStep
  <1> QED BY <1>2, <1>7, <1>8, <1>9, <1>10, <1>11

\* What the device sends comes to what is on its way.
Gets(ms) ==
  /\ On' = On \cup ms /\ Held' = Held
  /\ OneAck /\ (\A x, y \in ms \cap AckMsgs : x = y)
       /\ (On \cap AckMsgs = {} \/ ms \cap AckMsgs = {}) => OneAck'
  /\ OneResult /\ ("ClubResult" \notin On \/ "ClubResult" \notin ms) => OneResult'
  /\ OneProcessed /\ ("PROCESSED" \notin On \/ "PROCESSED" \notin ms) => OneProcessed'
  /\ OneIdle /\ ("IDLE" \notin On \/ "IDLE" \notin ms) => OneIdle'
  /\ TriggerFirst /\ ~({"BALL TRIGGER", "PROCESSED"} \subseteq ms)
       /\ ("PROCESSED" \notin On \/ "BALL TRIGGER" \notin ms) => TriggerFirst'

\* The client does nothing: it waits for what it waited for.
SameWaits ==
  /\ active'.kind = active.kind /\ active'.timer = active.timer /\ armed' = armed
  /\ Drains' = Drains /\ AwaitsResult' = AwaitsResult /\ AwaitsArmAck' = AwaitsArmAck
  /\ AwaitsArmed' = AwaitsArmed /\ AwaitsAnAck' = AwaitsAnAck
  /\ At("Shot", "WaitingForArmAck")' = At("Shot", "WaitingForArmAck")

LEMMA DeviceGets ==
  ASSUME InSession, Device
  PROVE  SameWaits /\ \E t : DeviceSends(t) /\ Gets(MsgsIn(t))
  <1>1. UNCHANGED <<vars, pending, swallowed, mixed>> /\ \E t : DeviceSends(t) BY DeviceMoves
  <1>2. PICK t : DeviceSends(t) BY <1>1
  <1>3. pending' = pending /\ active' = active /\ armed' = armed
    BY <1>1 DEF vars, opVars, shotVars
  <1>4. Gets(MsgsIn(t))
    <2> DEFINE ms == MsgsIn(t)
    <2>1. /\ On' = On \cup ms /\ Held' = Held
          /\ OneAck /\ (\A x, y \in ms \cap AckMsgs : x = y)
               /\ (On \cap AckMsgs = {} \/ ms \cap AckMsgs = {}) => OneAck'
          /\ OneResult /\ ("ClubResult" \notin On \/ "ClubResult" \notin ms) => OneResult'
          /\ OneProcessed /\ ("PROCESSED" \notin On \/ "PROCESSED" \notin ms) => OneProcessed'
          /\ OneIdle /\ ("IDLE" \notin On \/ "IDLE" \notin ms) => OneIdle'
          /\ TriggerFirst /\ ~({"BALL TRIGGER", "PROCESSED"} \subseteq ms)
               /\ ("PROCESSED" \notin On \/ "BALL TRIGGER" \notin ms) => TriggerFirst'
      BY <1>2, <1>3, Sent DEF DeviceSends, InSession
    <2> HIDE DEF ms
    <2>2. Gets(ms) BY <2>1 DEF Gets
    <2> QED BY <2>2 DEF ms
  <1>5. SameWaits
    BY <1>3 DEF SameWaits, Drains, AwaitsResult, AwaitsArmAck, AwaitsArmed, AwaitsAnAck, At
  <1> QED BY <1>2, <1>4, <1>5

\* A ball is hit, while the device is armed.
LEMMA HitInStep ==
  ASSUME InStep, NEW t, Hits(t), Gets(MsgsIn(t)), SameWaits
  PROVE  InStep'
  <1>1. /\ mode = "armed" /\ mode' = "triggered"
        /\ On' = On \cup {"BALL TRIGGER", "FlightResultV1"}
    BY DEF Hits, Gets
  <1>2. ~AwaitsAck /\ ~InShot /\ InShot' BY <1>1 DEF AwaitsAck, InShot
  <1>3. ~Drains /\ ~AwaitsResult BY <1>1, <1>2 DEF InStep, Stages
  <1>4. "PROCESSED" \notin On /\ "IDLE" \notin On /\ "ShotDataAck" \notin Asked
        /\ ~(At("Shot", "WaitingForArmAck") /\ "Arm" \in Asked)
    BY <1>1, <1>2, <1>3 DEF InStep, Stages
  <1>5. OneAck' /\ OneResult' /\ OneProcessed' /\ OneIdle' /\ TriggerFirst'
    BY <1>4 DEF Gets, Hits, InStep, Exchanges, Results, Stages, AckMsgs
  <1>6. /\ Asked' = Asked
        /\ OneAckAsked => OneAckAsked'
        /\ OneResultAsked => OneResultAsked'
        /\ DataAckFirst => DataAckFirst'
    BY InboxSame DEF Hits
  <1>7. Exchange' = Exchange BY <1>1, <1>6 DEF Exchange, AckMsgs
  <1>8. Exchanges' BY <1>5, <1>6, <1>7 DEF InStep, Exchanges, SameWaits
  <1>9. Results' BY <1>1, <1>5, <1>6 DEF InStep, Results, SameWaits
  <1>10. Stages' BY <1>1, <1>3, <1>4, <1>5, <1>6 DEF Stages, SameWaits
  <1>11. Triggers' BY <1>2, <1>3 DEF Triggers, SameWaits
  <1>12. Beliefs' BY <1>1, <1>6 DEF Beliefs, SameWaits
  <1> QED BY <1>8, <1>9, <1>10, <1>11, <1>12 DEF InStep

LEMMA MeasuredInStep ==
  ASSUME InStep, NEW t, Measures(t), Gets(MsgsIn(t)), SameWaits
  PROVE  InStep'
  <1>1. /\ mode = "triggered" /\ mode' \in {"processed", "processed without IDLE"}
        /\ On' = On \cup {"FlightResult", "PROCESSED"} /\ Held' = Held
    BY DEF Measures, Gets, AwaitsAck
  <1>2. ~AwaitsAck /\ InShot /\ InShot' /\ AwaitsAck' BY <1>1 DEF AwaitsAck, InShot
  <1>3. ~Drains /\ ~AwaitsResult BY <1>1, <1>2 DEF InStep, Stages
  <1>4. "PROCESSED" \notin On /\ "IDLE" \notin On /\ "ShotDataAck" \notin Asked
        /\ ~(At("Shot", "WaitingForArmAck") /\ "Arm" \in Asked)
    BY <1>1, <1>2, <1>3 DEF InStep, Stages
  <1>5. OneAck' /\ OneResult' /\ OneProcessed' /\ OneIdle' /\ TriggerFirst'
    BY <1>4 DEF Gets, Measures, InStep, Exchanges, Results, Stages, AckMsgs
  <1>6. /\ Asked' = Asked
        /\ OneAckAsked => OneAckAsked'
        /\ OneResultAsked => OneResultAsked'
        /\ DataAckFirst => DataAckFirst'
    BY InboxSame DEF Measures
  <1>7. Exchange' = Exchange BY <1>1, <1>6 DEF Exchange, AckMsgs
  <1>8. Exchanges' BY <1>5, <1>6, <1>7 DEF InStep, Exchanges, SameWaits
  <1>9. Results' BY <1>1, <1>5, <1>6 DEF InStep, Results, SameWaits
  <1>10. Stages' BY <1>1, <1>2, <1>3, <1>4, <1>5, <1>6 DEF Stages, SameWaits
  <1>11. Triggers' BY <1>2, <1>3 DEF Triggers, SameWaits
  <1>12. Beliefs' BY <1>1, <1>6 DEF InStep, Beliefs, SameWaits
  <1> QED BY <1>8, <1>9, <1>10, <1>11, <1>12 DEF InStep

\* A command is taken and ms is sent.
Answers(x, ms) ==
  /\ x \in Asked /\ Asked' \subseteq Asked /\ Asked \subseteq Asked' \cup {x}
  /\ OneAckAsked' /\ (x \in AckCmds => Asked' \cap AckCmds = {})
  /\ OneResultAsked' /\ (x = "ShotResultReq" => "ShotResultReq" \notin Asked')
  /\ DataAckFirst' /\ (x = "ShotResultReq" => "ShotDataAck" \notin Asked')
  /\ Gets(ms) /\ SameWaits
  /\ Drains => active.timer # 0

\* The answer is no acknowledgement of a configuration and no part of a shot.
LEMMA PlainInStep ==
  ASSUME InStep, NEW x, NEW ms, Answers(x, ms), mode' = mode,
         x \notin AckCmds, x = "ShotDataAck" => ~AwaitsAck,
         ms \cap {"BALL TRIGGER", "PROCESSED", "IDLE", "ConfigAck", "ConfigNack"} = {},
         "ClubResult" \in ms => x = "ShotResultReq"
  PROVE  InStep'
  <1>1. AwaitsAck' = AwaitsAck /\ InShot' = InShot BY DEF AwaitsAck, InShot
  <1>2. /\ On' = On \cup ms /\ Held' = Held
        /\ Asked' \subseteq Asked /\ Asked \subseteq Asked' \cup {x}
        /\ OneAckAsked' /\ OneResultAsked' /\ DataAckFirst' /\ SameWaits
        /\ Drains => active.timer # 0
    BY DEF Answers, Gets
  <1>3. ms \cap AckMsgs = {} BY DEF AckMsgs
  <1>4. "ClubResult" \in ms => /\ "ShotResultReq" \in Asked /\ "ClubResult" \notin On
                               /\ "ShotResultReq" \notin Asked' /\ "ShotDataAck" \notin Asked'
    BY DEF Answers, InStep, Results
  <1>5. OneAck' /\ OneResult' /\ OneProcessed' /\ OneIdle' /\ TriggerFirst'
    BY <1>3, <1>4 DEF Answers, Gets, InStep, Exchanges, Results, Stages
  <1>6. Exchange' \subseteq Exchange BY <1>2, <1>3 DEF Exchange
  <1>7. Exchanges' BY <1>2, <1>5, <1>6 DEF InStep, Exchanges, SameWaits
  <1>8. Results' BY <1>2, <1>4, <1>5 DEF InStep, Results, SameWaits
  <1>9. Stages' BY <1>1, <1>2, <1>5 DEF InStep, Stages, SameWaits
  <1>10. Triggers' BY <1>1, <1>2 DEF InStep, Triggers, SameWaits
  <1>11. Beliefs' BY <1>2 DEF InStep, Beliefs, SameWaits, AckCmds
  <1> QED BY <1>7, <1>8, <1>9, <1>10, <1>11 DEF InStep

\* One acknowledgement is asked for, and it is on its way alone.
LEMMA AckExchanges ==
  ASSUME InStep, NEW x, NEW ms, Answers(x, ms), x \in AckCmds, NEW a \in AckMsgs,
         ms \cap AckMsgs = {a}
  PROVE  /\ Exchanges' /\ AwaitsAnAck /\ Asked' \cap AckCmds = {} /\ On \cap AckMsgs = {}
         /\ x = "Arm" => AwaitsArmAck
         /\ x = "Commit" => active.kind \in {"Disarm", "AvrConfig"}
         /\ x = "ParamValue" => active.kind = "AvrConfig"
  <1>1. /\ On' = On \cup ms /\ x \in Asked /\ Asked' \cap AckCmds = {} /\ OneAckAsked' /\ SameWaits
    BY DEF Answers, Gets
  <1>2. x \in Exchange /\ AckCmds \cap AckMsgs = {} BY <1>1 DEF Exchange, AckCmds, AckMsgs
  <1>3. On \cap AckMsgs = {}
    <2> SUFFICES ASSUME NEW y \in On \cap AckMsgs PROVE FALSE OBVIOUS
    <2>1. y \in Exchange BY DEF Exchange
    <2> QED BY <1>2, <2>1 DEF InStep, Exchanges
  <1>4. OneAck' BY <1>3 DEF Answers, Gets, InStep, Exchanges
  <1>5. Exchange' = {a} BY <1>1, <1>3 DEF Exchange
  <1>6. "Arm" \notin Asked' /\ "Commit" \notin Asked' /\ "ParamValue" \notin Asked'
    BY <1>1 DEF AckCmds
  <1>7. AwaitsAnAck /\ AwaitsAnAck' BY <1>1, <1>2 DEF InStep, Exchanges, SameWaits
  <1>8. Exchanges' BY <1>1, <1>4, <1>5, <1>6, <1>7 DEF Exchanges
  <1> QED BY <1>1, <1>3, <1>7, <1>8 DEF InStep, Exchanges

LEMMA AckInStep ==
  ASSUME InStep, NEW x, NEW ms, Answers(x, ms), Replied(x, ms), x \in AckCmds,
         ConfigureOnlyDisarmed
  PROVE  InStep'
  <1>1. /\ On' = On \cup ms /\ Held' = Held
        /\ Asked' \subseteq Asked /\ Asked \subseteq Asked' \cup {x}
        /\ OneAckAsked' /\ OneResultAsked' /\ DataAckFirst' /\ SameWaits
        /\ Drains => active.timer # 0
    BY DEF Answers, Gets
  <1>2. ms \cap {"BALL TRIGGER", "PROCESSED", "IDLE", "ClubResult"} = {}
    BY DEF Replied, AckCmds
  <1>3. PICK a \in AckMsgs : ms \cap AckMsgs = {a}
    <2>1. CASE x = "ParamValue"
      <3>1. ms \cap AckMsgs = {"ConfigAck"} BY <2>1 DEF Replied, AckMsgs
      <3> QED BY <3>1 DEF AckMsgs
    <2>2. CASE x = "Commit"
      <3>1. ms \cap AckMsgs = {"ConfigAck"} BY <2>2 DEF Replied, AckMsgs
      <3> QED BY <3>1 DEF AckMsgs
    <2>3. CASE x = "Arm" /\ ~InShot
      <3>1. ms \cap AckMsgs = {"ConfigAck"} BY <2>3 DEF Replied, AckMsgs
      <3> QED BY <3>1 DEF AckMsgs
    <2>4. CASE x = "Arm" /\ InShot
      <3>1. ms \cap AckMsgs = {"ConfigNack"} BY <2>4 DEF Replied, AckMsgs
      <3> QED BY <3>1 DEF AckMsgs
    <2> QED BY <2>1, <2>2, <2>3, <2>4 DEF AckCmds
  <1>4. /\ Exchanges' /\ AwaitsAnAck /\ Asked' \cap AckCmds = {} /\ On \cap AckMsgs = {}
        /\ x = "Arm" => AwaitsArmAck
        /\ x = "Commit" => active.kind \in {"Disarm", "AvrConfig"}
        /\ x = "ParamValue" => active.kind = "AvrConfig"
    BY <1>3, AckExchanges
  <1>5. ~Drains /\ ~AwaitsResult
    BY <1>4 DEF AwaitsAnAck, AwaitsArmAck, Drains, AwaitsResult, At
  <1>6. "Arm" \notin Asked' /\ "Commit" \notin Asked' BY <1>4 DEF AckCmds
  <1>7. OneResult' /\ OneProcessed' /\ OneIdle' /\ TriggerFirst'
    BY <1>2 DEF Answers, Gets, InStep, Results, Stages
  <1>8. "IDLE" \notin On /\ "ShotDataAck" \notin Asked /\ ("PROCESSED" \in On => AwaitsAck)
        /\ ("BALL TRIGGER" \in On => InShot)
    BY <1>5 DEF InStep, Stages, Triggers
  <1>9. Results' BY <1>1, <1>2, <1>7 DEF InStep, Results, SameWaits
  <1>10. ASSUME InShot => mode' = mode PROVE Stages' /\ Triggers'
    <2>1. InShot => AwaitsAck' = AwaitsAck /\ InShot' BY <1>10 DEF AwaitsAck, InShot
    <2>2. AwaitsAck => InShot BY DEF AwaitsAck, InShot
    <2>3. Stages' BY <1>1, <1>2, <1>5, <1>6, <1>7, <1>8, <2>1, <2>2 DEF Stages, SameWaits
    <2>4. Triggers' BY <1>1, <1>2, <1>5, <1>8, <2>1 DEF Triggers, SameWaits
    <2> QED BY <2>3, <2>4
  <1>11. CASE x = "ParamValue"
    <2>1. mode' = mode BY <1>11 DEF Replied
    <2>2. ~AwaitsArmAck /\ ~AwaitsArmed /\ active.kind = "AvrConfig"
      BY <1>4, <1>11 DEF AwaitsArmAck, AwaitsArmed, At
    <2>3. Beliefs' BY <1>1, <1>2, <2>1, <2>2 DEF InStep, Beliefs, SameWaits
    <2> QED BY <1>4, <1>9, <1>10, <2>1, <2>3 DEF InStep
  <1>12. CASE x = "Commit" /\ mode # "armed"
    <2>1. mode' = mode BY <1>12 DEF Replied
    <2>2. ~AwaitsArmAck /\ ~AwaitsArmed
      BY <1>4, <1>12 DEF AwaitsArmAck, AwaitsArmed, At
    <2>3. Beliefs' BY <1>1, <1>2, <1>12, <2>1, <2>2 DEF InStep, Beliefs, SameWaits
    <2> QED BY <1>4, <1>9, <1>10, <2>1, <2>3 DEF InStep
  <1>13. CASE x = "Commit" /\ mode = "armed"
    <2>1. mode' = "disarmed" /\ ~InShot BY <1>13 DEF Replied, InShot
    <2>2. ~AwaitsArmAck /\ ~AwaitsArmed /\ active.kind \in {"Disarm", "AvrConfig"}
      BY <1>4, <1>13 DEF AwaitsArmAck, AwaitsArmed, At
    <2>3. armed => active.kind = "Disarm" BY <2>2 DEF ConfigureOnlyDisarmed
    <2>4. Beliefs' BY <1>1, <2>1, <2>2, <2>3 DEF InStep, Beliefs, SameWaits
    <2> QED BY <1>4, <1>9, <1>10, <2>1, <2>4 DEF InStep
  <1>14. CASE x = "Arm" /\ ~InShot
    <2>1. mode' = "armed" BY <1>14 DEF Replied
    <2>2. active.kind \in {"Arm", "Shot"} BY <1>4, <1>14 DEF AwaitsArmAck, At
    <2>3. Beliefs' BY <1>1, <2>1, <2>2 DEF Beliefs, SameWaits
    <2> QED BY <1>4, <1>9, <1>10, <1>14, <2>3 DEF InStep
  <1>15. CASE x = "Arm" /\ InShot
    <2>1. mode' = mode /\ ms = {"ConfigNack"} BY <1>15 DEF Replied
    <2>2. active.kind \in {"Arm", "Shot"} BY <1>4, <1>15 DEF AwaitsArmAck, At
    <2>3. Beliefs' BY <1>1, <2>1, <2>2 DEF InStep, Beliefs, SameWaits
    <2> QED BY <1>4, <1>9, <1>10, <2>1, <2>3 DEF InStep
  <1> QED BY <1>11, <1>12, <1>13, <1>14, <1>15 DEF AckCmds

\* The device takes the acknowledgement of the data of its shot.
LEMMA DataAckInStep ==
  ASSUME InStep, NEW ms, Answers("ShotDataAck", ms), AwaitsAck, mode' = "disarmed",
         {"SpinResult", "System State", "ModeAck"} \subseteq ms,
         ms \subseteq {"SpinResult", "System State", "ModeAck", "IDLE"}
  PROVE  InStep'
  <1>1. /\ On' = On \cup ms /\ Held' = Held
        /\ "ShotDataAck" \in Asked /\ Asked' \subseteq Asked
        /\ OneAckAsked' /\ OneResultAsked' /\ DataAckFirst' /\ SameWaits
        /\ Drains => active.timer # 0
    BY DEF Answers, Gets
  <1>2. mode # "disarmed" /\ mode # "armed" BY DEF AwaitsAck
  <1>3. Drains /\ ~AwaitsResult BY <1>1, <1>2 DEF InStep, Stages
  <1>4. ~AwaitsArmAck /\ ~AwaitsArmed /\ ~At("Shot", "WaitingForArmAck")
    BY <1>3 DEF Drains, AwaitsArmAck, AwaitsArmed, At
  <1>5. "PROCESSED" \notin On /\ "IDLE" \notin On BY <1>2, <1>3 DEF InStep, Stages
  <1>6. OneAck' /\ OneResult' /\ OneProcessed' /\ OneIdle' /\ TriggerFirst'
    BY <1>5 DEF Answers, Gets, InStep, Exchanges, Results, Stages, AckMsgs
  <1>7. Exchange' \subseteq Exchange BY <1>1 DEF Exchange, AckMsgs
  <1>8. Exchanges' BY <1>1, <1>6, <1>7 DEF InStep, Exchanges, SameWaits
  <1>9. Results' BY <1>1, <1>6 DEF InStep, Results, SameWaits
  <1>10. Stages' BY <1>1, <1>3, <1>4, <1>5, <1>6 DEF Stages, SameWaits
  <1>11. Triggers'
    <2> SUFFICES ASSUME "BALL TRIGGER" \in On' PROVE Drains' /\ "BALL TRIGGER" \in Held' /\ "IDLE" \notin Held'
      BY DEF Triggers
    <2>1. "BALL TRIGGER" \in On BY <1>1
    <2> QED BY <1>1, <1>3, <2>1 DEF InStep, Triggers, SameWaits
  <1>12. Beliefs' BY <1>1, <1>2, <1>4 DEF InStep, Beliefs, SameWaits
  <1> QED BY <1>8, <1>9, <1>10, <1>11, <1>12 DEF InStep

LEMMA AnsweredInStep ==
  ASSUME InStep, NEW x, NEW ms, Answers(x, ms), Replied(x, ms), ConfigureOnlyDisarmed
  PROVE  InStep'
  <1>1. CASE x \in AckCmds BY <1>1, AckInStep
  <1>2. CASE x = "ShotDataAck" /\ AwaitsAck
    <2>1. /\ mode' = "disarmed"
          /\ \/ ms = {"SpinResult", "System State", "ModeAck", "IDLE"}
             \/ ms = {"SpinResult", "System State", "ModeAck"}
      BY <1>2 DEF Replied
    <2> QED BY <1>2, <2>1, DataAckInStep
  <1>3. CASE x \notin AckCmds /\ ~(x = "ShotDataAck" /\ AwaitsAck)
    <2>1. mode' = mode BY <1>3 DEF Replied, AckCmds
    <2>2. ms \cap {"BALL TRIGGER", "PROCESSED", "IDLE", "ConfigAck", "ConfigNack"} = {}
      BY <1>3 DEF Replied, AckCmds, Statuses
    <2>3. "ClubResult" \in ms => x = "ShotResultReq"
      <3>1. \/ x = "StatusPoll" /\ ms \subseteq Statuses
            \/ x = "ModeSet" /\ ms = {"ModeSet"}
            \/ x = "RadarCal" /\ ms = {"RadarCal"}
            \/ x = "ShotResultReq"
            \/ x = "ShotDataAck" /\ ms = {}
        BY <1>3 DEF Replied, AckCmds
      <3>2. "ClubResult" \notin Statuses BY DEF Statuses
      <3> QED BY <3>1, <3>2
    <2> QED BY <1>3, <2>1, <2>2, <2>3, PlainInStep
  <1> QED BY <1>1, <1>2, <1>3

LEMMA DeviceInStep ==
  ASSUME InSession, InStep, Device
  PROVE  InStep'
  <1>1. SameWaits BY DeviceGets
  <1>2. PICK t : DeviceSends(t) /\ Gets(MsgsIn(t)) BY DeviceGets
  <1>3. CASE Hits(t) BY <1>1, <1>2, <1>3, HitInStep
  <1>4. CASE Measures(t) BY <1>1, <1>2, <1>4, MeasuredInStep
  <1>5. CASE TakesOne(t)
    <2> DEFINE x == Head(inbox).cmd
    <2>1. inbox # <<>> /\ inbox' = Tail(inbox) /\ Replied(x, MsgsIn(t)) BY <1>5 DEF TakesOne
    <2>2. Serves(Head(inbox)) BY <2>1, ServedFacts DEF InSession, OnTheWay
    <2>3. /\ x \in Asked /\ Asked' \subseteq Asked /\ Asked \subseteq Asked' \cup {x}
          /\ OneAckAsked => OneAckAsked' /\ (x \in AckCmds => Asked' \cap AckCmds = {})
          /\ OneResultAsked => OneResultAsked' /\ (x = "ShotResultReq" => "ShotResultReq" \notin Asked')
          /\ DataAckFirst => DataAckFirst' /\ (x = "ShotResultReq" => "ShotDataAck" \notin Asked')
      BY <2>2 DEF Serves
    <2> HIDE DEF x
    <2>4. Drains => active.timer # 0 BY <2>1 DEF InStep, Stages, Quiet
    <2>5. Answers(x, MsgsIn(t)) BY <1>1, <1>2, <2>3, <2>4 DEF Answers, InStep, Exchanges, Results
    <2>6. ConfigureOnlyDisarmed BY DEF InSession, Inv, Safe
    <2> QED BY <2>1, <2>5, <2>6, AnsweredInStep
  <1> QED BY <1>2, <1>3, <1>4, <1>5 DEF DeviceSends

-----------------------------------------------------------------------------
(* Every step, and the first state.                                        *)

LEMMA StartsInStep ==
  ASSUME SessionInit
  PROVE  InStep
  <1>1. Quiet BY DEF SessionInit, Quiet
  <1>2. On = {} /\ Held = {} /\ Asked = {} BY <1>1, QuietIs
  <1>3. Exchange = {} BY <1>2 DEF Exchange
  <1>4. /\ active.kind = "None" /\ (mode = "armed" <=> armed)
        /\ armed \in BOOLEAN /\ mode \in {"armed", "disarmed"}
    BY DEF SessionInit, NoOp
  <1>5. ~Drains /\ ~AwaitsResult /\ ~AwaitsArmAck /\ ~AwaitsArmed /\ ~At("Shot", "WaitingForArmAck")
    BY <1>4 DEF Drains, AwaitsResult, AwaitsArmAck, AwaitsArmed, At
  <1>6. \A S : Alone(Line, S) /\ Alone(inbox, S)
    <2>1. \A i \in 1..Len(Line) : Line[i].msg \in On BY DEF On, MsgsIn
    <2>2. \A i \in 1..Len(inbox) : inbox[i].cmd \in Asked BY DEF Asked, CmdsIn
    <2> QED BY <1>2, <2>1, <2>2 DEF Alone
  <1>7. \A S, T : Ahead(Line, S, T) /\ Ahead(inbox, S, T)
    <2>1. \A i \in 1..Len(Line) : Line[i].msg \in On BY DEF On, MsgsIn
    <2>2. \A i \in 1..Len(inbox) : inbox[i].cmd \in Asked BY DEF Asked, CmdsIn
    <2> QED BY <1>2, <2>1, <2>2 DEF Ahead
  <1>8. /\ OneAckAsked /\ OneAck /\ OneResultAsked /\ OneResult /\ DataAckFirst
        /\ OneProcessed /\ OneIdle /\ TriggerFirst
    BY <1>6, <1>7
       DEF OneAckAsked, OneAck, OneResultAsked, OneResult, DataAckFirst, OneProcessed, OneIdle,
           TriggerFirst
  <1>9. Exchanges BY <1>2, <1>3, <1>8 DEF Exchanges
  <1>10. Results BY <1>2, <1>8 DEF Results
  <1>11. Stages BY <1>2, <1>5, <1>8 DEF Stages
  <1>12. Triggers BY <1>2 DEF Triggers
  <1>13. Beliefs BY <1>4, <1>5 DEF Beliefs
  <1> QED BY <1>9, <1>10, <1>11, <1>12, <1>13 DEF InStep

\* As long as nothing was swallowed, the client and the device are in step.
Honest == ~swallowed => InSession /\ InStep

LEMMA HonestStays ==
  ASSUME Honest, SessionNext \/ UNCHANGED sessionVars
  PROVE  Honest'
  <1> SUFFICES ASSUME ~swallowed' PROVE InSession' /\ InStep' BY DEF Honest
  <1>1. InSession /\ InStep BY SwallowedStays DEF Honest
  <1>2. InSession' BY <1>1, StaysInSession
  <1>3. CASE Device BY <1>1, <1>2, <1>3, DeviceInStep
  <1>4. CASE SessionCalls
    <2>1. active' = active /\ armed' = armed /\ out' = <<>> BY <1>1, <1>4, CallInSession
    <2>2. inbox' = inbox \o out' /\ mode' = mode /\ wire' = wire /\ pending' = pending
      BY <1>4, CallsEnqueue
    <2>3. inbox \o <<>> = inbox BY <1>1 DEF InSession, OnTheWay
    <2>4. inbox' = inbox BY <2>1, <2>2, <2>3
    <2> QED BY <1>1, <1>2, <2>1, <2>2, <2>4, StaysInStep
  <1>5. CASE PollAlone BY <1>1, <1>2, <1>5, AloneInStep
  <1>6. CASE Arrives
    <2>1. PICK e, k : Receive(e, k) /\ Takes(e) BY <1>1, <1>6, Arrival DEF InSession
    <2> QED BY <1>1, <1>2, <2>1, ReceiptInStep
  <1>7. CASE TimePasses BY <1>1, <1>2, <1>7, TickMoves, StaysInStep
  <1>8. CASE UNCHANGED sessionVars
    <2>1. UNCHANGED <<inbox, wire, pending, mode, armed, active>>
      BY <1>8 DEF sessionVars, vars, opVars, shotVars, deviceVars
    <2> QED BY <1>1, <1>2, <2>1, StaysInStep
  <1> QED BY <1>3, <1>4, <1>5, <1>6, <1>7, <1>8 DEF SessionNext

LEMMA HonestBelieves ==
  ASSUME Honest
  PROVE  BeliefHonest
  <1> SUFFICES ASSUME Quiet, active = NoOp, ~swallowed PROVE armed <=> mode = "armed"
    BY DEF BeliefHonest
  <1>1. On = {} BY QuietIs
  <1>2. active.kind = "None" BY DEF NoOp
  <1> QED BY <1>1, <1>2 DEF Honest, InStep, Beliefs

\* Once nothing is under way, armed says what the device does, unless an
\* operation was fed a message of a shot (poll() and its sequencers).
THEOREM HonestAboutTheDevice == SessionSpec => []BeliefHonest
  <1>1. SessionInit => Honest BY StartsInSession, StartsInStep DEF Honest
  <1>2. Honest /\ [SessionNext]_sessionVars => Honest' BY HonestStays
  <1>3. Honest => BeliefHonest BY HonestBelieves
  <1> QED BY <1>1, <1>2, <1>3, PTL DEF SessionSpec

-----------------------------------------------------------------------------
(* What is owed to the caller is on its way, and will be returned.         *)

\* The early result of a shot is ahead of its PROCESSED.
EarlyFirst(t) == Ahead(t, Saying({"FlightResultV1"}), Saying({"PROCESSED"}))

PastDrain == active.kind = "Shot" /\ ~Drains

Deliveries ==
  /\ owed \subseteq ShotData /\ owed \subseteq On
  /\ shots \in Nat
  /\ shots = 0 => ~InShot /\ active.kind # "Shot" /\ On \cap ShotMessages = {}
  /\ Drains => "FlightResultV1" \notin On
  /\ PastDrain => DataLed(Line)
  /\ PastDrain /\ InShot => "BALL TRIGGER" \in On
  /\ DataFirst(Line) /\ EarlyFirst(Line)

LEMMA AheadOf ==
  ASSUME NEW t \in Seq(DeviceEnvelopes), NEW ms, NEW ns,
         MsgsIn(t) \cap ms = {} \/ MsgsIn(t) \cap ns = {}
  PROVE  Ahead(t, Saying(ms), Saying(ns))
  BY DEF Ahead, Saying, MsgsIn

LEMMA LedBy ==
  ASSUME NEW t \in Seq(DeviceEnvelopes), MsgsIn(t) \cap ShotData = {}
  PROVE  DataLed(t)
  BY DEF DataLed, Led, Saying, MsgsIn

LEMMA LineKept ==
  ASSUME wire' = wire, pending' = pending
  PROVE  Line' = Line /\ On' = On
  BY LineSame DEF Line

LEMMA DeliveriesKept ==
  ASSUME Deliveries, wire' = wire, pending' = pending, mode' = mode, shots' = shots,
         owed' = owed, active'.kind = active.kind, Drains' = Drains
  PROVE  Deliveries'
  <1>1. Line' = Line /\ On' = On BY LineKept
  <1>2. InShot' = InShot /\ PastDrain' = PastDrain BY DEF InShot, PastDrain
  <1>3. /\ DataLed(Line)' = DataLed(Line) /\ DataFirst(Line)' = DataFirst(Line)
        /\ EarlyFirst(Line)' = EarlyFirst(Line)
    BY <1>1 DEF DataLed, DataFirst, EarlyFirst, Led, Ahead, Saying
  <1> QED BY <1>1, <1>2, <1>3 DEF Deliveries

-----------------------------------------------------------------------------
(* The device sends.                                                       *)

\* What is sent comes behind the rest.
LEMMA SentBehind ==
  ASSUME OnTheWay, NEW t \in Seq(DeviceEnvelopes), wire' = wire \o t, pending' = pending
  PROVE  /\ DataFirst(Line) /\ DataFirst(t) /\ ("IDLE" \notin On \/ MsgsIn(t) \cap ShotData = {})
              => DataFirst(Line)'
         /\ EarlyFirst(Line) /\ EarlyFirst(t)
              /\ ("PROCESSED" \notin On \/ "FlightResultV1" \notin MsgsIn(t)) => EarlyFirst(Line)'
         /\ DataLed(Line) /\ (DataLed(t) \/ "BALL TRIGGER" \in On) => DataLed(Line)'
  <1>1. Line' = Line \o t /\ Line \in Seq(DeviceEnvelopes) BY LineGrows, LineTyped
  <1> DEFINE w == Line \o t
             D == Saying(ShotData)
             I == Saying({"IDLE"})
             E == Saying({"FlightResultV1"})
             P == Saying({"PROCESSED"})
             B == Saying({"BALL TRIGGER"})
  <1>2. D' = D /\ I' = I /\ E' = E /\ P' = P /\ B' = B BY DEF Saying
  <1>3. /\ Has(Line, I) <=> "IDLE" \in On
        /\ Has(Line, P) <=> "PROCESSED" \in On
        /\ Has(Line, B) <=> "BALL TRIGGER" \in On
        /\ Has(t, D) <=> MsgsIn(t) \cap ShotData # {}
        /\ Has(t, E) <=> "FlightResultV1" \in MsgsIn(t)
    <2>1. ASSUME NEW u \in Seq(DeviceEnvelopes), NEW m
          PROVE  Has(u, Saying({m})) <=> m \in MsgsIn(u)
      <3> DEFINE ms == {m}
      <3>1. Has(u, Saying(ms)) <=> MsgsIn(u) \cap ms # {} BY HasMsg
      <3> QED BY <3>1
    <2>2. Has(t, D) <=> MsgsIn(t) \cap ShotData # {} BY HasMsg
    <2>3. /\ Has(Line, I) <=> "IDLE" \in On
          /\ Has(Line, P) <=> "PROCESSED" \in On
          /\ Has(Line, B) <=> "BALL TRIGGER" \in On
      BY <1>1, <2>1 DEF On
    <2>4. Has(t, E) <=> "FlightResultV1" \in MsgsIn(t) BY <2>1
    <2> QED BY <2>2, <2>3, <2>4
  <1>4. /\ (DataFirst(Line) <=> Ahead(Line, D, I)) /\ (DataFirst(t) <=> Ahead(t, D, I))
        /\ (EarlyFirst(Line) <=> Ahead(Line, E, P)) /\ (EarlyFirst(t) <=> Ahead(t, E, P))
        /\ (DataLed(Line) <=> Led(Line, D, B)) /\ (DataLed(t) <=> Led(t, D, B))
    BY DEF DataFirst, EarlyFirst, DataLed
  <1>5. /\ Ahead(w, D, I) => DataFirst(Line)'
        /\ Ahead(w, E, P) => EarlyFirst(Line)'
        /\ Led(w, D, B) => DataLed(Line)'
    BY <1>1, <1>2 DEF DataFirst, EarlyFirst, DataLed, Ahead, Led
  <1> HIDE DEF w, D, I, E, P, B
  <1>6. /\ Ahead(Line, D, I) /\ Ahead(t, D, I) /\ ~(Has(Line, I) /\ Has(t, D)) => Ahead(w, D, I)
        /\ Ahead(Line, E, P) /\ Ahead(t, E, P) /\ ~(Has(Line, P) /\ Has(t, E)) => Ahead(w, E, P)
        /\ Led(Line, D, B) /\ (Led(t, D, B) \/ Has(Line, B)) => Led(w, D, B)
    BY <1>1, Joins DEF w
  <1> QED BY <1>3, <1>4, <1>5, <1>6

\* Shot messages are sent when a ball is hit, and while a shot is under way.
LEMMA SendsShot ==
  ASSUME InSession, InStep, NEW t, DeviceSends(t), ~Hits(t)
  PROVE  /\ shots' = shots /\ "FlightResultV1" \notin MsgsIn(t) /\ (InShot' => InShot)
         /\ MsgsIn(t) \cap ShotMessages = {} \/ InShot
         /\ MsgsIn(t) \cap ShotData = {} \/ mode # "disarmed"
  <1>1. CASE Measures(t)
    BY <1>1 DEF Measures, InShot
  <1>2. CASE TakesOne(t)
    <2> DEFINE x == Head(inbox).cmd
    <2>1. shots' = shots /\ Replied(x, MsgsIn(t)) BY <1>2 DEF TakesOne
    <2> HIDE DEF x
    <2>2. CASE x = "ShotDataAck" /\ AwaitsAck
      <3>1. /\ mode' = "disarmed" /\ InShot
            /\ MsgsIn(t) \subseteq {"SpinResult", "System State", "ModeAck", "IDLE"}
        BY <2>1, <2>2 DEF Replied, AwaitsAck, InShot
      <3> QED BY <2>1, <3>1 DEF InShot
    <2>3. CASE ~(x = "ShotDataAck" /\ AwaitsAck)
      <3>1. MsgsIn(t) \cap (ShotMessages \cup ShotData) = {}
        BY <2>1, <2>3 DEF Replied, ShotMessages, ShotData, Statuses
      <3>2. mode' = mode \/ mode' \in {"armed", "disarmed"} BY <2>1 DEF Replied
      <3>3. InShot' => InShot BY <3>2 DEF InShot
      <3> QED BY <2>1, <3>1, <3>3 DEF ShotData
    <2> QED BY <2>2, <2>3
  <1> QED BY <1>1, <1>2 DEF DeviceSends

LEMMA DeviceDelivers ==
  ASSUME InSession, InStep, Deliveries, Device
  PROVE  Deliveries'
  <1>1. SameWaits BY DeviceGets
  <1>2. PICK t : DeviceSends(t) /\ Gets(MsgsIn(t)) BY DeviceGets
  <1>3. /\ t \in Seq(DeviceEnvelopes) /\ wire' = wire \o t /\ pending' = pending /\ OnTheWay
        /\ DataFirst(t) /\ owed' \subseteq owed \cup (MsgsIn(t) \cap ShotData)
    BY <1>2, DeviceMoves DEF DeviceSends, InSession
  <1>4. /\ On' = On \cup MsgsIn(t) BY <1>2 DEF Gets
  <1>5. owed' \subseteq ShotData /\ owed' \subseteq On' BY <1>3, <1>4 DEF Deliveries
  <1>6. /\ active'.kind = active.kind /\ Drains' = Drains BY <1>1 DEF SameWaits
  <1>7. PastDrain' = PastDrain BY <1>6 DEF PastDrain
  <1>8. CASE Hits(t)
    <2>1. /\ mode = "armed" /\ shots' = shots + 1 /\ DataLed(t)
          /\ MsgsIn(t) = {"BALL TRIGGER", "FlightResultV1"}
      BY <1>8 DEF Hits
    <2>2. ~AwaitsAck BY <2>1 DEF AwaitsAck
    <2>3. "PROCESSED" \notin On /\ "IDLE" \notin On /\ ~Drains
      BY <2>1, <2>2 DEF InStep, Stages
    <2>4. EarlyFirst(t) BY <1>3, <2>1, AheadOf DEF EarlyFirst
    <2>5. /\ DataFirst(Line)' /\ EarlyFirst(Line)'
          /\ DataLed(Line) => DataLed(Line)'
      BY <1>3, <2>1, <2>3, <2>4, SentBehind DEF Deliveries
    <2>6. shots' \in Nat /\ shots' # 0
      <3>1. shots \in Nat /\ shots' = shots + 1 BY <2>1 DEF Deliveries
      <3> QED BY <3>1
    <2> QED BY <1>4, <1>5, <1>6, <1>7, <2>1, <2>3, <2>5, <2>6 DEF Deliveries
  <1>9. CASE ~Hits(t)
    <2>1. /\ shots' = shots /\ "FlightResultV1" \notin MsgsIn(t) /\ (InShot' => InShot)
          /\ MsgsIn(t) \cap ShotMessages = {} \/ InShot
          /\ MsgsIn(t) \cap ShotData = {} \/ mode # "disarmed"
      BY <1>2, <1>9, SendsShot
    <2>2. EarlyFirst(t) BY <1>3, <2>1, AheadOf DEF EarlyFirst
    <2>3. "IDLE" \notin On \/ MsgsIn(t) \cap ShotData = {} BY <2>1 DEF InStep, Stages
    <2>4. DataFirst(Line)' /\ EarlyFirst(Line)'
      BY <1>3, <2>1, <2>2, <2>3, SentBehind DEF Deliveries
    <2>5. PastDrain => DataLed(Line)'
      <3> HAVE PastDrain
      <3>1. CASE InShot BY <1>3, <3>1, SentBehind DEF Deliveries
      <3>2. CASE ~InShot
        <4>1. MsgsIn(t) \cap ShotData = {} BY <2>1, <3>2 DEF ShotMessages
        <4>2. DataLed(t) BY <1>3, <4>1, LedBy
        <4> QED BY <1>3, <4>2, SentBehind DEF Deliveries
      <3> QED BY <3>1, <3>2
    <2>6. shots = 0 => ~InShot' /\ On' \cap ShotMessages = {}
      BY <1>4, <2>1 DEF Deliveries
    <2> QED BY <1>4, <1>5, <1>6, <1>7, <2>1, <2>4, <2>5, <2>6 DEF Deliveries
  <1> QED BY <1>8, <1>9

-----------------------------------------------------------------------------
(* The client is on its own.                                               *)

LEMMA AloneDelivers ==
  ASSUME InSession, InStep, Deliveries, PollAlone
  PROVE  Deliveries'
  <1>1. /\ mode' = mode /\ wire' = wire /\ pending' = pending
        /\ Stands \/ Drops \/ Begins \/ GivesUp
    BY AloneMoves
  <1>2. shots' = shots /\ owed' = owed BY DEF PollAlone, Writes, deviceVars
  <1>3. CASE Stands
    <2>1. active' = active BY <1>3 DEF Stands
    <2>2. Drains' = Drains BY <2>1 DEF Drains, At
    <2> QED BY <1>1, <1>2, <2>1, <2>2, DeliveriesKept
  <1>4. Line' = Line /\ On' = On BY <1>1, LineKept
  <1>5. InShot' = InShot BY <1>1 DEF InShot
  <1>6. DataLed(Line)' = DataLed(Line) /\ DataFirst(Line)' = DataFirst(Line)
        /\ EarlyFirst(Line)' = EarlyFirst(Line)
    BY <1>4 DEF DataLed, DataFirst, EarlyFirst, Led, Ahead, Saying
  <1>7. CASE Drops \/ Begins
    <2>1. active'.kind # "Shot" BY <1>7 DEF Drops, Begins, At, NoOp
    <2>2. ~Drains' /\ ~PastDrain' BY <2>1 DEF Drains, At, PastDrain
    <2> QED BY <1>2, <1>4, <1>5, <1>6, <2>1, <2>2 DEF Deliveries
  <1>8. CASE GivesUp
    <2>1. Drains /\ active.timer = 0 /\ At("Shot", "WaitingForArmAck")' BY <1>8 DEF GivesUp
    <2>2. Quiet BY <2>1 DEF InStep, Stages
    <2>3. On = {} /\ Asked = {} BY <2>2, QuietIs
    <2>4. mode = "disarmed" BY <2>1, <2>3 DEF InStep, Stages
    <2>5. ~InShot BY <2>4 DEF InShot
    <2>6. DataLed(Line)
      <3>1. Line \in Seq(DeviceEnvelopes) BY LineTyped DEF InSession
      <3>2. MsgsIn(Line) \cap ShotData = {} BY <2>3 DEF On
      <3> QED BY <3>1, <3>2, LedBy
    <2>7. ~Drains' /\ active.kind = "Shot" BY <2>1 DEF Drains, At
    <2> QED BY <1>2, <1>4, <1>5, <1>6, <2>3, <2>5, <2>6, <2>7 DEF Deliveries
  <1> QED BY <1>1, <1>3, <1>7, <1>8

-----------------------------------------------------------------------------
(* The client receives.                                                    *)

\* e is handled before what was sent behind it.
InOrder(e) ==
  /\ EarlyFirst(Line)' /\ (e.msg = "PROCESSED" => "FlightResultV1" \notin On')
  /\ DataFirst(Line)' /\ (e.msg = "IDLE" => On' \cap ShotData = {})
  /\ DataLed(Line) => e.msg \notin ShotData /\ (e.msg # "BALL TRIGGER" => DataLed(Line)')

LEMMA OldestInOrder ==
  ASSUME OnTheWay, NEW j \in 1..Len(Line), Line' = Without(Line, j),
         j = 1 \/ Line[j].msg \notin ShotMessages, EarlyFirst(Line), DataFirst(Line)
  PROVE  InOrder(Line[j])
  <1> DEFINE w == Without(Line, j)
             e == Line[j]
             D == Saying(ShotData)
             I == Saying({"IDLE"})
             E == Saying({"FlightResultV1"})
             P == Saying({"PROCESSED"})
             B == Saying({"BALL TRIGGER"})
  <1>1. /\ Line \in Seq(DeviceEnvelopes) /\ w \in Seq(DeviceEnvelopes) /\ e \in DeviceEnvelopes
    <2>1. Line \in Seq(DeviceEnvelopes) BY LineTyped
    <2>2. w \in Seq(DeviceEnvelopes) BY <2>1, WithoutIs
    <2> QED BY <2>1, <2>2
  <1>2. D' = D /\ I' = I /\ E' = E /\ P' = P /\ B' = B BY DEF Saying
  <1>3. /\ e \in D <=> e.msg \in ShotData
        /\ e \in I <=> e.msg = "IDLE"
        /\ e \in P <=> e.msg = "PROCESSED"
        /\ e \in B <=> e.msg = "BALL TRIGGER"
    BY <1>1 DEF Saying
  <1>4. Ahead(Line, E, P) /\ Ahead(Line, D, I) /\ (DataLed(Line) <=> Led(Line, D, B))
    BY DEF EarlyFirst, DataFirst, DataLed
  <1>5. /\ Ahead(w, E, P) => EarlyFirst(Line)'
        /\ Ahead(w, D, I) => DataFirst(Line)'
        /\ Led(w, D, B) => DataLed(Line)'
    BY <1>2 DEF DataFirst, EarlyFirst, DataLed, Ahead, Led
  <1>6. On' = MsgsIn(w) BY DEF On, MsgsIn
  <1>7. /\ ~Has(w, E) => "FlightResultV1" \notin On'
        /\ ~Has(w, D) => On' \cap ShotData = {}
    <2> DEFINE ms == {"FlightResultV1"}
    <2>1. /\ Has(w, Saying(ms)) <=> MsgsIn(w) \cap ms # {}
          /\ Has(w, D) <=> MsgsIn(w) \cap ShotData # {}
      BY <1>1, HasMsg
    <2> HIDE DEF w, D
    <2> QED BY <1>6, <2>1
  <1>8. j = 1 \/ (e.msg # "PROCESSED" /\ e.msg # "IDLE" /\ e.msg \notin ShotData)
    BY DEF ShotMessages
  <1> HIDE DEF w, e, D, I, E, P, B
  <1>9. /\ Ahead(Line, E, P) => Ahead(w, E, P)
        /\ Ahead(Line, D, I) => Ahead(w, D, I)
        /\ Ahead(Line, E, P) /\ e \in P /\ j = 1 => ~Has(w, E)
        /\ Ahead(Line, D, I) /\ e \in I /\ j = 1 => ~Has(w, D)
        /\ e \notin B /\ Led(Line, D, B) => Led(w, D, B)
        /\ Led(Line, D, B) /\ j = 1 => e \notin D
    BY <1>1, WithoutKeeps DEF w, e
  <1>10. InOrder(e) BY <1>3, <1>4, <1>5, <1>7, <1>8, <1>9 DEF InOrder
  <1> QED BY <1>10 DEF e

\* A receipt returns the shot data it takes, unless the shot is past them.
LEMMA Returned ==
  ASSUME InSession, NEW e, NEW k, Receive(e, k), ~swallowed', e.msg \in ShotData,
         ~PastDrain, Drains => e.msg # "FlightResultV1"
  PROVE  ret' \in {"Message", "ShotDatum"}
  <1>0. TypeOK /\ (active.kind = "None" <=> active = NoOp) BY ActiveTyped DEF InSession, Inv
  <1>1. Handle(e) /\ ~(Feeds(e) /\ e.msg \in Foreign) BY DEF Receive
  <1>2. e.msg \in ShotMessages /\ e.msg \notin {"BALL TRIGGER", "PROCESSED"} /\ e.msg # "IDLE"
    BY DEF ShotMessages, ShotData
  <1>3. Feeds(e) => /\ active.kind = "Shot" /\ active.step = "Draining"
                    /\ e.msg \in {"FlightResult", "SpinResult"}
    <2> HAVE Feeds(e)
    <2>1. active.kind = "Shot" BY <1>1, <1>2 DEF Foreign
    <2>2. Drains BY <2>1 DEF PastDrain
    <2> QED BY <2>1, <2>2 DEF Drains, At, ShotData
  <1>4. ~Completes(e)
    <2> SUFFICES ASSUME Completes(e) PROVE FALSE OBVIOUS
    <2>1. Feeds(e) /\ IsComplete(Fed(active, e)) BY DEF Completes
    <2>2. active \in Sequencer /\ active.kind = "Shot" /\ active.step = "Draining"
      BY <1>0, <1>3, <2>1, ActiveTyped
    <2>3. Fed(active, e).kind = "Shot" BY <2>2, FedTyped
    <2>4. Fed(active, e).step = "Done" BY <2>1, <2>3 DEF IsComplete
    <2>5. ShotMove(active, e.msg, Fed(active, e), Replies(active, e)) BY <2>2, ShotMoves
    <2> QED BY <2>2, <2>4, <2>5 DEF ShotMove
  <1>5. ~SendMayFail BY SessionAssumption
  <1>6. CASE FeedActive(e)
    <2>1. Feeds(e) /\ Return(IF YieldsDatum(active, e) THEN "ShotDatum" ELSE "None")
      BY <1>6 DEF FeedActive
    <2>2. YieldsDatum(active, e) BY <1>3, <2>1 DEF YieldsDatum
    <2> QED BY <2>1, <2>2 DEF Return
  <1>7. CASE PassOn(e) BY <1>7 DEF PassOn, Return
  <1>8. ~Trigger(e) /\ ~Processed(e)
    BY <1>2 DEF Trigger, Processed
  <1>9. ~FinishDisarm(e) /\ ~FinishConfigure(e) /\ ~FinishArm(e) /\ ~FinishShot(e)
    BY <1>4 DEF FinishDisarm, FinishConfigure, FinishArm, FinishShot, Finish
  <1>10. ~FinishKeepalive(e) /\ ~FinishKeepaliveAndStart(e)
    BY <1>4 DEF FinishKeepalive, FinishKeepaliveAndStart, KeepaliveDone
  <1>11. ~NextPhase(e) /\ ~NextPhaseFails(e) /\ ~HandshakeDone(e)
    BY DEF NextPhase, NextPhaseFails, HandshakeDone, NextKind, InSession, FedKinds
  <1>12. ~FeedFails(e) /\ ~FinishKeepaliveStartFails(e) /\ ~ProcessedFails(e)
    BY <1>5 DEF FeedFails, FinishKeepaliveStartFails, StartHeadFails, ProcessedFails, WriteFails
  <1> QED BY <1>1, <1>6, <1>7, <1>8, <1>9, <1>10, <1>11, <1>12 DEF Handle

LEMMA ReceiptDelivers ==
  ASSUME InSession, InStep, Deliveries, NEW e, NEW k, Receive(e, k), Takes(e), TakenAt(e, k),
         ~swallowed', ~mixed'
  PROVE  Deliveries'
  <1>1. PICK j \in 1..Len(Line) : Line[j] = e /\ Line' = Without(Line, j) /\ (j = 1 \/ k > 1)
    BY DEF TakenAt
  <1>2. /\ mode' = mode
        /\ Passes(e) \/ ShotBegins(e) \/ KeepaliveEnds(e) \/ IsFed(e) \/ IsDone(e)
    BY ReceiptMoves
  <1>3. /\ shots' = shots /\ ~(shots > 0 /\ k > 1)
        /\ owed' = IF ret' \in {"Message", "ShotDatum"} THEN owed \ {e.msg} ELSE owed
    BY DEF Receive, Writes, deviceVars, BatchedBy
  <1>4. e.msg \in On /\ On' \subseteq On /\ On \subseteq On' \cup {e.msg} BY DEF Takes
  <1>5. j = 1 \/ Line[j].msg \notin ShotMessages
    <2>1. CASE shots = 0 BY <1>1, <1>4, <2>1 DEF Deliveries
    <2>2. CASE shots # 0
      <3>1. shots \in Nat BY DEF Deliveries
      <3>2. shots > 0 BY <2>2, <3>1
      <3> QED BY <1>1, <1>3, <3>2
    <2> QED BY <2>1, <2>2
  <1>6. InOrder(e) BY <1>1, <1>5, OldestInOrder DEF Deliveries, InSession
  <1>7. owed' \subseteq ShotData /\ owed' \subseteq On'
    <2>1. owed' \subseteq owed BY <1>3
    <2>2. CASE e.msg \notin ShotData BY <1>4, <2>1, <2>2 DEF Deliveries
    <2>3. CASE e.msg \in ShotData
      <3>1. ~PastDrain BY <1>6, <2>3 DEF InOrder, Deliveries
      <3>2. Drains => e.msg # "FlightResultV1" BY <1>4 DEF Deliveries
      <3>3. ret' \in {"Message", "ShotDatum"} BY <2>3, <3>1, <3>2, Returned
      <3>4. owed' = owed \ {e.msg} BY <1>3, <3>3
      <3> QED BY <1>4, <3>4 DEF Deliveries
    <2> QED BY <2>2, <2>3
  <1>8. InShot' = InShot BY <1>2 DEF InShot
  <1>9. active'.kind = "Shot" => active.kind = "Shot" \/ ShotBegins(e)
    <2>1. CASE Passes(e) BY <2>1 DEF Passes
    <2>2. CASE KeepaliveEnds(e) BY <2>2 DEF KeepaliveEnds, Drops, Begins, At, NoOp
    <2>3. CASE IsFed(e) BY <2>3 DEF IsFed
    <2>4. CASE IsDone(e) BY <2>4 DEF IsDone, NoOp
    <2> QED BY <1>2, <2>1, <2>2, <2>3, <2>4
  <1>10. shots' = 0 => ~InShot' /\ active'.kind # "Shot" /\ On' \cap ShotMessages = {}
    <2> HAVE shots' = 0
    <2>1. ~InShot /\ active.kind # "Shot" /\ On \cap ShotMessages = {} BY <1>3 DEF Deliveries
    <2>2. ~ShotBegins(e) BY <1>4, <2>1 DEF ShotBegins, ShotMessages
    <2> QED BY <1>4, <1>8, <1>9, <2>1, <2>2
  <1>11. CASE ShotBegins(e)
    <2>1. e.msg = "PROCESSED" /\ Drains' BY <1>11 DEF ShotBegins, Drains
    <2>2. "FlightResultV1" \notin On' BY <1>6, <2>1 DEF InOrder
    <2>3. ~PastDrain' BY <2>1 DEF PastDrain
    <2> QED BY <1>3, <1>6, <1>7, <1>10, <2>1, <2>2, <2>3 DEF Deliveries, InOrder
  <1>12. CASE active.kind = "Shot" /\ IsFed(e)
    <2>1. /\ ShotMove(active, e.msg, active', out') /\ e.msg # "BALL TRIGGER"
          /\ active'.kind = "Shot"
      BY <1>12 DEF IsFed, MovesOn, NotAShot
    <2>2. Drains' => Drains BY <1>12, <2>1 DEF ShotMove, Drains, At
    <2>3. Drains /\ ~Drains' => e.msg = "IDLE" BY <1>12, <2>1 DEF ShotMove, Drains, At
    <2>4. PastDrain' => PastDrain \/ e.msg = "IDLE" BY <1>12, <2>1, <2>3 DEF PastDrain
    <2>5. e.msg = "IDLE" => ~InShot' /\ DataLed(Line)'
      <3> HAVE e.msg = "IDLE"
      <3>1. mode = "disarmed" BY <1>4 DEF InStep, Stages
      <3>2. On' \cap ShotData = {} BY <1>6 DEF InOrder
      <3>3. DataLed(Line)'
        <4>1. \A i \in 1..Len(Line)' : Line'[i].msg \in On' BY DEF On, MsgsIn
        <4> QED BY <3>2, <4>1 DEF DataLed, Led, Saying
      <3> QED BY <1>8, <3>1, <3>3 DEF InShot
    <2>6. PastDrain => DataLed(Line)' /\ (InShot => "BALL TRIGGER" \in On')
      BY <1>4, <1>6, <2>1 DEF Deliveries, InOrder
    <2> QED BY <1>3, <1>4, <1>6, <1>7, <1>8, <1>10, <2>2, <2>4, <2>5, <2>6 DEF Deliveries, InOrder
  <1>13. CASE ~ShotBegins(e) /\ ~(active.kind = "Shot" /\ IsFed(e))
    <2>1. active'.kind # "Shot"
      <3>1. CASE Passes(e) BY <3>1 DEF Passes, Free
      <3>2. CASE KeepaliveEnds(e) BY <3>2 DEF KeepaliveEnds, Drops, Begins, At, NoOp
      <3>3. CASE IsFed(e) BY <1>13, <3>3 DEF IsFed
      <3>4. CASE IsDone(e) BY <3>4 DEF IsDone, NoOp
      <3> QED BY <1>2, <1>13, <3>1, <3>2, <3>3, <3>4
    <2>2. ~Drains' /\ ~PastDrain' BY <2>1 DEF Drains, At, PastDrain
    <2> QED BY <1>3, <1>6, <1>7, <1>10, <2>2 DEF Deliveries, InOrder
  <1> QED BY <1>11, <1>12, <1>13

-----------------------------------------------------------------------------
(* Every step, and the first state.                                        *)

LEMMA StartsDelivering ==
  ASSUME SessionInit
  PROVE  Deliveries
  <1>1. Quiet BY DEF SessionInit, Quiet
  <1>2. On = {} BY <1>1, QuietIs
  <1>3. /\ active.kind = "None" /\ mode \in {"armed", "disarmed"} /\ shots = 0 /\ owed = {}
    BY DEF SessionInit, NoOp
  <1>4. ~Drains /\ ~PastDrain /\ ~InShot BY <1>3 DEF Drains, At, PastDrain, InShot
  <1>5. \A S, T : Ahead(Line, S, T)
    <2>1. \A i \in 1..Len(Line) : Line[i].msg \in On BY DEF On, MsgsIn
    <2> QED BY <1>2, <2>1 DEF Ahead
  <1>6. DataFirst(Line) /\ EarlyFirst(Line) BY <1>5 DEF DataFirst, EarlyFirst
  <1> QED BY <1>2, <1>3, <1>4, <1>6 DEF Deliveries

\* As long as no read mixed the messages of a shot with others either, what
\* is owed will be returned.
Owing == ~swallowed /\ ~mixed => Deliveries

LEMMA OwingStays ==
  ASSUME Honest, Owing, SessionNext \/ UNCHANGED sessionVars
  PROVE  Owing'
  <1> SUFFICES ASSUME ~swallowed', ~mixed' PROVE Deliveries' BY DEF Owing
  <1>1. ~swallowed BY SwallowedStays
  <1>2. InSession /\ InStep BY <1>1 DEF Honest
  <1>3. ~mixed
    <2>1. Device => mixed' = mixed BY <1>2, DeviceMoves
    <2> QED BY <2>1
            DEF SessionNext, SessionCalls, Enqueues, PollAlone, BatchedBy, Arrives, ReceivePending,
                ReceiveRead, Receive, TimePasses, sessionVars, historyVars
  <1>4. Deliveries BY <1>1, <1>3 DEF Owing
  <1>5. CASE Device BY <1>2, <1>4, <1>5, DeviceDelivers
  <1>6. CASE SessionCalls
    <2>1. active' = active BY <1>2, <1>6, CallInSession
    <2>2. /\ wire' = wire /\ pending' = pending /\ mode' = mode /\ shots' = shots /\ owed' = owed
      BY <1>6 DEF SessionCalls, Enqueues, Writes, deviceVars, historyVars
    <2>3. Drains' = Drains BY <2>1 DEF Drains, At
    <2> QED BY <1>4, <2>1, <2>2, <2>3, DeliveriesKept
  <1>7. CASE PollAlone BY <1>2, <1>4, <1>7, AloneDelivers
  <1>8. CASE Arrives
    <2>1. PICK e, k : Receive(e, k) /\ Takes(e) /\ TakenAt(e, k)
      BY <1>2, <1>8, Arrival DEF InSession
    <2> QED BY <1>2, <1>4, <2>1, ReceiptDelivers
  <1>9. CASE TimePasses
    <2>1. /\ mode' = mode /\ wire' = wire /\ pending' = pending
          /\ active'.kind = active.kind /\ active'.step = active.step
      BY <1>2, <1>9, TickMoves
    <2>2. shots' = shots /\ owed' = owed BY <1>9 DEF TimePasses, deviceVars
    <2>3. Drains' = Drains BY <2>1 DEF Drains, At
    <2> QED BY <1>4, <2>1, <2>2, <2>3, DeliveriesKept
  <1>10. CASE UNCHANGED sessionVars
    <2>1. UNCHANGED <<wire, pending, mode, shots, owed, active>>
      BY <1>10 DEF sessionVars, vars, opVars, deviceVars, historyVars
    <2>2. Drains' = Drains BY <2>1 DEF Drains, At
    <2> QED BY <1>4, <2>1, <2>2, DeliveriesKept
  <1> QED BY <1>5, <1>6, <1>7, <1>8, <1>9, <1>10 DEF SessionNext

LEMMA OwingReturns ==
  ASSUME Owing
  PROVE  DataReturned
  <1> SUFFICES ASSUME Quiet, ~swallowed, ~mixed PROVE owed = {} BY DEF DataReturned
  <1>1. On = {} BY QuietIs
  <1> QED BY <1>1 DEF Owing, Deliveries

\* Every shot datum the device sends is returned by poll(), as a datum of the
\* shot or as a message, whatever the client does meanwhile, unless another
\* operation was fed it or a read mixed the messages of the shot.
THEOREM ShotDataReachTheCaller == SessionSpec => []DataReturned
  <1>1. SessionInit => Honest /\ Owing
    BY StartsInSession, StartsInStep, StartsDelivering DEF Honest, Owing
  <1>2. Honest /\ Owing /\ [SessionNext]_sessionVars => (Honest /\ Owing)'
    BY HonestStays, OwingStays
  <1>3. Owing => DataReturned BY OwingReturns
  <1> QED BY <1>1, <1>2, <1>3, PTL DEF SessionSpec

-----------------------------------------------------------------------------
(* What the active operation waits for is on its way, or what will bring   *)
(* it.                                                                     *)

\* Acknowledgements, ahead of what they announce; a status that is asked for.
ArmAnnounced == Sequel(Line, "ConfigAck", "ARMED")
CancelAnnounced == Sequels(Line, "ConfigAck", "ARMED CANCELLED", "System State")
IdleAnnounced == Sequel(Line, "ARMED CANCELLED", "System State")
Polled(d) == Has(inbox, {Cmd("StatusPoll", d)})

DisarmUnderway ==
  \/ "BALL TRIGGER" \in On
  \/ active.step = "WaitAck" /\ (("Commit" \in Asked /\ mode = "armed") \/ CancelAnnounced)
  \/ active.step = "WaitModeReset" /\ IdleAnnounced
  \/ active.step = "WaitStateIdle" /\ "System State" \in On
ConfigUnderway ==
  \/ active.step \in ConfigAckSteps /\ ("Commit" \in Asked \/ "ParamValue" \in Asked \/ "ConfigAck" \in On)
  \/ active.step = "WaitModeEcho" /\ ("ModeSet" \in Asked \/ "ModeSet" \in On)
  \/ active.step = "WaitRadarCalEcho" /\ ("RadarCal" \in Asked \/ "RadarCal" \in On)
ArmAckUnderway == "Arm" \in Asked \/ ArmAnnounced
ArmUnderway ==
  \/ active.step = "WaitDspStatus" /\ active.got = {}
       /\ (Polled("Dsp") \/ "DspStatus" \in On \/ "DspStatus6" \in On)
  \/ active.step = "WaitAvrStatus" /\ active.got = {} /\ (Polled("Avr") \/ "AvrStatus" \in On)
  \/ active.step = "WaitArmAck" /\ active.got = {} /\ (ArmAckUnderway \/ "ConfigNack" \in On)
  \/ /\ active.step = "WaitPiAndArmed"
     /\ active.got \in {{}, {"got_pi"}, {"got_armed"}}
     /\ "got_pi" \in active.got \/ Polled("Pi") \/ "PiStatus" \in On
     /\ "got_armed" \in active.got \/ "ARMED" \in On
ShotUnderway ==
  \/ active.step = "Draining"
       /\ ("IDLE" \in On \/ ("ShotDataAck" \in Asked /\ mode = "processed") \/ noIdle)
  \/ active.step = "WaitingForClubResult" /\ ("ShotResultReq" \in Asked \/ "ClubResult" \in On)
  \/ active.step = "WaitingForArmAck" /\ ArmAckUnderway
  \/ active.step = "WaitingForArmed" /\ "ARMED" \in On
Lost == batched /\ active.kind \in {"Arm", "Disarm", "Shot"}
Underway ==
  ~Lost =>
    /\ active.kind = "Disarm" => DisarmUnderway
    /\ active.kind = "AvrConfig" => ConfigUnderway
    /\ active.kind = "Arm" => ArmUnderway
    /\ active.kind = "Shot" => ShotUnderway

\* The drain has a deadline from its first flight result on, and that is
\* before the operation's.
DrainDated ==
  Drains => /\ "flight" \in active.got => active.timer # Unset
            /\ active.timer # Unset => active.timer < opLeft
            /\ "FlightResult" \in On => DrainTimeout < opLeft

\* An operation expires between two polls, and not for want of an answer.
Explained ==
  /\ Expired => pc = "ready"
  /\ Expired /\ active.kind \in FedKinds => Lost \/ UndatedDrain
  /\ ret = "Timeout" => Expired /\ active.kind \in FedKinds
IdleOmitted == mode = "processed without IDLE" => noIdle

\* The first of what is on its way is taken: what it announces is left.
TakesFirst(e) ==
  /\ ArmAnnounced => "ARMED" \in On' /\ (e.msg # "ConfigAck" => ArmAnnounced')
  /\ CancelAnnounced => IdleAnnounced' /\ (e.msg # "ConfigAck" => CancelAnnounced')
  /\ IdleAnnounced =>
       "System State" \in On' /\ (e.msg # "ARMED CANCELLED" => IdleAnnounced')

LEMMA FirstTakes ==
  ASSUME OnTheWay, OnTheWay', NEW e, NEW k, TakenAt(e, k), ~(k > 1)
  PROVE  TakesFirst(e)
  <1>1. Line \in Seq(DeviceEnvelopes) BY LineTyped
  <1>2. 1 \in 1..Len(Line) /\ Line[1] = e /\ Line' = Without(Line, 1) BY DEF TakenAt
  <1>3. \A m : e.msg # m => Line[1] \notin Saying({m}) BY <1>2 DEF Saying
  <1>4. \A S, T : HasPair(Line, S, T) =>
           Has(Line', T) /\ (Line[1] \notin S => HasPair(Line', S, T))
    BY <1>1, <1>2, FirstTaken
  <1>5. \A S, T, U : HasTriple(Line, S, T, U) =>
           HasPair(Line', T, U) /\ (Line[1] \notin S => HasTriple(Line', S, T, U))
    BY <1>1, <1>2, FirstTaken
  <1>6. \A m : Has(Line', Saying({m})) => m \in On'
    <2>1. \A m : Has(Line', Saying({m})) => \E i \in 1..Len(Line') : Line'[i].msg = m
      BY DEF Has, Saying
    <2> QED BY <2>1 DEF On, MsgsIn
  <1>7. ArmAnnounced => "ARMED" \in On' /\ (e.msg # "ConfigAck" => ArmAnnounced')
    BY <1>3, <1>4, <1>6 DEF ArmAnnounced, Sequel
  <1>8. CancelAnnounced => IdleAnnounced' /\ (e.msg # "ConfigAck" => CancelAnnounced')
    BY <1>3, <1>5 DEF CancelAnnounced, IdleAnnounced, Sequel, Sequels
  <1>9. IdleAnnounced =>
          "System State" \in On' /\ (e.msg # "ARMED CANCELLED" => IdleAnnounced')
    BY <1>3, <1>4, <1>6 DEF IdleAnnounced, Sequel
  <1> QED BY <1>7, <1>8, <1>9 DEF TakesFirst

\* What the device sends changes nothing of what is announced, and announces.
LEMMA SentAnnounces ==
  ASSUME OnTheWay, NEW t, DeviceSends(t), pending' = pending
  PROVE  /\ ArmAnnounced \/ "ARMED" \in MsgsIn(t) => ArmAnnounced'
         /\ CancelAnnounced \/ "ARMED CANCELLED" \in MsgsIn(t) => CancelAnnounced'
         /\ IdleAnnounced => IdleAnnounced'
  <1>1. t \in Seq(DeviceEnvelopes) /\ AckAnnounces(t) /\ wire' = wire \o t BY DEF DeviceSends
  <1>2. Line \in Seq(DeviceEnvelopes) BY LineTyped
  <1>3. Line' = Line \o t BY <1>1, LineGrows
  <1>4. \A S, T : HasPair(Line, S, T) \/ HasPair(t, S, T) => HasPair(Line', S, T)
    BY <1>1, <1>2, <1>3, JoinsInOrder
  <1>5. \A S, T, U : HasTriple(Line, S, T, U) \/ HasTriple(t, S, T, U) => HasTriple(Line', S, T, U)
    BY <1>1, <1>2, <1>3, JoinsInOrder
  <1>6. ArmAnnounced \/ "ARMED" \in MsgsIn(t) => ArmAnnounced'
    BY <1>1, <1>4 DEF AckAnnounces, ArmAnnounced, Sequel
  <1>7. CancelAnnounced \/ "ARMED CANCELLED" \in MsgsIn(t) => CancelAnnounced'
    BY <1>1, <1>5 DEF AckAnnounces, CancelAnnounced, Sequels
  <1>8. IdleAnnounced => IdleAnnounced' BY <1>4 DEF IdleAnnounced, Sequel
  <1> QED BY <1>6, <1>7, <1>8

\* A poll stays on its way while the client writes behind it.
LEMMA PollWritten ==
  ASSUME inbox \in Seq(Commands), NEW u \in Seq(Commands), inbox' = inbox \o u, NEW d
  PROVE  /\ Polled(d) => Polled(d)'
         /\ u = <<Cmd("StatusPoll", d)>> => Polled(d)'
  <1> DEFINE S == {Cmd("StatusPoll", d)}
  <1>1. Has(inbox', S) <=> Has(inbox, S) \/ Has(u, S) BY Joins
  <1>2. u = <<Cmd("StatusPoll", d)>> => Has(u, S) BY DEF Has
  <1> HIDE DEF S
  <1>3. (Polled(d)' <=> Has(inbox', S)) /\ (Polled(d) <=> Has(inbox, S)) BY DEF Polled, S
  <1> QED BY <1>1, <1>2, <1>3

\* The device answers the poll it takes.
LEMMA PollTaken ==
  ASSUME inbox \in Seq(Commands), NEW t, DeviceSends(t), NEW d, Polled(d)
  PROVE  \/ Polled(d)'
         \/ /\ d = "Dsp" => MsgsIn(t) \cap {"DspStatus", "DspStatus6"} # {}
            /\ d = "Avr" => "AvrStatus" \in MsgsIn(t)
            /\ d = "Pi" => "PiStatus" \in MsgsIn(t)
  <1> DEFINE S == {Cmd("StatusPoll", d)}
             ms == MsgsIn(t)
  <1>1. CASE inbox' = inbox BY <1>1 DEF Polled
  <1>2. CASE TakesOne(t)
    <2>1. inbox # <<>> /\ inbox' = Tail(inbox) /\ StatusReplied(Head(inbox), ms)
      BY <1>2 DEF TakesOne
    <2> HIDE DEF ms
    <2>2. 1 \in 1..Len(inbox) /\ Head(inbox) = inbox[1] /\ inbox' = Without(inbox, 1)
      BY <2>1, TailIs
    <2>3. CASE inbox[1] \in S
      <3>1. Head(inbox).cmd = "StatusPoll" /\ Head(inbox).dest = d BY <2>2, <2>3 DEF Cmd
      <3> QED BY <2>1, <3>1 DEF StatusReplied, ms
    <2>4. CASE inbox[1] \notin S
      <3>1. Has(inbox, S) BY DEF Polled
      <3> HIDE DEF S
      <3>2. Has(inbox', S) BY <2>2, <2>4, <3>1, WithoutKeeps
      <3> QED BY <3>2 DEF Polled, S
    <2> QED BY <2>3, <2>4
  <1> QED BY <1>1, <1>2 DEF DeviceSends, Hits, Measures

\* Whence the device's messages come.
LEMMA DeviceSourced ==
  ASSUME NEW e \in DeviceEnvelopes
  PROVE  Sourced(e)
  <1> DEFINE ds == {"DspStatus", "DspStatus6", "System State"}
             as == {"AvrStatus", "ConfigAck", "ConfigNack", "ARMED", "ARMED CANCELLED",
                    "ModeAck", "ModeSet", "RadarCal", "BALL TRIGGER", "FlightResultV1",
                    "FlightResult", "PROCESSED", "SpinResult", "IDLE", "ClubResult"}
  <1>1. DeviceEnvelopes = {Dsp(m) : m \in ds} \cup {Pi(m) : m \in {"PiStatus"}} \cup {Avr(m) : m \in as}
    BY DEF DeviceEnvelopes
  <1>2. \A m : /\ Dsp(m).src = "Dsp" /\ Pi(m).src = "Pi" /\ Avr(m).src = "Avr"
               /\ Dsp(m).msg = m /\ Pi(m).msg = m /\ Avr(m).msg = m
    BY DEF Avr, Dsp, Pi
  <1>3. /\ \A m \in ds : m \notin {"AvrStatus", "ConfigAck", "ConfigNack", "ModeSet", "RadarCal"}
        /\ \A m \in as : m \notin {"DspStatus", "DspStatus6"}
    OBVIOUS
  <1> HIDE DEF ds, as
  <1>4. \/ e.src = "Dsp" /\ e.msg \in ds
        \/ e.src = "Pi" /\ e.msg = "PiStatus"
        \/ e.src = "Avr" /\ e.msg \in as
    <2>1. CASE e \in {Dsp(m) : m \in ds}
      <3>1. PICK m \in ds : e = Dsp(m) BY <2>1
      <3>2. e.src = "Dsp" /\ e.msg = m BY <1>2, <3>1
      <3> QED BY <3>1, <3>2
    <2>2. CASE e \in {Pi(m) : m \in {"PiStatus"}} BY <1>2, <2>2
    <2>3. CASE e \in {Avr(m) : m \in as}
      <3>1. PICK m \in as : e = Avr(m) BY <2>3
      <3>2. e.src = "Avr" /\ e.msg = m BY <1>2, <3>1
      <3> QED BY <3>1, <3>2
    <2> QED BY <1>1, <2>1, <2>2, <2>3
  <1> QED BY <1>3, <1>4 DEF Sourced, Buses

-----------------------------------------------------------------------------
(* What an operation waits for stays under way.                            *)

LEMMA UnderwayStands ==
  ASSUME Underway, active'.kind = active.kind, active'.step = active.step,
         active.kind \in FedKinds => active'.got = active.got,
         wire' = wire, pending' = pending, inbox' = inbox, mode' = mode,
         noIdle' = noIdle, batched => batched'
  PROVE  Underway'
  <1>1. On' = On /\ Asked' = Asked /\ (ArmAckUnderway' <=> ArmAckUnderway)
    BY LineSame, InboxSame DEF ArmAckUnderway, ArmAnnounced, Line
  <1>2. (CancelAnnounced' <=> CancelAnnounced) /\ (IdleAnnounced' <=> IdleAnnounced)
    BY DEF CancelAnnounced, IdleAnnounced, Line
  <1>3. \A d : Polled(d)' <=> Polled(d) BY DEF Polled
  <1>4. ASSUME ~Lost' PROVE ~Lost BY <1>4 DEF Lost
  <1>5. active.kind = "Disarm" /\ DisarmUnderway => DisarmUnderway'
    BY <1>1, <1>2 DEF DisarmUnderway
  <1>6. active.kind = "AvrConfig" /\ ConfigUnderway => ConfigUnderway' BY <1>1 DEF ConfigUnderway
  <1>7. active.kind = "Arm" /\ ArmUnderway => ArmUnderway'
    BY <1>1, <1>3 DEF ArmUnderway, FedKinds
  <1>8. active.kind = "Shot" /\ ShotUnderway => ShotUnderway' BY <1>1 DEF ShotUnderway
  <1> QED BY <1>4, <1>5, <1>6, <1>7, <1>8 DEF Underway

-----------------------------------------------------------------------------
(* The device sends t.                                                     *)

\* What is asked of it is answered, or still asked.
LEMMA AskedTaken ==
  ASSUME InSession, NEW t, DeviceSends(t), NEW x \in Asked
  PROVE  x \in Asked' \/ (TakesOne(t) /\ Replied(x, MsgsIn(t)))
  <1>1. CASE inbox' = inbox BY <1>1, InboxSame
  <1>2. CASE TakesOne(t)
    <2>1. inbox # <<>> /\ inbox' = Tail(inbox) /\ inbox \in Seq(Commands)
      BY <1>2 DEF TakesOne, InSession, OnTheWay
    <2>2. Asked \subseteq Asked' \cup {Head(inbox).cmd} BY <2>1, ServedFacts DEF Serves
    <2> QED BY <1>2, <2>2 DEF TakesOne
  <1> QED BY <1>1, <1>2 DEF DeviceSends, Hits, Measures

\* What does not change the mode.
LEMMA ModeKept ==
  ASSUME InSession, NEW t, DeviceSends(t)
  PROVE  /\ mode = "armed" =>
              \/ Hits(t)
              \/ Head(inbox).cmd = "Commit" /\ Replied("Commit", MsgsIn(t))
              \/ mode' = "armed"
         /\ mode = "processed" =>
              \/ Head(inbox).cmd = "ShotDataAck" /\ Replied("ShotDataAck", MsgsIn(t))
              \/ mode' = "processed"
  <1>1. CASE Hits(t) BY <1>1 DEF Hits
  <1>2. CASE Measures(t) BY <1>2 DEF Measures
  <1>3. CASE TakesOne(t)
    <2>1. Replied(Head(inbox).cmd, MsgsIn(t)) BY <1>3 DEF TakesOne
    <2>2. mode = "armed" =>
            (Head(inbox).cmd = "Commit" /\ Replied("Commit", MsgsIn(t))) \/ mode' = "armed"
      BY <2>1 DEF Replied, AwaitsAck
    <2>3. mode = "processed" =>
            \/ Head(inbox).cmd = "ShotDataAck" /\ Replied("ShotDataAck", MsgsIn(t))
            \/ mode' = "processed"
      BY <2>1 DEF Replied, InShot
    <2> QED BY <2>2, <2>3
  <1> QED BY <1>1, <1>2, <1>3 DEF DeviceSends

LEMMA DisarmServed ==
  ASSUME InSession, active.kind = "Disarm", DisarmUnderway, active' = active,
         NEW t, DeviceSends(t), Gets(MsgsIn(t)), pending' = pending
  PROVE  DisarmUnderway'
  <1> DEFINE ms == MsgsIn(t)
  <1>1. On' = On \cup ms BY DEF Gets
  <1>2. /\ CancelAnnounced \/ "ARMED CANCELLED" \in ms => CancelAnnounced'
        /\ IdleAnnounced => IdleAnnounced'
    BY SentAnnounces DEF InSession
  <1>3. CASE active.step = "WaitAck" /\ "Commit" \in Asked /\ mode = "armed"
    <2>1. CASE Hits(t)
      <3>1. "BALL TRIGGER" \in On' BY <1>1, <2>1 DEF Hits
      <3> QED BY <3>1 DEF DisarmUnderway
    <2>2. CASE Replied("Commit", ms)
      <3>1. "ARMED CANCELLED" \in ms BY <1>3, <2>2 DEF Replied
      <3> QED BY <1>2, <1>3, <3>1 DEF DisarmUnderway
    <2>3. CASE ~Hits(t) /\ ~Replied("Commit", ms)
      <3>1. mode' = "armed" BY <1>3, <2>3, ModeKept
      <3>2. "Commit" \in Asked' BY <1>3, <2>3, AskedTaken
      <3> QED BY <1>3, <3>1, <3>2 DEF DisarmUnderway
    <2> QED BY <2>1, <2>2, <2>3
  <1>4. CASE ~(active.step = "WaitAck" /\ "Commit" \in Asked /\ mode = "armed")
    BY <1>1, <1>2, <1>4 DEF DisarmUnderway
  <1> QED BY <1>3, <1>4

LEMMA ConfigServed ==
  ASSUME InSession, ConfigUnderway, active' = active,
         NEW t, DeviceSends(t), Gets(MsgsIn(t))
  PROVE  ConfigUnderway'
  <1> DEFINE ms == MsgsIn(t)
  <1>1. On' = On \cup ms BY DEF Gets
  <1>2. \A x \in {"Commit", "ParamValue"} : x \in Asked => x \in Asked' \/ "ConfigAck" \in On'
    <2> SUFFICES ASSUME NEW x \in {"Commit", "ParamValue"}, x \in Asked, x \notin Asked'
                 PROVE  "ConfigAck" \in On'
      OBVIOUS
    <2>1. Replied(x, ms) BY AskedTaken
    <2>2. "ConfigAck" \in ms BY <2>1 DEF Replied
    <2> QED BY <1>1, <2>2
  <1>3. "ModeSet" \in Asked => "ModeSet" \in Asked' \/ "ModeSet" \in On'
    <2> SUFFICES ASSUME "ModeSet" \in Asked, "ModeSet" \notin Asked' PROVE "ModeSet" \in On'
      OBVIOUS
    <2>1. Replied("ModeSet", ms) BY AskedTaken
    <2>2. "ModeSet" \in ms BY <2>1 DEF Replied
    <2> QED BY <1>1, <2>2
  <1>4. "RadarCal" \in Asked => "RadarCal" \in Asked' \/ "RadarCal" \in On'
    <2> SUFFICES ASSUME "RadarCal" \in Asked, "RadarCal" \notin Asked' PROVE "RadarCal" \in On'
      OBVIOUS
    <2>1. Replied("RadarCal", ms) BY AskedTaken
    <2>2. "RadarCal" \in ms BY <2>1 DEF Replied
    <2> QED BY <1>1, <2>2
  <1> QED BY <1>1, <1>2, <1>3, <1>4 DEF ConfigUnderway

\* An arm is acknowledged, unless in a shot.
LEMMA ArmAckServed ==
  ASSUME InSession, ArmAckUnderway, NEW t, DeviceSends(t), Gets(MsgsIn(t)), pending' = pending
  PROVE  \/ ArmAckUnderway'
         \/ "Arm" \in Asked /\ InShot /\ "ConfigNack" \in On'
  <1> DEFINE ms == MsgsIn(t)
  <1>1. On' = On \cup ms BY DEF Gets
  <1>2. ArmAnnounced \/ "ARMED" \in ms => ArmAnnounced' BY SentAnnounces DEF InSession
  <1>3. ASSUME "Arm" \in Asked, "Arm" \notin Asked'
        PROVE  "ARMED" \in ms \/ (InShot /\ "ConfigNack" \in ms)
    <2>1. Replied("Arm", ms) BY <1>3, AskedTaken
    <2> QED BY <2>1 DEF Replied
  <1> QED BY <1>1, <1>2, <1>3 DEF ArmAckUnderway

LEMMA ArmServed ==
  ASSUME InSession, ArmUnderway, active' = active,
         NEW t, DeviceSends(t), Gets(MsgsIn(t)), pending' = pending
  PROVE  ArmUnderway'
  <1>1. On' = On \cup MsgsIn(t) BY DEF Gets
  <1>2. inbox \in Seq(Commands) BY DEF InSession, OnTheWay
  <1>3. Polled("Dsp") => Polled("Dsp")' \/ "DspStatus" \in On' \/ "DspStatus6" \in On'
    BY <1>1, <1>2, PollTaken
  <1>4. Polled("Avr") => Polled("Avr")' \/ "AvrStatus" \in On' BY <1>1, <1>2, PollTaken
  <1>5. Polled("Pi") => Polled("Pi")' \/ "PiStatus" \in On' BY <1>1, <1>2, PollTaken
  <1>6. ArmAckUnderway => ArmAckUnderway' \/ "ConfigNack" \in On' BY ArmAckServed
  <1>7. On \subseteq On' BY <1>1
  <1>8. CASE active.step = "WaitDspStatus" BY <1>3, <1>7, <1>8 DEF ArmUnderway
  <1>9. CASE active.step = "WaitAvrStatus" BY <1>4, <1>7, <1>9 DEF ArmUnderway
  <1>10. CASE active.step = "WaitArmAck" BY <1>6, <1>7, <1>10 DEF ArmUnderway
  <1>11. CASE active.step = "WaitPiAndArmed" BY <1>5, <1>7, <1>11 DEF ArmUnderway
  <1> QED BY <1>8, <1>9, <1>10, <1>11 DEF ArmUnderway

LEMMA ShotServed ==
  ASSUME InSession, InStep, active.kind = "Shot", ShotUnderway, active' = active, noIdle => noIdle',
         NEW t, DeviceSends(t), Gets(MsgsIn(t)), pending' = pending
  PROVE  ShotUnderway'
  <1> DEFINE ms == MsgsIn(t)
  <1>1. On' = On \cup ms BY DEF Gets
  <1>2. CASE active.step = "Draining"
    <2>1. CASE "ShotDataAck" \in Asked /\ mode = "processed"
      <3>1. CASE Replied("ShotDataAck", ms)
        <4>1. "IDLE" \in ms BY <2>1, <3>1 DEF Replied, AwaitsAck
        <4> QED BY <1>1, <1>2, <4>1 DEF ShotUnderway
      <3>2. CASE ~Replied("ShotDataAck", ms)
        <4>1. mode' = "processed" /\ "ShotDataAck" \in Asked' BY <2>1, <3>2, ModeKept, AskedTaken
        <4> QED BY <1>2, <4>1 DEF ShotUnderway
      <3> QED BY <3>1, <3>2
    <2>2. CASE ~("ShotDataAck" \in Asked /\ mode = "processed")
      BY <1>1, <1>2, <2>2 DEF ShotUnderway
    <2> QED BY <2>1, <2>2
  <1>3. CASE active.step = "WaitingForClubResult"
    <2>1. ASSUME "ShotResultReq" \in Asked, "ShotResultReq" \notin Asked' PROVE "ClubResult" \in ms
      <3>1. Replied("ShotResultReq", ms) BY <2>1, AskedTaken
      <3> QED BY <3>1 DEF Replied
    <2> QED BY <1>1, <1>3, <2>1 DEF ShotUnderway
  <1>4. CASE active.step = "WaitingForArmAck"
    <2>1. "Arm" \in Asked => ~InShot
      <3>1. "Arm" \in Asked => mode = "disarmed" BY <1>4 DEF InStep, Stages, At
      <3> QED BY <3>1 DEF InShot
    <2>2. ArmAckUnderway BY <1>4 DEF ShotUnderway
    <2>3. ArmAckUnderway' BY <2>1, <2>2, ArmAckServed
    <2> QED BY <1>4, <2>3 DEF ShotUnderway
  <1>5. CASE active.step = "WaitingForArmed" BY <1>1, <1>5 DEF ShotUnderway
  <1> QED BY <1>2, <1>3, <1>4, <1>5 DEF ShotUnderway

LEMMA DeviceUnderway ==
  ASSUME InSession, InStep, Underway, Device
  PROVE  Underway'
  <1>1. UNCHANGED <<active, pending>> /\ batched' = batched
    BY DEF Device, Hit, Measured, Serve, DeviceRest, vars, opVars
  <1>2. noIdle => noIdle' BY DEF Device, Hit, Measured, Serve
  <1>3. PICK t : DeviceSends(t) /\ Gets(MsgsIn(t)) BY DeviceGets
  <1>4. Lost' <=> Lost BY <1>1 DEF Lost
  <1>5. active.kind = "Disarm" /\ DisarmUnderway => DisarmUnderway' BY <1>1, <1>3, DisarmServed
  <1>6. active.kind = "AvrConfig" /\ ConfigUnderway => ConfigUnderway' BY <1>1, <1>3, ConfigServed
  <1>7. active.kind = "Arm" /\ ArmUnderway => ArmUnderway' BY <1>1, <1>3, ArmServed
  <1>8. active.kind = "Shot" /\ ShotUnderway => ShotUnderway' BY <1>1, <1>2, <1>3, ShotServed
  <1> QED BY <1>1, <1>4, <1>5, <1>6, <1>7, <1>8 DEF Underway

-----------------------------------------------------------------------------
(* The client takes up an operation, or gives a step of it up.             *)

\* There is no operation that waits for anything.
LEMMA NoneUnderway ==
  ASSUME Free'
  PROVE  Underway'
  <1>1. active'.kind \notin FedKinds BY FreeAgain
  <1> QED BY <1>1 DEF Underway, FedKinds

LEMMA BeginsUnderway ==
  ASSUME InSession, InStep, Begins, armed' = armed, mode' = mode, Less, Wrote(out'),
         DisarmThenConfigure', inbox' = inbox \o out', out' \in Seq(Commands)
  PROVE  Underway'
  <1>1. CASE At("Disarm", "WaitAck")' /\ AsksFor(out', "Commit")
    <2>1. "Commit" \in Asked' BY <1>1, WroteOne
    <2>2. armed BY <1>1 DEF DisarmThenConfigure, At
    <2>3. active.kind # "Disarm" BY DEF Begins, Free
    <2>4. mode = "armed" \/ "BALL TRIGGER" \in On BY <2>2, <2>3 DEF InStep, Beliefs
    <2>5. DisarmUnderway' BY <1>1, <2>1, <2>4 DEF DisarmUnderway, Less, At
    <2> QED BY <1>1, <2>5 DEF Underway, At
  <1>2. CASE At("AvrConfig", "WaitInitGateAck")' /\ AsksFor(out', "Commit")
    <2>1. "Commit" \in Asked' BY <1>2, WroteOne
    <2>2. ConfigUnderway' BY <1>2, <2>1 DEF ConfigUnderway, ConfigAckSteps, At
    <2> QED BY <1>2, <2>2 DEF Underway, At
  <1>3. CASE At("Arm", "WaitDspStatus")' /\ out' = <<Cmd("StatusPoll", "Dsp")>> /\ active'.got = {}
    <2>1. inbox \in Seq(Commands) BY DEF InSession, OnTheWay
    <2>2. Polled("Dsp")' BY <1>3, <2>1, PollWritten
    <2>3. ArmUnderway' BY <1>3, <2>2 DEF ArmUnderway, At
    <2> QED BY <1>3, <2>3 DEF Underway, At
  <1>4. CASE At("Keepalive", "Collecting")' BY <1>4, NoneUnderway DEF At, Free
  <1> QED BY <1>1, <1>2, <1>3, <1>4 DEF Begins

LEMMA GivesUpUnderway ==
  ASSUME GivesUp, Wrote(out')
  PROVE  Underway'
  <1>1. "Arm" \in Asked' BY WroteOne DEF GivesUp
  <1>2. At("Shot", "WaitingForArmAck")' BY DEF GivesUp
  <1>3. ShotUnderway' BY <1>1, <1>2 DEF ShotUnderway, ArmAckUnderway, At
  <1> QED BY <1>2, <1>3 DEF Underway, At

LEMMA AloneUnderway ==
  ASSUME InSession, InStep, Underway, PollAlone
  PROVE  Underway'
  <1>1. InSession' BY AloneInSession
  <1>2. /\ armed' = armed /\ inbox' = inbox \o out' /\ mode' = mode
        /\ wire' = wire /\ pending' = pending
        /\ Stands \/ Drops \/ Begins \/ GivesUp
    BY AloneMoves
  <1>3. TypeOK' /\ DisarmThenConfigure' BY <1>1 DEF InSession, Inv, Safe
  <1>4. Wrote(out') /\ Less BY <1>2, <1>3, WritesWrote, SameIsLess
  <1>5. out' \in Seq(Commands) BY <1>3 DEF TypeOK
  <1>6. CASE Stands
    <2>1. inbox \o <<>> = inbox BY DEF InSession, OnTheWay
    <2>2. inbox' = inbox BY <1>2, <1>6, <2>1 DEF Stands
    <2>3. noIdle' = noIdle /\ (active' = active /\ batched => batched')
      BY DEF PollAlone, BatchedBy
    <2> QED BY <1>2, <1>6, <2>2, <2>3, UnderwayStands DEF Stands
  <1>7. CASE Drops BY <1>7, NoneUnderway DEF Drops, Free, NoOp
  <1>8. CASE Begins BY <1>2, <1>3, <1>4, <1>5, <1>8, BeginsUnderway
  <1>9. CASE GivesUp BY <1>4, <1>9, GivesUpUnderway
  <1> QED BY <1>2, <1>6, <1>7, <1>8, <1>9

-----------------------------------------------------------------------------
(* The active operation is fed e.                                          *)

\* What comes with being fed.
LEMMA FedFacts ==
  ASSUME InSession, InStep, NEW e, Takes(e), IsFed(e), Wrote(out')
  PROVE  /\ Sourced(e) /\ active \in Sequencer
         /\ \A m \in On : m = e.msg \/ m \in On'
         /\ "BALL TRIGGER" \in On => "BALL TRIGGER" \in On'
         /\ \A x \in Asked : x \in Asked'
         /\ e.msg \in AckMsgs => Exchange = {e.msg} /\ Asked \cap AckCmds = {}
  <1>1. Sourced(e) BY DeviceSourced DEF Takes
  <1>2. active \in Sequencer BY FedMoves DEF IsFed
  <1>3. On \subseteq On' \cup {e.msg} /\ e.msg # "BALL TRIGGER" BY DEF Takes, IsFed, NotAShot
  <1>4. Asked' = Asked \cup CmdsIn(out') BY DEF Wrote
  <1>5. e.msg \in AckMsgs => Exchange = {e.msg} /\ Asked \cap AckCmds = {}
    BY TakesEmptiesExchange
  <1> QED BY <1>1, <1>2, <1>3, <1>4, <1>5

LEMMA DisarmFedUnderway ==
  ASSUME InSession, InStep, active.kind = "Disarm", DisarmUnderway, NEW e, Takes(e), TakesFirst(e),
         IsFed(e), mode' = mode, Wrote(out')
  PROVE  DisarmUnderway'
  <1>1. /\ \A m \in On : m = e.msg \/ m \in On'
        /\ "BALL TRIGGER" \in On => "BALL TRIGGER" \in On'
        /\ \A x \in Asked : x \in Asked'
        /\ e.msg \in AckMsgs => Asked \cap AckCmds = {}
    BY FedFacts
  <1>2. /\ active.step = "WaitAck" /\ e.msg = "ConfigAck" => active'.step = "WaitModeReset"
        /\ active.step = "WaitModeReset" /\ e.msg = "ARMED CANCELLED" => active'.step = "WaitStateIdle"
        /\ active.step = "WaitStateIdle" /\ e.msg = "System State" => active'.step = "Done"
    BY FedFacts, DisarmAnswers DEF IsFed
  <1>3. /\ active'.step # "Done"
        /\ \/ active'.step = active.step
           \/ active.step = "WaitAck" /\ e.msg = "ConfigAck" /\ active'.step = "WaitModeReset"
           \/ active.step = "WaitModeReset" /\ active'.step = "WaitStateIdle"
    BY DEF IsFed, MovesOn, DisarmMove
  <1>4. CASE "BALL TRIGGER" \in On BY <1>1, <1>4 DEF DisarmUnderway
  <1>5. CASE active.step = "WaitAck" /\ "Commit" \in Asked /\ mode = "armed"
    <2>1. e.msg # "ConfigAck" BY <1>1, <1>5 DEF AckMsgs, AckCmds
    <2>2. active'.step = "WaitAck" BY <1>3, <1>5, <2>1
    <2> QED BY <1>1, <1>5, <2>2 DEF DisarmUnderway
  <1>6. CASE active.step = "WaitAck" /\ CancelAnnounced
    BY <1>2, <1>3, <1>6 DEF TakesFirst, DisarmUnderway
  <1>7. CASE active.step = "WaitModeReset" /\ IdleAnnounced
    BY <1>2, <1>3, <1>7 DEF TakesFirst, DisarmUnderway
  <1>8. CASE active.step = "WaitStateIdle" /\ "System State" \in On
    BY <1>1, <1>2, <1>3, <1>8 DEF DisarmUnderway
  <1> QED BY <1>4, <1>5, <1>6, <1>7, <1>8 DEF DisarmUnderway

LEMMA ConfigFedUnderway ==
  ASSUME InSession, InStep, active.kind = "AvrConfig", ConfigUnderway, NEW e, Takes(e),
         IsFed(e), Wrote(out')
  PROVE  ConfigUnderway'
  <1>1. \A m \in On : m = e.msg \/ m \in On' BY FedFacts
  <1>2. \A x \in Asked : x \in Asked' BY FedFacts
  <1>3. active'.step # "Done" /\ active' = Fed(active, e) /\ out' = Replies(active, e) BY DEF IsFed
  <1>4. CASE Requests(active', out')
    <2>1. \A x : AsksFor(out', x) => x \in Asked' BY WroteOne
    <2> QED BY <1>4, <2>1 DEF Requests, ConfigUnderway
  <1>5. CASE ~Requests(active', out')
    <2>1. /\ active.step \in ConfigAckSteps => e.msg # "ConfigAck" /\ Ignores(active, e)
          /\ active.step = "WaitModeEcho" => e.msg # "ModeSet" /\ Ignores(active, e)
          /\ active.step = "WaitRadarCalEcho" => e.msg # "RadarCal" /\ Ignores(active, e)
      BY <1>3, <1>5, FedFacts, AvrConfigAnswers
    <2>2. active' = active
      BY <1>3, <2>1 DEF ConfigUnderway, Ignores
    <2> QED BY <1>1, <1>2, <2>1, <2>2 DEF ConfigUnderway
  <1> QED BY <1>4, <1>5

\* The arm is acknowledged once.
LEMMA ArmAckFed ==
  ASSUME InSession, InStep, ArmAckUnderway, NEW e, Takes(e), TakesFirst(e), IsFed(e), Wrote(out')
  PROVE  /\ e.msg = "ConfigAck" => "ARMED" \in On'
         /\ e.msg # "ConfigAck" => ArmAckUnderway'
  <1>1. /\ \A x \in Asked : x \in Asked'
        /\ e.msg \in AckMsgs => Asked \cap AckCmds = {}
    BY FedFacts
  <1> QED BY <1>1 DEF ArmAckUnderway, TakesFirst, AckMsgs, AckCmds

LEMMA ArmFedUnderway ==
  ASSUME InSession, InStep, active.kind = "Arm", ArmUnderway, NEW e, Takes(e), TakesFirst(e),
         IsFed(e), Wrote(out'), inbox' = inbox \o out', out' \in Seq(Commands)
  PROVE  ArmUnderway'
  <1> DEFINE s == active
             t == active'
             u == out'
  <1>1. \A m \in On : m = e.msg \/ m \in On' BY FedFacts
  <1>2. /\ \A x \in Asked : x \in Asked'
        /\ e.msg \in AckMsgs => Exchange = {e.msg}
    BY FedFacts
  <1>3. t.step # "Done" /\ t = Fed(s, e) /\ u = Replies(s, e) BY DEF IsFed
  <1>4. \A d : /\ Polled(d) => Polled(d)'
               /\ u = <<Cmd("StatusPoll", d)>> => Polled(d)'
    BY PollWritten DEF InSession, OnTheWay
  <1>5. u = <<Cmd("Arm", "Avr")>> => "Arm" \in Asked' BY OneCommand, WroteOne
  <1>6. Sourced(e) /\ s \in Sequencer BY FedFacts
  <1>7. CASE s.step = "WaitDspStatus"
    <2>1. \/ t.step = "WaitAvrStatus" /\ t.got = s.got /\ u = <<Cmd("StatusPoll", "Avr")>>
          \/ e.msg \notin {"DspStatus", "DspStatus6"} /\ t = s
      BY <1>3, <1>6, <1>7, ArmAnswers DEF Ignores
    <2>2. s.got = {} /\ (Polled("Dsp") \/ "DspStatus" \in On \/ "DspStatus6" \in On)
      BY <1>7 DEF ArmUnderway
    <2> QED BY <1>1, <1>4, <1>7, <2>1, <2>2 DEF ArmUnderway
  <1>8. CASE s.step = "WaitAvrStatus"
    <2>1. \/ t.step = "WaitArmAck" /\ t.got = s.got /\ u = <<Cmd("Arm", "Avr")>>
          \/ e.msg # "AvrStatus" /\ t = s
      BY <1>3, <1>6, <1>8, ArmAnswers DEF Ignores
    <2>2. s.got = {} /\ (Polled("Avr") \/ "AvrStatus" \in On) BY <1>8 DEF ArmUnderway
    <2> QED BY <1>1, <1>4, <1>5, <1>8, <2>1, <2>2 DEF ArmUnderway, ArmAckUnderway
  <1>9. CASE s.step = "WaitArmAck"
    <2>1. \/ t.step = "WaitDspStatus" /\ t.got = s.got /\ u = <<Cmd("StatusPoll", "Dsp")>>
          \/ e.msg = "ConfigAck" /\ t.step = "WaitPiAndArmed" /\ t.got = s.got
               /\ u = <<Cmd("StatusPoll", "Pi")>>
          \/ e.msg # "ConfigNack" /\ e.msg # "ConfigAck" /\ t = s
      BY <1>3, <1>6, <1>9, ArmAnswers DEF Ignores
    <2>2. s.got = {} /\ (ArmAckUnderway \/ "ConfigNack" \in On) BY <1>9 DEF ArmUnderway
    <2>3. e.msg = "ConfigAck" => "ConfigNack" \notin On BY <1>2 DEF Exchange, AckMsgs
    <2>4. ArmAckUnderway => /\ e.msg = "ConfigAck" => "ARMED" \in On'
                            /\ e.msg # "ConfigAck" => ArmAckUnderway'
      BY ArmAckFed
    <2> QED BY <1>1, <1>4, <1>9, <2>1, <2>2, <2>3, <2>4 DEF ArmUnderway
  <1>10. CASE s.step = "WaitPiAndArmed"
    <2>1. \/ e.msg = "PiStatus" /\ t.got = s.got \cup {"got_pi"}
          \/ e.msg = "ARMED" /\ t.got = s.got \cup {"got_armed"}
          \/ e.msg # "PiStatus" /\ e.msg # "ARMED" /\ t = s
      BY <1>3, <1>6, <1>10, ArmAnswers DEF Ignores
    <2>2. t = s \/ t.got # {"got_pi", "got_armed"} BY <1>3, <1>6, <1>10, ArmAnswers
    <2>3. t.step = "WaitPiAndArmed" BY <1>3, <1>10 DEF IsFed, MovesOn, ArmMove
    <2>4. /\ s.got \in {{}, {"got_pi"}, {"got_armed"}}
          /\ "got_pi" \in s.got \/ Polled("Pi") \/ "PiStatus" \in On
          /\ "got_armed" \in s.got \/ "ARMED" \in On
      BY <1>10 DEF ArmUnderway
    <2>5. t.got \in {{}, {"got_pi"}, {"got_armed"}} BY <2>1, <2>2, <2>4
    <2>6. "got_pi" \in t.got \/ Polled("Pi")' \/ "PiStatus" \in On' BY <1>1, <1>4, <2>1, <2>4
    <2>7. "got_armed" \in t.got \/ "ARMED" \in On' BY <1>1, <2>1, <2>4
    <2> QED BY <2>3, <2>5, <2>6, <2>7 DEF ArmUnderway
  <1> QED BY <1>7, <1>8, <1>9, <1>10 DEF ArmUnderway

LEMMA ShotFedUnderway ==
  ASSUME InSession, InStep, active.kind = "Shot", ShotUnderway, NEW e, Takes(e), TakesFirst(e),
         IsFed(e), mode' = mode, noIdle' = noIdle, Wrote(out')
  PROVE  ShotUnderway'
  <1> DEFINE s == active
             t == active'
             u == out'
  <1>1. \A m \in On : m = e.msg \/ m \in On' BY FedFacts
  <1>2. \A x \in Asked : x \in Asked' BY FedFacts
  <1>3. t.step # "Done" /\ t = Fed(s, e) /\ u = Replies(s, e) BY DEF IsFed
  <1>4. \A x : AsksFor(u, x) => x \in Asked' BY WroteOne
  <1>5. Sourced(e) /\ s \in Sequencer BY FedFacts
  <1>6. ShotMove(s, e.msg, t, u) BY DEF IsFed, MovesOn
  <1>7. CASE s.step = "Draining"
    <2>1. \/ t.step = "WaitingForClubResult" /\ AsksFor(u, "ShotResultReq")
          \/ e.msg # "IDLE" /\ t.step = "Draining"
      BY <1>3, <1>5, <1>7, ShotAnswers
    <2> QED BY <1>1, <1>2, <1>4, <1>7, <2>1 DEF ShotUnderway
  <1>8. CASE s.step = "WaitingForClubResult"
    <2>1. \/ t.step = "WaitingForArmAck" /\ AsksFor(u, "Arm")
          \/ e.msg # "ClubResult" /\ t = s
      BY <1>3, <1>5, <1>8, ShotAnswers DEF Ignores
    <2> QED BY <1>1, <1>2, <1>4, <1>8, <2>1 DEF ShotUnderway, ArmAckUnderway
  <1>9. CASE s.step = "WaitingForArmAck"
    <2>1. t.step = "WaitingForArmed" \/ (e.msg # "ConfigAck" /\ t = s)
      BY <1>3, <1>5, <1>9, ShotAnswers DEF Ignores
    <2>2. t.step = "WaitingForArmed" => e.msg = "ConfigAck" BY <1>6, <1>9 DEF ShotMove
    <2>3. ArmAckUnderway BY <1>9 DEF ShotUnderway
    <2>4. /\ e.msg = "ConfigAck" => "ARMED" \in On'
          /\ e.msg # "ConfigAck" => ArmAckUnderway'
      BY <2>3, ArmAckFed
    <2> QED BY <1>9, <2>1, <2>2, <2>4 DEF ShotUnderway
  <1>10. CASE s.step = "WaitingForArmed"
    <2>1. e.msg # "ARMED" /\ t = s BY <1>3, <1>5, <1>10, ShotAnswers DEF Ignores
    <2> QED BY <1>1, <1>10, <2>1 DEF ShotUnderway
  <1> QED BY <1>7, <1>8, <1>9, <1>10 DEF ShotUnderway

LEMMA ShotBeginsUnderway ==
  ASSUME InStep, IdleOmitted, NEW e, Takes(e), ShotBegins(e), mode' = mode, noIdle' = noIdle,
         Wrote(out')
  PROVE  Underway'
  <1>1. AwaitsAck BY DEF InStep, Stages, ShotBegins, Takes
  <1>2. "ShotDataAck" \in Asked' BY DEF ShotBegins, Wrote
  <1>3. mode = "processed" \/ noIdle BY <1>1 DEF AwaitsAck, IdleOmitted
  <1>4. At("Shot", "Draining")' BY DEF ShotBegins
  <1>5. ShotUnderway' BY <1>2, <1>3, <1>4 DEF ShotUnderway, At
  <1> QED BY <1>4, <1>5 DEF Underway, At

LEMMA ReceiptUnderway ==
  ASSUME InSession, InStep, Underway, IdleOmitted, NEW e, NEW k, Receive(e, k), Takes(e),
         TakenAt(e, k), ~swallowed'
  PROVE  Underway'
  <1>1. InSession' BY ReceiptInSession
  <1>2. /\ inbox' = inbox \o out' /\ mode' = mode
        /\ Passes(e) \/ ShotBegins(e) \/ KeepaliveEnds(e) \/ IsFed(e) \/ IsDone(e)
    BY ReceiptMoves
  <1>3. TypeOK' /\ DisarmThenConfigure' /\ OnTheWay /\ OnTheWay'
    BY <1>1 DEF InSession, Inv, Safe
  <1>4. Wrote(out') BY <1>2, <1>3, WritesWrote
  <1>5. out' \in Seq(Commands) BY <1>3 DEF TypeOK
  <1>6. noIdle' = noIdle /\ batched' = (active'.kind = active.kind /\ (batched \/ k > 1))
    BY DEF Receive, BatchedBy
  <1>7. CASE Passes(e) BY <1>7, NoneUnderway DEF Passes, Free
  <1>8. CASE ShotBegins(e) BY <1>2, <1>4, <1>6, <1>8, ShotBeginsUnderway
  <1>9. CASE KeepaliveEnds(e)
    <2>1. Less /\ armed' = armed /\ (Drops \/ Begins) BY <1>9, TakesLess DEF KeepaliveEnds
    <2>2. CASE Drops BY <2>2, NoneUnderway DEF Drops, Free, NoOp
    <2>3. CASE Begins BY <1>2, <1>3, <1>4, <1>5, <2>1, <2>3, BeginsUnderway
    <2> QED BY <2>1, <2>2, <2>3
  <1>10. CASE IsFed(e)
    <2>1. active.kind \in FedKinds /\ active'.kind = active.kind BY <1>10 DEF IsFed
    <2>2. SUFFICES ASSUME ~Lost'
                   PROVE  /\ active'.kind = "Disarm" => DisarmUnderway'
                          /\ active'.kind = "AvrConfig" => ConfigUnderway'
                          /\ active'.kind = "Arm" => ArmUnderway'
                          /\ active'.kind = "Shot" => ShotUnderway'
      BY DEF Underway
    <2>3. CASE active.kind = "AvrConfig"
      <3>1. ~Lost BY <2>3 DEF Lost
      <3>2. ConfigUnderway BY <2>3, <3>1 DEF Underway
      <3> QED BY <1>4, <1>10, <2>1, <2>3, <3>2, ConfigFedUnderway
    <2>4. CASE active.kind \in {"Disarm", "Arm", "Shot"}
      <3>1. ~batched /\ ~(k > 1) BY <1>6, <2>1, <2>2, <2>4 DEF Lost
      <3>2. TakesFirst(e) BY <1>3, <3>1, FirstTakes
      <3>3. ~Lost BY <3>1 DEF Lost
      <3>4. /\ active.kind = "Disarm" => DisarmUnderway
            /\ active.kind = "Arm" => ArmUnderway
            /\ active.kind = "Shot" => ShotUnderway
        BY <3>3 DEF Underway
      <3>5. active.kind = "Disarm" => DisarmUnderway'
        BY <1>2, <1>4, <1>10, <3>2, <3>4, DisarmFedUnderway
      <3>6. active.kind = "Arm" => ArmUnderway'
        BY <1>2, <1>4, <1>5, <1>10, <3>2, <3>4, ArmFedUnderway
      <3>7. active.kind = "Shot" => ShotUnderway'
        BY <1>2, <1>4, <1>6, <1>10, <3>2, <3>4, ShotFedUnderway
      <3> QED BY <2>1, <2>4, <3>5, <3>6, <3>7
    <2> QED BY <2>1, <2>3, <2>4 DEF FedKinds
  <1>11. CASE IsDone(e) BY <1>11, NoneUnderway DEF IsDone, Free, NoOp
  <1> QED BY <1>2, <1>7, <1>8, <1>9, <1>10, <1>11

-----------------------------------------------------------------------------
(* Deadlines.                                                              *)

LEMMA Deadlines ==
  ASSUME InSession
  PROVE  /\ opLeft = Unset <=> active = NoOp
         /\ active # NoOp => opLeft \in Nat
         /\ opLeft \in Nat \cup {Unset}
         /\ active.kind = "None" <=> active = NoOp
         /\ Drains => active \in Sequencer /\ active # NoOp /\ opLeft \in Nat
                      /\ active.timer \in Nat \cup {Unset}
  <1>1. TypeOK /\ DeadlineIffActive BY DEF InSession, Inv, Safe
  <1>2. ~SendMayFail BY SessionAssumption
  <1>3. opLeft = Unset <=> active = NoOp BY <1>1, <1>2 DEF DeadlineIffActive
  <1>4. opLeft \in Nat \cup {Unset} BY <1>1 DEF TypeOK
  <1>5. active.kind = "None" <=> active = NoOp BY <1>1, ActiveTyped
  <1>6. ASSUME Drains
        PROVE  active \in Sequencer /\ active # NoOp /\ active.timer \in Nat \cup {Unset}
    <2>1. active # NoOp BY <1>5, <1>6 DEF Drains, At
    <2>2. active \in Sequencer BY <1>1, <2>1, ActiveTyped
    <2> QED BY <2>1, <2>2 DEF Sequencer
  <1> QED BY <1>3, <1>4, <1>5, <1>6

\* The deadlines that are set, and those that are not, have not passed.
LEMMA DeadlinesSet ==
  /\ OpTimeout \in Nat /\ OpTimeout # 0 /\ KeepaliveTimeout # 0 /\ Unset # 0
  /\ DrainTimeout \in Nat /\ DrainTimeout # Unset /\ DrainTimeout < OpTimeout
  /\ \A op : TimeoutFor(op) # 0
  BY ClientAssumption, TimeoutAssumption, SessionAssumption DEF TimeoutFor, Unset

\* What a step does to the deadline of the operation and what it returns.
LEMMA AloneTimes ==
  ASSUME InSession, PollAlone
  PROVE  /\ \/ opLeft' = opLeft /\ (ret' # "Timeout" /\ (pc # "ready" \/ ~Expired))
            \/ opLeft' # 0 /\ ret' # "Timeout" /\ (active = NoOp \/ active.kind = "Keepalive")
            \/ OperationTimesOut
         /\ Drains => opLeft' = opLeft
  <1>1. CASE DeadlineOpen \/ NothingToStart \/ CheckTimers \/ RecvNothing
    BY <1>1 DEF DeadlineOpen, NothingToStart, CheckTimers, RecvNothing, opVars, GoOn, Return
  <1>2. CASE KeepaliveTimesOut
    BY <1>2, DeadlinesSet DEF KeepaliveTimesOut, OpOver, GoOn, Drains, At
  <1>3. CASE StartNext
    <2>1. opLeft' # 0 /\ active = NoOp /\ ret' # "Timeout"
      BY <1>3, DeadlinesSet DEF StartNext, StartHead, TakeHead, GoOn
    <2>2. ~Drains BY <2>1 DEF Drains, At, NoOp
    <2> QED BY <2>1, <2>2
  <1>4. CASE OperationTimesOut BY <1>4 DEF OperationTimesOut, opVars
  <1> QED BY <1>1, <1>2, <1>3, <1>4 DEF PollAlone

LEMMA ReceiptTimes ==
  ASSUME InSession, NEW e, NEW k, Receive(e, k)
  PROVE  pc = "recv" /\ ret' # "Timeout" /\ (opLeft' = opLeft \/ opLeft' # 0)
  <1>1. Handle(e) BY DEF Receive
  <1>2. ~SendMayFail BY SessionAssumption
  <1>3. ~NextPhase(e) /\ ~NextPhaseFails(e) /\ ~HandshakeDone(e)
    BY DEF NextPhase, NextPhaseFails, HandshakeDone, NextKind, InSession, FedKinds
  <1>4. ~FeedFails(e) /\ ~FinishKeepaliveStartFails(e) /\ ~ProcessedFails(e)
    BY <1>2 DEF FeedFails, FinishKeepaliveStartFails, StartHeadFails, ProcessedFails, WriteFails
  <1>5. CASE FeedActive(e) BY <1>5 DEF FeedActive, Received, Return
  <1>6. CASE FinishDisarm(e) \/ FinishConfigure(e) \/ FinishArm(e) \/ FinishShot(e)
    BY <1>6, DeadlinesSet
       DEF FinishDisarm, FinishConfigure, FinishArm, FinishShot, Finish, OpOver, Received, Return
  <1>7. CASE FinishKeepalive(e) \/ FinishKeepaliveAndStart(e)
    BY <1>7, DeadlinesSet
       DEF FinishKeepalive, FinishKeepaliveAndStart, KeepaliveDone, OpOver, Received, Return,
           StartHead, TakeHead
  <1>8. CASE Trigger(e) \/ PassOn(e)
    BY <1>8 DEF Trigger, PassOn, Unclaimed, Received, Return, opVars
  <1>9. CASE Processed(e)
    BY <1>9, DeadlinesSet DEF Processed, Unclaimed, Received, Return
  <1> QED BY <1>1, <1>3, <1>4, <1>5, <1>6, <1>7, <1>8, <1>9 DEF Handle

-----------------------------------------------------------------------------
(* Nothing is on its way, so that time may pass.                           *)

LEMMA QuietUnderway ==
  ASSUME Quiet, Underway, ~Lost, active.kind \in FedKinds
  PROVE  Drains /\ noIdle
  <1>1. On = {} /\ Asked = {} BY QuietIs
  <1>2. inbox = <<>> /\ wire = <<>> /\ pending = <<>> BY DEF Quiet
  <1>3. \A d : ~Polled(d) BY <1>2 DEF Polled, Has
  <1>4. Len(Line) = 0
    <2> DEFINE p == <<>>
               r == Reverse(p)
    <2>1. p \in Seq(DeviceEnvelopes) /\ Len(p) = 0 OBVIOUS
    <2>2. r \in Seq(DeviceEnvelopes) /\ Len(r) = Len(p) BY <2>1, ReverseIs
    <2>3. Line = r \o <<>> BY <1>2 DEF Line
    <2> HIDE DEF r, p
    <2> QED BY <2>1, <2>2, <2>3
  <1>5. ~ArmAnnounced /\ ~CancelAnnounced /\ ~IdleAnnounced
    <2>1. \A S, T : ~HasPair(Line, S, T) BY <1>4 DEF HasPair
    <2>2. \A S, T, U : ~HasTriple(Line, S, T, U) BY <1>4 DEF HasTriple
    <2> QED BY <2>1, <2>2 DEF ArmAnnounced, CancelAnnounced, IdleAnnounced, Sequel, Sequels
  <1>6. ~DisarmUnderway BY <1>1, <1>5 DEF DisarmUnderway
  <1>7. ~ConfigUnderway BY <1>1 DEF ConfigUnderway
  <1>8. ~ArmUnderway
    <2>1. active.got \in {{}, {"got_pi"}, {"got_armed"}} =>
            ~("got_pi" \in active.got /\ "got_armed" \in active.got)
      OBVIOUS
    <2> QED BY <1>1, <1>3, <1>5, <2>1 DEF ArmUnderway, ArmAckUnderway
  <1>9. ShotUnderway => active.step = "Draining" /\ noIdle
    BY <1>1, <1>5 DEF ShotUnderway, ArmAckUnderway
  <1> QED BY <1>6, <1>7, <1>8, <1>9 DEF Underway, FedKinds, Drains, At

LEMMA TickTimes ==
  ASSUME InSession, TimePasses
  PROVE  /\ Quiet /\ ~Expired /\ pc' = "ready" /\ ret' = ret /\ opLeft' = Ticked(opLeft)
         /\ batched' = batched /\ noIdle' = noIdle
         /\ active'.kind = active.kind /\ active'.step = active.step
         /\ active.kind # "None" => active'.got = active.got
         /\ Drains => active.timer # 0 /\ active'.timer = Ticked(active.timer)
  <1>1. /\ Quiet /\ pc = "ready" /\ Waits /\ Tick /\ batched' = batched /\ noIdle' = noIdle
    BY DEF TimePasses
  <1>2. active'.kind = active.kind /\ active'.step = active.step BY TickMoves
  <1>3. TypeOK BY DEF InSession, Inv
  <1>4. ASSUME active.kind # "None"
        PROVE  active'.got = active.got /\ active'.timer = Ticked(active.timer)
    <2>1. active # NoOp BY <1>4 DEF NoOp
    <2>2. active \in Sequencer BY <1>3, <2>1, ActiveTyped
    <2>3. active' = [active EXCEPT !.timer = Ticked(@)] BY <1>1, <2>1 DEF Tick
    <2> QED BY <2>2, <2>3 DEF Sequencer
  <1>5. ASSUME Drains PROVE active.kind # "None" /\ active.timer # 0
    <2>1. active.kind = "Shot" /\ active.step = "Draining" BY <1>5 DEF Drains, At
    <2>2. active # NoOp BY <2>1 DEF NoOp
    <2>3. ~TimerDue(active) BY <1>1, <2>2 DEF Waits, ActiveTimerDue
    <2> QED BY <2>1, <2>3 DEF TimerDue
  <1> QED BY <1>1, <1>2, <1>4, <1>5 DEF Waits, Tick

-----------------------------------------------------------------------------
(* Every step keeps what explains a timeout.                               *)

Timely == Underway /\ DrainDated /\ Explained /\ IdleOmitted

\* The deadlines and the operation are what they were.
LEMMA ExplainedStands ==
  ASSUME Explained, pc' = pc, ret' = ret, opLeft' = opLeft, active' = active,
         batched' = batched, noIdle => noIdle'
  PROVE  Explained'
  BY DEF Explained, Expired, Lost, UndatedDrain

LEMMA DeviceTimely ==
  ASSUME InSession, InStep, Timely, Device
  PROVE  Timely'
  <1>1. UNCHANGED vars /\ batched' = batched
    BY DEF Device, Hit, Measured, Serve, DeviceRest
  <1>2. /\ pc' = pc /\ ret' = ret /\ opLeft' = opLeft /\ active' = active
        /\ active'.timer = active.timer
    BY <1>1 DEF vars, opVars
  <1>3. noIdle => noIdle' BY DEF Device, Hit, Measured, Serve
  <1>4. Underway' BY DeviceUnderway DEF Timely
  <1>5. DrainDated'
    <2>1. PICK t : DeviceSends(t) /\ Gets(MsgsIn(t)) BY DeviceGets
    <2>2. Drains' = Drains BY <1>2 DEF Drains, At
    <2>3. Drains => "FlightResult" \notin MsgsIn(t)
      <3>1. Drains => mode # "armed" /\ mode # "triggered" BY DEF InStep, Stages, AwaitsAck
      <3>2. CASE Hits(t) BY <3>1, <3>2 DEF Hits
      <3>3. CASE Measures(t) BY <3>1, <3>3 DEF Measures
      <3>4. CASE TakesOne(t)
        <4> DEFINE x == Head(inbox).cmd
        <4>1. Replied(x, MsgsIn(t)) BY <3>4 DEF TakesOne
        <4> HIDE DEF x
        <4>2. MsgsIn(t) \cap {"FlightResult"} = {} BY <4>1 DEF Replied, Statuses
        <4> QED BY <4>2
      <3> QED BY <2>1, <3>2, <3>3, <3>4 DEF DeviceSends
    <2>4. Drains /\ "FlightResult" \in On' => "FlightResult" \in On
      BY <2>1, <2>3 DEF Gets
    <2> QED BY <1>2, <2>2, <2>4 DEF Timely, DrainDated
  <1>6. Explained' BY <1>1, <1>2, <1>3, ExplainedStands DEF Timely
  <1>7. IdleOmitted'
    <2>1. CASE Hit BY <2>1 DEF Hit, IdleOmitted
    <2>2. CASE Measured BY <2>2 DEF Measured, IdleOmitted
    <2>3. CASE Serve BY <2>3 DEF Serve, IdleOmitted, Timely
    <2> QED BY <2>1, <2>2, <2>3 DEF Device
  <1> QED BY <1>4, <1>5, <1>6, <1>7 DEF Timely

\* Nothing changes but the queue, or nothing at all.
LEMMA StaysTimely ==
  ASSUME Timely, UNCHANGED <<active, opLeft, pc, ret, mode, wire, pending, inbox, batched, noIdle>>
  PROVE  Timely'
  <1>1. Underway' BY UnderwayStands DEF Timely
  <1>2. On' = On /\ Drains' = Drains BY LineSame DEF Drains, At
  <1>3. DrainDated' BY <1>2 DEF DrainDated, Timely
  <1>4. Explained' BY ExplainedStands DEF Timely
  <1>5. IdleOmitted' BY DEF IdleOmitted, Timely
  <1> QED BY <1>1, <1>3, <1>4, <1>5 DEF Timely

LEMMA CallTimely ==
  ASSUME InSession, Timely, SessionCalls
  PROVE  Timely'
  <1>1. active' = active /\ out' = <<>> BY CallInSession
  <1>2. PICK op \in QueuedOps : Enqueue(op) BY CallsEnqueue
  <1>3. opLeft' = opLeft /\ pc' = pc /\ ret' = ret BY <1>2 DEF Enqueue, opVars
  <1>4. inbox' = inbox \o out' /\ mode' = mode /\ wire' = wire /\ pending' = pending
    BY CallsEnqueue
  <1>5. inbox \o <<>> = inbox BY DEF InSession, OnTheWay
  <1>6. batched' = batched /\ noIdle' = noIdle BY DEF SessionCalls, Enqueues, historyVars
  <1>7. inbox' = inbox BY <1>1, <1>4, <1>5
  <1> QED BY <1>1, <1>3, <1>4, <1>6, <1>7, StaysTimely

LEMMA AloneTimely ==
  ASSUME InSession, InStep, Timely, PollAlone
  PROVE  Timely'
  <1>1. Underway' BY AloneUnderway DEF Timely
  <1>2. /\ wire' = wire /\ pending' = pending /\ mode' = mode
        /\ Stands \/ Drops \/ Begins \/ GivesUp
    BY AloneMoves
  <1>3. noIdle' = noIdle /\ batched' = (active'.kind = active.kind /\ batched)
    BY DEF PollAlone, BatchedBy
  <1>4. DrainDated'
    <2> SUFFICES ASSUME Drains' PROVE DrainDated' BY DEF DrainDated
    <2>1. active' = active BY <1>2 DEF Stands, Drops, Begins, GivesUp, At, Drains, NoOp
    <2>2. Drains BY <2>1 DEF Drains, At
    <2>3. opLeft' = opLeft BY <2>2, AloneTimes
    <2>4. On' = On BY <1>2, LineSame
    <2> QED BY <2>1, <2>2, <2>3, <2>4 DEF DrainDated, Timely
  <1>5. Explained'
    <2>1. CASE opLeft' = opLeft /\ ret' # "Timeout" /\ (pc # "ready" \/ ~Expired)
      <3>1. ~Expired BY <2>1 DEF Timely, Explained
      <3> QED BY <2>1, <3>1 DEF Explained, Expired
    <2>2. CASE opLeft' # 0 /\ ret' # "Timeout" BY <2>2 DEF Explained, Expired
    <2>3. CASE OperationTimesOut
      <3>1. /\ Expired /\ active.kind # "Keepalive" /\ pc' = "ready"
            /\ opLeft' = opLeft /\ active' = active
        BY <2>3 DEF OperationTimesOut, opVars, Return
      <3>2. active.kind # "None" BY <3>1, Deadlines, DeadlinesSet DEF Expired
      <3>3. active.kind \in FedKinds BY <3>1, <3>2 DEF InSession
      <3>4. Lost \/ UndatedDrain BY <3>1, <3>3 DEF Timely, Explained
      <3>5. (Lost => Lost') /\ (UndatedDrain => UndatedDrain')
        BY <1>3, <3>1 DEF Lost, UndatedDrain
      <3> QED BY <3>1, <3>3, <3>4, <3>5 DEF Explained, Expired
    <2> QED BY <2>1, <2>2, <2>3, AloneTimes
  <1>6. IdleOmitted' BY <1>2, <1>3 DEF IdleOmitted, Timely
  <1> QED BY <1>1, <1>4, <1>5, <1>6 DEF Timely

LEMMA ReceiptTimely ==
  ASSUME InSession, InStep, Timely, NEW e, NEW k, Receive(e, k), Takes(e), TakenAt(e, k),
         ~swallowed'
  PROVE  Timely'
  <1>1. Underway' BY ReceiptUnderway DEF Timely
  <1>2. mode' = mode /\ noIdle' = noIdle BY ReceiptMoves DEF Receive
  <1>3. IdleOmitted' BY <1>2 DEF IdleOmitted, Timely
  <1>4. Explained'
    <2>1. ~Expired BY ReceiptTimes DEF Timely, Explained
    <2> QED BY <2>1, ReceiptTimes DEF Explained, Expired
  <1>5. DrainDated'
    <2> SUFFICES ASSUME Drains' PROVE DrainDated' BY DEF DrainDated
    <2>0. active'.kind = "Shot" /\ active'.step = "Draining" BY DEF Drains, At
    <2>1. ShotBegins(e) \/ IsFed(e)
      <3>1. ~Passes(e) BY <2>0 DEF Passes, Free
      <3>2. ~Drops /\ ~IsDone(e) BY <2>0 DEF Drops, IsDone, NoOp
      <3>3. ~Begins BY <2>0 DEF Begins, At
      <3> QED BY <3>1, <3>2, <3>3, ReceiptMoves DEF KeepaliveEnds
    <2>2. CASE ShotBegins(e)
      <3>1. active'.timer = Unset /\ "flight" \notin active'.got /\ opLeft' = OpTimeout
        BY <2>2 DEF ShotBegins
      <3> QED BY <3>1, DeadlinesSet DEF DrainDated
    <2>3. CASE IsFed(e)
      <3>1. /\ active'.kind = active.kind /\ active' = Fed(active, e) /\ opLeft' = opLeft
        BY <2>3 DEF IsFed
      <3>2. active.kind = "Shot" /\ active'.step = "Draining" BY <3>1 DEF Drains, At
      <3>3. active.step = "Draining" BY <2>3, <3>2 DEF IsFed, MovesOn, ShotMove
      <3>4. Drains BY <3>2, <3>3 DEF Drains, At
      <3>5. Sourced(e) /\ active \in Sequencer
        BY <2>3, DeviceSourced, FedMoves DEF IsFed, Takes
      <3>6. /\ \/ active'.timer = active.timer
               \/ active'.timer = DrainTimeout /\ e.msg = "FlightResult"
            /\ "flight" \in active'.got => "flight" \in active.got \/ active'.timer # Unset
        BY <3>1, <3>2, <3>3, <3>5, ShotAnswers
      <3>7. /\ "flight" \in active.got => active.timer # Unset
            /\ active.timer # Unset => active.timer < opLeft
            /\ "FlightResult" \in On => DrainTimeout < opLeft
        BY <3>4 DEF Timely, DrainDated
      <3>8. e.msg \in On /\ On' \subseteq On BY DEF Takes
      <3>9. "flight" \in active'.got => active'.timer # Unset BY <3>6, <3>7, DeadlinesSet
      <3>10. active'.timer # Unset => active'.timer < opLeft' BY <3>1, <3>6, <3>7, <3>8
      <3>11. "FlightResult" \in On' => DrainTimeout < opLeft' BY <3>1, <3>7, <3>8
      <3> QED BY <3>9, <3>10, <3>11 DEF DrainDated
    <2> QED BY <2>1, <2>2, <2>3
  <1> QED BY <1>1, <1>3, <1>4, <1>5 DEF Timely

LEMMA TickTimely ==
  ASSUME InSession, Timely, TimePasses
  PROVE  Timely'
  <1>1. /\ Quiet /\ ~Expired /\ pc' = "ready" /\ ret' = ret /\ opLeft' = Ticked(opLeft)
        /\ batched' = batched /\ noIdle' = noIdle
        /\ active'.kind = active.kind /\ active'.step = active.step
        /\ active.kind # "None" => active'.got = active.got
        /\ Drains => active.timer # 0 /\ active'.timer = Ticked(active.timer)
    BY TickTimes
  <1>2. mode' = mode /\ inbox' = inbox /\ wire' = wire /\ pending' = pending BY TickMoves
  <1>3. active.kind \in FedKinds => active'.got = active.got BY <1>1 DEF FedKinds
  <1>4. Underway' BY <1>1, <1>2, <1>3, UnderwayStands DEF Timely
  <1>5. IdleOmitted' BY <1>1, <1>2 DEF IdleOmitted, Timely
  <1>6. ASSUME Drains, active.timer # Unset
        PROVE  active.timer \in Nat \ {0} /\ active.timer < opLeft /\ opLeft \in Nat
    BY <1>1, <1>6, Deadlines DEF Timely, DrainDated
  <1>7. DrainDated'
    <2> SUFFICES ASSUME Drains' PROVE DrainDated' BY DEF DrainDated
    <2>1. Drains BY <1>1 DEF Drains, At
    <2>2. active'.got = active.got BY <1>1, <2>1 DEF Drains, At
    <2>3. "FlightResult" \notin On' BY <1>1, <1>2, QuietIs, LineSame
    <2>4. active.timer \in Nat \cup {Unset} BY <2>1, Deadlines
    <2>5. CASE active.timer = Unset
      <3>1. active'.timer = Unset BY <1>1, <2>1, <2>5 DEF Ticked, Unset
      <3>2. "flight" \notin active.got BY <2>1, <2>5 DEF Timely, DrainDated
      <3> QED BY <2>2, <2>3, <3>1, <3>2 DEF DrainDated
    <2>6. CASE active.timer # Unset
      <3> DEFINE x == active.timer
                 y == opLeft
                 z == active'.timer
                 w == opLeft'
      <3>1. x \in Nat \ {0} /\ y \in Nat /\ x < y BY <1>6, <2>1, <2>6
      <3>2. z = Ticked(x) /\ w = Ticked(y) BY <1>1, <2>1
      <3> HIDE DEF x, y, z, w
      <3>3. z \in Nat /\ z < w BY <3>1, <3>2 DEF Ticked
      <3>4. z # Unset BY <3>3 DEF Unset
      <3> QED BY <2>3, <3>3, <3>4 DEF DrainDated, z, w
    <2> QED BY <2>5, <2>6
  <1>8. Explained'
    <2>1. ret' # "Timeout" BY <1>1 DEF Timely, Explained
    <2>2. ASSUME Expired', active'.kind \in FedKinds, ~Lost' PROVE UndatedDrain'
      <3>1. ~Lost BY <1>1, <2>2 DEF Lost
      <3>2. Drains /\ noIdle BY <1>1, <2>2, <3>1, QuietUnderway DEF Timely
      <3>3. "flight" \notin active.got
        <4>1. SUFFICES ASSUME "flight" \in active.got PROVE FALSE OBVIOUS
        <4>2. active.timer # Unset BY <3>2, <4>1 DEF Timely, DrainDated
        <4> DEFINE x == active.timer
                   y == opLeft
        <4>3. x \in Nat \ {0} /\ y \in Nat /\ x < y BY <1>6, <3>2, <4>2
        <4>4. Ticked(y) = 0 BY <1>1, <2>2 DEF Expired
        <4> HIDE DEF x, y
        <4> QED BY <4>3, <4>4 DEF Ticked
      <3> QED BY <1>1, <3>2, <3>3 DEF UndatedDrain, Drains, At
    <2> QED BY <1>1, <2>1, <2>2 DEF Explained
  <1> QED BY <1>4, <1>5, <1>7, <1>8 DEF Timely

-----------------------------------------------------------------------------

LEMMA StartsTimely ==
  ASSUME SessionInit
  PROVE  Timely
  <1>1. active.kind = "None" /\ opLeft # 0 /\ ret # "Timeout" BY DeadlinesSet DEF SessionInit, NoOp
  <1>2. mode \in {"armed", "disarmed"} BY DEF SessionInit
  <1> QED BY <1>1, <1>2 DEF Timely, Underway, DrainDated, Explained, IdleOmitted, Expired, Drains,
                            At, FedKinds

\* As long as no message of a shot was swallowed, what the active operation
\* waits for will come.
Timing == ~swallowed => Timely

LEMMA TimingStays ==
  ASSUME Honest, Timing, SessionNext \/ UNCHANGED sessionVars
  PROVE  Timing'
  <1> SUFFICES ASSUME ~swallowed' PROVE Timely' BY DEF Timing
  <1>1. InSession /\ InStep /\ Timely BY SwallowedStays DEF Honest, Timing
  <1>2. CASE Device BY <1>1, <1>2, DeviceTimely
  <1>3. CASE SessionCalls BY <1>1, <1>3, CallTimely
  <1>4. CASE PollAlone BY <1>1, <1>4, AloneTimely
  <1>5. CASE Arrives
    <2>1. PICK e, k : Receive(e, k) /\ Takes(e) /\ TakenAt(e, k)
      BY <1>1, <1>5, Arrival DEF InSession
    <2> QED BY <1>1, <2>1, ReceiptTimely
  <1>6. CASE TimePasses BY <1>1, <1>6, TickTimely
  <1>7. CASE UNCHANGED sessionVars
    <2>1. UNCHANGED <<active, opLeft, pc, ret, mode, wire, pending, inbox, batched, noIdle>>
      BY <1>7 DEF sessionVars, vars, opVars, deviceVars, historyVars
    <2> QED BY <1>1, <2>1, StaysTimely
  <1> QED BY <1>2, <1>3, <1>4, <1>5, <1>6, <1>7 DEF SessionNext

LEMMA TimingExplains ==
  ASSUME Timing
  PROVE  TimeoutsExplained
  BY DEF Timing, Timely, Explained, Lost, TimeoutsExplained

\* A Timeout has one of three reasons, and an answer that is on its way is
\* none: the active operation was fed a message of a shot that was not its
\* own, its answers came in one read, or the drain got no deadline (poll(),
\* recv() and the sequencers).
THEOREM TimeoutsHaveReasons == SessionSpec => []TimeoutsExplained
  <1>1. SessionInit => Honest BY StartsInSession, StartsInStep DEF Honest
  <1>2. SessionInit => Timing BY StartsTimely DEF Timing
  <1>3. Honest /\ [SessionNext]_sessionVars => Honest' BY HonestStays
  <1>4. Honest /\ Timing /\ [SessionNext]_sessionVars => Timing' BY TimingStays
  <1>5. Timing => TimeoutsExplained BY TimingExplains
  <1> QED BY <1>1, <1>2, <1>3, <1>4, <1>5, PTL DEF SessionSpec

=============================================================================
