---------------------------- MODULE BinaryClient ----------------------------
(***************************************************************************)
(* BinaryClient of src/client.rs: a FIFO of operations, at most one active *)
(* operation, and poll(), which the caller runs in a loop.  One poll() is  *)
(* four steps here, in the order of the code's numbered comments:          *)
(*   "ready"   the caller holds the client; a poll begins with the check   *)
(*             of the operation deadline (1)                               *)
(*   "start"   the next queued operation starts when none is active (2)    *)
(*   "timers"  the sequencers' own deadlines (3, 3b) and the automatic     *)
(*             keepalive (4)                                               *)
(*   "recv"    one envelope, if there is one, is received and handled      *)
(*             (5-11)                                                      *)
(* The clock may advance before each of them.  Envelopes come from an      *)
(* arbitrary peer: any of the constant Envelopes, at any time.             *)
(***************************************************************************)
EXTENDS Sequencers

CONSTANTS OpTimeout,          \* op_timeout, in ticks
          KeepaliveTimeout,   \* KEEPALIVE_TIMEOUT, in ticks
          KeepaliveInterval,  \* keepalive_interval, in ticks
          MaxQueue,           \* the caller enqueues only below this length
          SettingsChoices,    \* the AvrSettings a caller may pass
          Envelopes,          \* the envelopes the peer may send
          SendMayFail         \* whether a write to the stream may fail

ASSUME ClientAssumption ==
  /\ OpTimeout \in Nat \ {0}
  /\ KeepaliveTimeout \in Nat \ {0}
  /\ KeepaliveInterval \in Nat \ {0}
  /\ MaxQueue \in Nat \ {0}
  /\ SettingsChoices \subseteq Settings
  /\ Envelopes \subseteq AllEnvelopes
  /\ SendMayFail \in BOOLEAN

VARIABLES
  queue,           \* VecDeque<QueuedOp>
  active,          \* the sequencer of the active operation, or NoOp
  sync,            \* what the handshake keeps of its finished phases
  opLeft,          \* ticks until op_deadline, Unset when there is none
  kaEnabled,       \* keepalive_enabled
  kaQueued,        \* keepalive_queued
  sinceKa,         \* ticks since last_keepalive, up to KeepaliveInterval
  status,          \* the buses whose status is cached
  device,          \* whether the handshake outcome is available
  armed,           \* armed
  shotInProgress,  \* shot_in_progress
  pc,              \* where poll() is
  ret,             \* what the last poll() returned, "Pending" inside one
  out              \* the commands the last step wrote to the stream

opVars == <<active, sync, opLeft>>
kaVars == <<kaEnabled, kaQueued, sinceKa>>
cacheVars == <<status, device>>
shotVars == <<armed, shotInProgress>>
vars == <<queue, opVars, kaVars, cacheVars, shotVars, pc, ret, out>>

NoOp == [kind |-> "None"]

OpNames == {"Handshake", "ConfigureAvr", "ConfigureCam", "Arm", "Keepalive"}
QueuedOps == [op: OpNames, cfg: Settings]
Op(name) == [op |-> name, cfg |-> NoSettings]

Events == {"Handshake", "Disarmed", "Configured", "Armed", "Trigger",
           "ShotDatum", "ShotComplete", "Keepalive", "Message"}
Errors == {"Timeout", "Io", "RecvError"}

Fresh ==
  /\ active = NoOp /\ sync = {} /\ opLeft = Unset
  /\ kaEnabled = FALSE /\ kaQueued = FALSE /\ sinceKa = 0
  /\ status = {} /\ device = FALSE
  /\ armed = FALSE /\ shotInProgress = FALSE
  /\ pc = "ready" /\ ret = "None" /\ out = <<>>

Init == queue = <<>> /\ Fresh

\* poll() returns r to the caller, or goes on at label l.
Return(r) == pc' = "ready" /\ ret' = r
GoOn(l) == pc' = l /\ ret' = "Pending"

\* The active operation is over, and so is its deadline.
\* Faulty variants: one of the two is forgotten.
OpOverKeepsDeadline == active' = NoOp /\ opLeft' = opLeft
OpOverKeepsActive == active' = active /\ opLeft' = Unset
OpOver == active' = NoOp /\ opLeft' = Unset

\* The next keepalive may be queued, an interval from now.
\* Faulty variant: the flag stays set.
KeepaliveOverKeepsFlag == kaQueued' = kaQueued /\ sinceKa' = 0
KeepaliveOver == kaQueued' = FALSE /\ sinceKa' = 0

\* The write of one command of cmds fails; those before it are out.
WriteFails(cmds) ==
  /\ SendMayFail
  /\ \E k \in 1..Len(cmds) : out' = SubSeq(cmds, 1, k - 1)
  /\ Return("Io")

-----------------------------------------------------------------------------
(* The caller enqueues an operation, between two polls.                    *)

Enqueue(op) ==
  /\ pc = "ready"
  /\ Len(queue) < MaxQueue
  /\ queue' = Append(queue, op)
  /\ out' = <<>>
  /\ UNCHANGED <<opVars, kaVars, cacheVars, shotVars, pc, ret>>

CallHandshake == Enqueue(Op("Handshake"))
CallConfigureAvr == \E cfg \in SettingsChoices : Enqueue([op |-> "ConfigureAvr", cfg |-> cfg])
CallConfigureCam == Enqueue(Op("ConfigureCam"))
CallArm == Enqueue(Op("Arm"))

-----------------------------------------------------------------------------
(* Step 1: the operation deadline.                                         *)

Expired == opLeft = 0

DeadlineOpen ==
  /\ pc = "ready" /\ ~Expired
  /\ GoOn("start")
  /\ out' = <<>>
  /\ UNCHANGED <<queue, opVars, kaVars, cacheVars, shotVars>>

\* Not fatal: the keepalive is dropped and the next one is an interval away.
KeepaliveTimesOut ==
  /\ pc = "ready" /\ Expired /\ active.kind = "Keepalive"
  /\ OpOver
  /\ KeepaliveOver
  /\ GoOn("start")
  /\ out' = <<>>
  /\ UNCHANGED <<queue, sync, kaEnabled, cacheVars, shotVars>>

\* Faulty variant: the deadline is taken when it is reported.
OperationTimesOutOnce ==
  /\ pc = "ready" /\ Expired /\ active.kind # "Keepalive"
  /\ opLeft' = Unset
  /\ Return("Timeout")
  /\ out' = <<>>
  /\ UNCHANGED <<queue, active, sync, kaVars, cacheVars, shotVars>>

\* Every other operation stays active with its deadline: poll only fails.
OperationTimesOut ==
  /\ pc = "ready" /\ Expired /\ active.kind # "Keepalive"
  /\ Return("Timeout")
  /\ out' = <<>>
  /\ UNCHANGED <<queue, opVars, kaVars, cacheVars, shotVars>>

-----------------------------------------------------------------------------
(* Step 2: start_op for the head of the queue.  A configure of an armed    *)
(* device stays in front of the queue, behind a disarm that runs first.    *)

\* Faulty variant: a change of mode without parameters skips the disarm.
DisarmFirstIfParams(op) == op.op = "ConfigureAvr" /\ armed /\ op.cfg.params > 0
DisarmFirst(op) == op.op = "ConfigureAvr" /\ armed

SequencerOf ==
  [Handshake |-> "Dsp", ConfigureAvr |-> "AvrConfig", ConfigureCam |-> "Camera",
   Arm |-> "Arm", Keepalive |-> "Keepalive"]

KindFor(op) == IF DisarmFirst(op) THEN "Disarm" ELSE SequencerOf[op.op]
TimeoutFor(op) == IF op.op = "Keepalive" THEN KeepaliveTimeout ELSE OpTimeout

\* Faulty variants: the configuration goes to the back of the queue; the
\* deadline is not set.
TakeHeadToBack ==
  /\ queue # <<>>
  /\ queue' = IF DisarmFirst(Head(queue)) THEN Append(Tail(queue), Head(queue)) ELSE Tail(queue)
  /\ opLeft' = TimeoutFor(Head(queue))
TakeHeadUntimed ==
  /\ queue # <<>>
  /\ queue' = IF DisarmFirst(Head(queue)) THEN queue ELSE Tail(queue)
  /\ opLeft' = opLeft

\* What start_op takes from the queue and sets before it writes anything.
TakeHead ==
  /\ queue # <<>>
  /\ queue' = IF DisarmFirst(Head(queue)) THEN queue ELSE Tail(queue)
  /\ opLeft' = TimeoutFor(Head(queue))

StartHead ==
  /\ TakeHead
  /\ active' = NewSeq(KindFor(Head(queue)), Head(queue).cfg)
  /\ sync' = {}
  /\ out' = InitialSends[KindFor(Head(queue))]

\* The first write fails: the operation is gone, its deadline stays set.
StartHeadFails ==
  /\ TakeHead
  /\ active' = NoOp
  /\ sync' = {}
  /\ WriteFails(InitialSends[KindFor(Head(queue))])

StartNext ==
  /\ pc = "start" /\ active = NoOp
  /\ StartHead
  /\ GoOn("timers")
  /\ UNCHANGED <<kaVars, cacheVars, shotVars>>

StartNextFails ==
  /\ pc = "start" /\ active = NoOp
  /\ StartHeadFails
  /\ UNCHANGED <<kaVars, cacheVars, shotVars>>

NothingToStart ==
  /\ pc = "start"
  /\ active # NoOp \/ queue = <<>>
  /\ GoOn("timers")
  /\ out' = <<>>
  /\ UNCHANGED <<queue, opVars, kaVars, cacheVars, shotVars>>

-----------------------------------------------------------------------------
(* Steps 3, 3b and 4.                                                      *)

\* Faulty variant: one keepalive per interval, whether or not one waits.
KeepaliveDueAgain == kaEnabled /\ ~shotInProgress /\ sinceKa >= KeepaliveInterval
KeepaliveDue ==
  kaEnabled /\ ~kaQueued /\ ~shotInProgress /\ sinceKa >= KeepaliveInterval

AutoKeepalive ==
  IF KeepaliveDue
  THEN queue' = Append(queue, Op("Keepalive")) /\ kaQueued' = TRUE
  ELSE UNCHANGED <<queue, kaQueued>>

ActiveTimerDue == active # NoOp /\ TimerDue(active)

CheckTimers ==
  /\ pc = "timers"
  /\ IF ActiveTimerDue
     THEN active' = TimedOut(active) /\ out' = TimeoutSends(active)
     ELSE active' = active /\ out' = <<>>
  /\ AutoKeepalive
  /\ GoOn("recv")
  /\ UNCHANGED <<sync, opLeft, kaEnabled, sinceKa, cacheVars, shotVars>>

\* The sequencer has moved on already when its write fails.
CheckTimersFails ==
  /\ pc = "timers" /\ ActiveTimerDue
  /\ active' = TimedOut(active)
  /\ WriteFails(TimeoutSends(active))
  /\ UNCHANGED <<queue, sync, opLeft, kaVars, cacheVars, shotVars>>

-----------------------------------------------------------------------------
(* Steps 5 and 6: recv, and the status cache.                              *)

RecvNothing ==
  /\ pc = "recv"
  /\ Return("None")
  /\ out' = <<>>
  /\ UNCHANGED <<queue, opVars, kaVars, cacheVars, shotVars>>

RecvFails ==
  /\ pc = "recv"
  /\ Return("RecvError")
  /\ out' = <<>>
  /\ UNCHANGED <<queue, opVars, kaVars, cacheVars, shotVars>>

IsStatus(e) ==
  \/ e.msg \in {"DspStatus", "DspStatus6"} /\ e.src = "Dsp"
  \/ e.msg = "AvrStatus" /\ e.src = "Avr"
  \/ e.msg = "PiStatus" /\ e.src = "Pi"

Received(e) ==
  /\ pc = "recv"
  /\ status' = IF IsStatus(e) THEN status \cup {e.src} ELSE status

-----------------------------------------------------------------------------
(* Step 7: the active operation is fed.  A keepalive is fed only statuses; *)
(* everything else passes it and reaches the shot detection.               *)

\* Faulty variant: shot texts pass every operation but a shot.
DominatedUnlessShot(e) == active.kind # "Shot" /\ ~IsStatus(e)
Dominated(e) == active.kind = "Keepalive" /\ ~IsStatus(e)
Feeds(e) == active # NoOp /\ ~Dominated(e)
Completes(e) == Feeds(e) /\ IsComplete(Fed(active, e))

FeedActive(e) ==
  /\ Received(e)
  /\ Feeds(e) /\ ~Completes(e)
  /\ active' = Fed(active, e)
  /\ out' = Replies(active, e)
  /\ Return(IF YieldsDatum(active, e) THEN "ShotDatum" ELSE "None")
  /\ UNCHANGED <<queue, sync, opLeft, kaVars, device, shotVars>>

FeedFails(e) ==
  /\ Received(e)
  /\ Feeds(e)
  /\ active' = Fed(active, e)
  /\ WriteFails(Replies(active, e))
  /\ UNCHANGED <<queue, sync, opLeft, kaVars, device, shotVars>>

-----------------------------------------------------------------------------
(* advance_phase: the handshake goes DSP, AVR, PI.                         *)

NextKind == [Dsp |-> "Avr", Avr |-> "Pi"]
Kept == [Dsp |-> {"dsp"}, Avr |-> {"avr"}]

\* What into_result() of the finished phase hands on.
PhaseResult(e) == Kept[active.kind] \cup (Fed(active, e).got \cap {"state6"})

NextPhase(e) ==
  /\ Received(e)
  /\ active.kind \in DOMAIN NextKind /\ Completes(e)
  /\ active' = NewSeq(NextKind[active.kind], NoSettings)
  /\ sync' = sync \cup PhaseResult(e)
  /\ opLeft' = OpTimeout
  /\ out' = InitialSends[NextKind[active.kind]]
  /\ Return("None")
  /\ UNCHANGED <<queue, kaVars, device, shotVars>>

\* The phase is taken out before the write: the handshake is lost.
NextPhaseFails(e) ==
  /\ Received(e)
  /\ active.kind \in DOMAIN NextKind /\ Completes(e)
  /\ active' = NoOp /\ sync' = {}
  /\ WriteFails(InitialSends[NextKind[active.kind]])
  /\ UNCHANGED <<queue, opLeft, kaVars, device, shotVars>>

\* A device that was left armed is noticed by its DSP status.
HandshakeDone(e) ==
  /\ Received(e)
  /\ active.kind = "Pi" /\ Completes(e)
  /\ armed' = (armed \/ "state6" \in sync)
  /\ device' = TRUE
  /\ OpOver /\ sync' = {}
  /\ out' = <<>>
  /\ Return("Handshake")
  /\ UNCHANGED <<queue, kaVars, shotInProgress>>

-----------------------------------------------------------------------------
(* finish_op.                                                              *)

Finish(e, kinds, event) ==
  /\ Received(e)
  /\ active.kind \in kinds /\ Completes(e)
  /\ OpOver
  /\ out' = <<>>
  /\ Return(event)
  /\ UNCHANGED <<queue, sync, device>>

FinishDisarm(e) ==
  /\ Finish(e, {"Disarm"}, "Disarmed")
  /\ armed' = FALSE /\ kaEnabled' = FALSE
  /\ UNCHANGED <<kaQueued, sinceKa, shotInProgress>>

FinishConfigure(e) ==
  /\ Finish(e, {"AvrConfig", "Camera"}, "Configured")
  /\ UNCHANGED <<kaVars, shotVars>>

FinishArm(e) ==
  /\ Finish(e, {"Arm"}, "Armed")
  /\ armed' = TRUE /\ kaEnabled' = TRUE /\ sinceKa' = 0
  /\ UNCHANGED <<kaQueued, shotInProgress>>

FinishShot(e) ==
  /\ Finish(e, {"Shot"}, "ShotComplete")
  /\ armed' = TRUE /\ shotInProgress' = FALSE /\ sinceKa' = 0
  /\ UNCHANGED <<kaEnabled, kaQueued>>

\* A finished keepalive starts the next queued operation at once.
KeepaliveDone(e) ==
  /\ Received(e)
  /\ active.kind = "Keepalive" /\ Completes(e)
  /\ KeepaliveOver
  /\ UNCHANGED <<kaEnabled, device, shotVars>>

FinishKeepalive(e) ==
  /\ KeepaliveDone(e)
  /\ queue = <<>>
  /\ OpOver
  /\ out' = <<>>
  /\ Return("Keepalive")
  /\ UNCHANGED <<queue, sync>>

FinishKeepaliveAndStart(e) ==
  /\ KeepaliveDone(e)
  /\ StartHead
  /\ Return("Keepalive")

FinishKeepaliveStartFails(e) ==
  /\ KeepaliveDone(e)
  /\ StartHeadFails

-----------------------------------------------------------------------------
(* Steps 9-11: no operation took the envelope.                             *)

Unclaimed(e) == Received(e) /\ ~Feeds(e)

\* Faulty variant: the device is taken to be armed still.
TriggerStaysArmed(e) ==
  /\ Unclaimed(e) /\ e.msg = "BALL TRIGGER"
  /\ shotInProgress' = TRUE
  /\ out' = <<>>
  /\ Return("Trigger")
  /\ UNCHANGED <<queue, opVars, kaVars, device, armed>>

Trigger(e) ==
  /\ Unclaimed(e) /\ e.msg = "BALL TRIGGER"
  /\ shotInProgress' = TRUE /\ armed' = FALSE
  /\ out' = <<>>
  /\ Return("Trigger")
  /\ UNCHANGED <<queue, opVars, kaVars, device>>

\* The shot replaces a keepalive in flight, whose flag is reset.
\* Faulty variant: the shot gets no deadline.
ProcessedUntimed(e) ==
  /\ Unclaimed(e) /\ e.msg = "PROCESSED"
  /\ kaQueued' = FALSE
  /\ active' = NewSeq("Shot", NoSettings)
  /\ out' = InitialSends["Shot"]
  /\ Return("None")
  /\ UNCHANGED <<queue, opLeft, sync, kaEnabled, sinceKa, device, shotVars>>

Processed(e) ==
  /\ Unclaimed(e) /\ e.msg = "PROCESSED"
  /\ kaQueued' = FALSE
  /\ active' = NewSeq("Shot", NoSettings)
  /\ opLeft' = OpTimeout
  /\ out' = InitialSends["Shot"]
  /\ Return("None")
  /\ UNCHANGED <<queue, sync, kaEnabled, sinceKa, device, shotVars>>

ProcessedFails(e) ==
  /\ Unclaimed(e) /\ e.msg = "PROCESSED"
  /\ WriteFails(InitialSends["Shot"])
  /\ UNCHANGED <<queue, opVars, kaVars, device, shotVars>>

EarlyDatum(e) == shotInProgress /\ e.msg = "FlightResultV1"

PassOn(e) ==
  /\ Unclaimed(e) /\ e.msg \notin {"BALL TRIGGER", "PROCESSED"}
  /\ out' = <<>>
  /\ Return(IF EarlyDatum(e) THEN "ShotDatum" ELSE "Message")
  /\ UNCHANGED <<queue, opVars, kaVars, device, shotVars>>

-----------------------------------------------------------------------------
(* Time.  Deadlines count down to 0 and stay there until they are read.    *)

Tick ==
  /\ opLeft' = Ticked(opLeft)
  /\ active' = IF active = NoOp THEN NoOp ELSE [active EXCEPT !.timer = Ticked(@)]
  /\ sinceKa' = IF sinceKa < KeepaliveInterval THEN sinceKa + 1 ELSE sinceKa
  /\ out' = <<>>
  /\ UNCHANGED <<queue, sync, kaEnabled, kaQueued, cacheVars, shotVars, pc, ret>>

-----------------------------------------------------------------------------

Calls == CallHandshake \/ CallConfigureAvr \/ CallConfigureCam \/ CallArm

Handle(e) ==
  \/ FeedActive(e) \/ FeedFails(e)
  \/ NextPhase(e) \/ NextPhaseFails(e) \/ HandshakeDone(e)
  \/ FinishDisarm(e) \/ FinishConfigure(e) \/ FinishArm(e) \/ FinishShot(e)
  \/ FinishKeepalive(e) \/ FinishKeepaliveAndStart(e) \/ FinishKeepaliveStartFails(e)
  \/ Trigger(e) \/ Processed(e) \/ ProcessedFails(e) \/ PassOn(e)

\* The steps of poll() in which no envelope is received.
Progress ==
  \/ DeadlineOpen \/ KeepaliveTimesOut \/ OperationTimesOut
  \/ StartNext \/ StartNextFails \/ NothingToStart
  \/ CheckTimers \/ CheckTimersFails
  \/ RecvNothing \/ RecvFails

PollStep == Progress \/ \E e \in Envelopes : Handle(e)

Next == Calls \/ PollStep \/ Tick

Spec == Init /\ [][Next]_vars

\* The caller keeps polling, a poll terminates, and time passes.
FairSpec == Spec /\ WF_vars(PollStep) /\ WF_vars(Tick)

-----------------------------------------------------------------------------
(* Properties.                                                             *)

IsOp(name, q, i) == q[i].op = name
Waiting(name) == \E i \in DOMAIN queue : IsOp(name, queue, i)

\* Every variable has the type the struct gives it.
TypeOK ==
  /\ queue \in Seq(QueuedOps)
  /\ active \in Sequencer \cup {NoOp}
  /\ sync \in SUBSET {"dsp", "avr", "state6"}
  /\ opLeft \in Nat \cup {Unset}
  /\ kaEnabled \in BOOLEAN /\ kaQueued \in BOOLEAN
  /\ sinceKa \in 0..KeepaliveInterval
  /\ status \in SUBSET Buses /\ device \in BOOLEAN
  /\ armed \in BOOLEAN /\ shotInProgress \in BOOLEAN
  /\ pc \in {"ready", "start", "timers", "recv"}
  /\ ret \in Events \cup Errors \cup {"None", "Pending"}
  /\ out \in Seq(Commands)

\* Without write errors op_deadline is set exactly while an operation is
\* active: an idle client never fails with Timeout, and no operation waits
\* without a limit (op_deadline is set and cleared in seven places).
DeadlineIffActive == ~SendMayFail => (opLeft = Unset <=> active = NoOp)

\* Also with write errors: no operation waits without a limit.
DeadlineWhenActive == active # NoOp => opLeft # Unset

\* Without write errors keepalive_queued is TRUE only while there is a
\* keepalive to reset it: in the queue or active.  Were it ever stale, no
\* keepalive would be queued again.
KeepaliveFlagHonest ==
  ~SendMayFail => (kaQueued => Waiting("Keepalive") \/ active.kind = "Keepalive")

\* A PROCESSED that resets the flag while a keepalive is still queued lets a
\* second one in, and never a third.
KeepaliveCount ==
  Cardinality({i \in DOMAIN queue : IsOp("Keepalive", queue, i)})
    + (IF active.kind = "Keepalive" THEN 1 ELSE 0)
KeepaliveBound == KeepaliveCount <= IF kaQueued THEN 2 ELSE 1

\* While a disarm runs, the configuration it makes room for is the next
\* operation: nothing can get between the two.
DisarmThenConfigure ==
  active.kind = "Disarm" => /\ armed
                            /\ queue # <<>>
                            /\ Head(queue).op = "ConfigureAvr"

\* AVR parameters are never written to a device the client knows is armed.
ConfigureOnlyDisarmed == active.kind = "AvrConfig" => ~armed

\* The unwraps of into_result() and the expects of advance_phase cannot
\* panic, also when the calibration steps were given up.
NoPanic ==
  /\ active.kind = "Avr" => "dsp" \in sync
  /\ active.kind = "Pi" => {"dsp", "avr"} \subseteq sync
  /\ active.kind \in DOMAIN Unwrapped =>
       \A e \in Envelopes : IsComplete(Fed(active, e)) =>
         Unwrapped[active.kind] \subseteq Fed(active, e).got

\* A Timeout is final: when the deadline of an operation has passed at the
\* start of a poll, no later step sends, starts or finishes anything,
\* whatever the caller enqueues.
TimeoutIsFinal ==
  [][pc = "ready" /\ Expired /\ active.kind # "Keepalive" =>
       /\ active'.kind = active.kind /\ opLeft' = opLeft /\ pc' = "ready"
       /\ out' = <<>>]_vars

\* One re-arm per shot: the shot sequence never goes back, and sends Arm on
\* entering WaitingForArmAck (unless that write fails) and never again, though
\* the drain timeout and a late IDLE both lead there.
ShotRank ==
  [Draining |-> 0, WaitingForClubResult |-> 1, WaitingForArmAck |-> 2, WaitingForArmed |-> 3]
ArmsOncePerShot ==
  [][active.kind = "Shot" /\ active'.kind = "Shot" =>
       LET arms == Cmd("Arm", "Avr") \in {out'[i] : i \in DOMAIN out'}
           enters == active.step # "WaitingForArmAck" /\ active'.step = "WaitingForArmAck"
       IN  /\ ShotRank[active.step] <= ShotRank[active'.step]
           /\ arms => enters
           /\ enters => arms \/ ret' = "Io"]_vars

\* Every operation other than a keepalive finishes, or poll fails with
\* Timeout: no peer, silent or noisy, keeps the client in one forever.
OperationEnds ==
  \A k \in Kinds \ {"Keepalive"} :
    active.kind = k ~> (active.kind # k \/ ret = "Timeout")

\* An arm the caller asked for starts, behind whatever is queued before it.
ArmStarts == Waiting("Arm") ~> (active.kind = "Arm" \/ ret = "Timeout")

\* Once armed, keepalives keep coming: no lost answer and no shot that takes
\* the place of a keepalive suppresses them for good.
KeepalivesContinue ==
  (kaEnabled /\ ~shotInProgress) ~>
    (\/ active.kind \in {"Keepalive", "Shot"}
     \/ ~kaEnabled \/ shotInProgress
     \/ ret \in {"Armed", "Timeout"})

-----------------------------------------------------------------------------
(* Refinement: keepalives are invisible, a handshake is one operation.     *)

UserRequests == OpNames \ {"Keepalive"}

\* What the caller asked for, among the first i operations of q.
RequestsUpTo(q) ==
  LET upTo[i \in 0..Len(q)] ==
        IF i = 0 THEN <<>>
        ELSE IF q[i].op = "Keepalive" THEN upTo[i - 1]
        ELSE Append(upTo[i - 1], q[i].op)
  IN upTo

WaitingRequests == RequestsUpTo(queue)[Len(queue)]

Running ==
  CASE active.kind \in {"None", "Keepalive"} -> "Idle"
    [] active.kind \in HandshakeKinds -> "Handshake"
    [] active.kind = "AvrConfig" -> "ConfigureAvr"
    [] active.kind = "Camera" -> "ConfigureCam"
    [] OTHER -> active.kind

Operations == INSTANCE OperationQueue
                WITH Requests <- UserRequests, MayLose <- SendMayFail,
                     waiting <- WaitingRequests, running <- Running

\* Operations run one at a time and in order, whatever keepalives and shots
\* come between; a shot never takes the place of one.  A write error may lose
\* the operation that starts, or end the one that runs, and no other.
ServesInOrder == Operations!Spec

-----------------------------------------------------------------------------
(* What the documentation says and the code does not do.                   *)

\* SEQUENCE.md: the request for the shot result is best effort; if the device
\* does not respond, the client arms anyway.  The sequencer waits for it.
ResultIsBestEffort ==
  (active.kind = "Shot" /\ active.step = "WaitingForClubResult") ~>
    (active.kind = "Shot" /\ active.step = "WaitingForArmAck")

=============================================================================
