------------------------------- MODULE Session -------------------------------
(***************************************************************************)
(* BinaryClient, the recv() of its connection and a device, from a         *)
(* finished handshake on.  The device is external: what it does is what    *)
(* docs/SEQUENCE.md (2.6, 3, 4 and 5) and the sequencers of src/seq.rs say *)
(* of it.  It answers commands in order and at once, but its bytes take    *)
(* any time to arrive, and one read may bring any number of its frames.    *)
(*                                                                         *)
(* Time only passes when nothing is on its way, so that whatever times out *)
(* here has been lost, not delayed.                                        *)
(***************************************************************************)
EXTENDS BinaryClient, ReadBatch

CONSTANTS MaxBalls,  \* balls hit
          MaxCalls   \* operations the caller asks for

Avr(msg) == [src |-> "Avr", msg |-> msg]
Dsp(msg) == [src |-> "Dsp", msg |-> msg]
Pi(msg) == [src |-> "Pi", msg |-> msg]

\* What the device sends behind the handshake.
DeviceEnvelopes ==
  {Dsp(m) : m \in {"DspStatus", "DspStatus6", "System State"}}
    \cup {Pi(m) : m \in {"PiStatus"}}
    \cup {Avr(m) : m \in {"AvrStatus", "ConfigAck", "ConfigNack", "ARMED", "ARMED CANCELLED",
                          "ModeAck", "ModeSet", "RadarCal", "BALL TRIGGER", "FlightResultV1",
                          "FlightResult", "PROCESSED", "SpinResult", "IDLE", "ClubResult"}}

\* The drain is given up before the operation is: 3 s against 30 s.
ASSUME SessionAssumption ==
  /\ MaxBalls \in Nat /\ MaxCalls \in Nat
  /\ SendMayFail = FALSE
  /\ DeviceEnvelopes \subseteq Envelopes
  /\ DrainTimeout < OpTimeout

VARIABLES
  mode,       \* what the device is doing
  shots,      \* balls hit so far
  calls,      \* operations asked for so far
  inbox,      \* commands on their way to the device
  wire,       \* envelopes on their way to the client
  pending,    \* pending: envelopes read and not handed out, the last one next
  batched,    \* a read during the current operation brought several envelopes
  mixed,      \* a read since the ball was hit brought several envelopes
  swallowed,  \* a message of a shot was fed to an operation other than it
  noIdle,     \* the device has left out the IDLE of a shot
  owed        \* the shot data sent and not given to the caller yet

deviceVars == <<mode, shots>>
historyVars == <<batched, mixed, swallowed, noIdle, owed>>
sessionVars == <<vars, deviceVars, calls, inbox, wire, pending, historyVars>>

InShot == mode \in {"triggered", "processed", "processed without IDLE"}
AwaitsAck == mode \in {"processed", "processed without IDLE"}
ShotData == {"FlightResultV1", "FlightResult", "SpinResult"}
DataIn(envs) == {envs[i].msg : i \in DOMAIN envs} \cap ShotData

Quiet == inbox = <<>> /\ wire = <<>> /\ pending = <<>>

SessionInit ==
  /\ queue = <<>> /\ active = NoOp /\ sync = {} /\ opLeft = Unset
  /\ kaEnabled = FALSE /\ kaQueued = FALSE /\ sinceKa = 0
  /\ status = {"Dsp", "Avr", "Pi"} /\ device = TRUE
  /\ armed \in BOOLEAN /\ shotInProgress = FALSE
  /\ pc = "ready" /\ ret = "None" /\ out = <<>>
  /\ mode = (IF armed THEN "armed" ELSE "disarmed")
  /\ shots = 0 /\ calls = 0
  /\ inbox = <<>> /\ wire = <<>> /\ pending = <<>>
  /\ batched = FALSE /\ mixed = FALSE /\ swallowed = FALSE
  /\ noIdle = FALSE /\ owed = {}

-----------------------------------------------------------------------------
(* The device.                                                             *)

Sends(envs) ==
  /\ wire' = wire \o envs
  /\ owed' = owed \cup DataIn(envs)

DeviceRest == UNCHANGED <<vars, calls, pending, batched, mixed, swallowed>>

\* Nothing is claimed of the shots after one whose messages were swallowed,
\* so that the last ball is hit before.
Hit ==
  /\ mode = "armed" /\ shots < MaxBalls /\ ~swallowed
  /\ mode' = "triggered" /\ shots' = shots + 1
  /\ Sends(<<Avr("BALL TRIGGER"), Avr("FlightResultV1")>>)
  /\ UNCHANGED <<noIdle, inbox>> /\ DeviceRest

\* The flight result comes on either side of PROCESSED.
Measured ==
  /\ mode = "triggered"
  /\ mode' \in {"processed", "processed without IDLE"}
  /\ noIdle' = (noIdle \/ mode' = "processed without IDLE")
  /\ \/ Sends(<<Avr("FlightResult"), Avr("PROCESSED")>>)
     \/ Sends(<<Avr("PROCESSED"), Avr("FlightResult")>>)
  /\ UNCHANGED <<shots, inbox>> /\ DeviceRest

\* The requests that are answered alike in every mode.
Answer ==
  [c \in {"ParamValue", "ModeSet", "RadarCal", "ShotResultReq"} |->
     CASE c = "ParamValue" -> <<Avr("ConfigAck")>>
       [] c = "ModeSet" -> <<Avr("ModeSet")>>
       [] c = "RadarCal" -> <<Avr("RadarCal")>>
       [] c = "ShotResultReq" -> <<Avr("ClubResult")>>]

StatusOf(bus) ==
  CASE bus = "Dsp" -> Dsp(IF mode = "armed" THEN "DspStatus6" ELSE "DspStatus")
    [] bus = "Avr" -> Avr("AvrStatus")
    [] OTHER -> Pi("PiStatus")

\* What the device does about the next command.
Serve ==
  /\ inbox # <<>>
  /\ inbox' = Tail(inbox)
  /\ LET c == Head(inbox) IN
     \/ c.cmd = "StatusPoll" /\ Sends(<<StatusOf(c.dest)>>) /\ UNCHANGED mode
     \/ c.cmd \in DOMAIN Answer /\ Sends(Answer[c.cmd]) /\ UNCHANGED mode
     \/ /\ c.cmd = "Commit" /\ mode = "armed"
        /\ Sends(<<Avr("ConfigAck"), Avr("ARMED CANCELLED"), Dsp("System State"), Avr("ModeAck")>>)
        /\ mode' = "disarmed"
     \/ c.cmd = "Commit" /\ mode # "armed" /\ Sends(<<Avr("ConfigAck")>>) /\ UNCHANGED mode
     \/ /\ c.cmd = "Arm" /\ ~InShot
        /\ Sends(<<Avr("ConfigAck"), Avr("ARMED")>>)
        /\ mode' = "armed"
     \/ c.cmd = "Arm" /\ InShot /\ Sends(<<Avr("ConfigNack")>>) /\ UNCHANGED mode
     \/ /\ c.cmd = "ShotDataAck" /\ AwaitsAck
        /\ Sends(<<Avr("SpinResult"), Dsp("System State"), Avr("ModeAck")>>
                   \o IF mode = "processed" THEN <<Avr("IDLE")>> ELSE <<>>)
        /\ mode' = "disarmed"
     \/ c.cmd = "ShotDataAck" /\ ~AwaitsAck /\ Sends(<<>>) /\ UNCHANGED mode
  /\ UNCHANGED <<shots, noIdle>> /\ DeviceRest

Device == Hit \/ Measured \/ Serve

-----------------------------------------------------------------------------
(* The client: what it writes travels to the device.                       *)

Writes == inbox' = inbox \o out' /\ UNCHANGED deviceVars

\* An operation that is over takes what its reads brought with it.
BatchedBy(k) ==
  /\ batched' = (active'.kind = active.kind /\ (batched \/ k > 1))
  /\ mixed' = (mixed \/ (shots > 0 /\ k > 1))

Enqueues(call) ==
  /\ calls < MaxCalls
  /\ call
  /\ calls' = calls + 1
  /\ Writes
  /\ UNCHANGED <<wire, pending, historyVars>>

SessionCalls == Enqueues(CallConfigureAvr) \/ Enqueues(CallArm)

\* The steps of poll() before recv(), and recv() while nothing has arrived.
PollAlone ==
  /\ \/ DeadlineOpen \/ KeepaliveTimesOut \/ OperationTimesOut
     \/ StartNext \/ NothingToStart \/ CheckTimers
     \/ pending = <<>> /\ RecvNothing
  /\ Writes /\ BatchedBy(0)
  /\ UNCHANGED <<calls, wire, pending, swallowed, noIdle, owed>>

ShotMessages == ShotData \cup {"BALL TRIGGER", "PROCESSED", "IDLE"}

\* What is lost when the active operation is fed it: a shot under way only
\* has no use for what begins the next one.
Foreign == IF active.kind = "Shot" THEN {"BALL TRIGGER", "PROCESSED"} ELSE ShotMessages

\* recv() hands e to poll(): shot data it returns are owed no longer.
Receive(e, k) ==
  /\ Handle(e)
  /\ Writes /\ BatchedBy(k)
  /\ swallowed' = (swallowed \/ (Feeds(e) /\ e.msg \in Foreign))
  /\ owed' = IF ret' \in {"Message", "ShotDatum"} THEN owed \ {e.msg} ELSE owed
  /\ UNCHANGED <<calls, noIdle>>

ReceivePending ==
  /\ pending # <<>>
  /\ Receive(Last(pending), 1)
  /\ pending' = Front(pending)
  /\ UNCHANGED wire

ReceiveRead ==
  /\ pending = <<>>
  /\ \E k \in 1..Len(wire) :
       LET frames == SubSeq(wire, 1, k) IN
       /\ Receive(First(frames), k)
       /\ pending' = Stash(frames)
       /\ wire' = SubSeq(wire, k + 1, Len(wire))

Arrives == ReceivePending \/ ReceiveRead

\* The next poll would only look for a message.
Waits == (active # NoOp \/ queue = <<>>) /\ ~Expired /\ ~ActiveTimerDue /\ ~KeepaliveDue

TimePasses ==
  /\ Quiet /\ pc = "ready" /\ Waits
  /\ Tick
  /\ UNCHANGED <<deviceVars, calls, inbox, wire, pending, batched, mixed, swallowed, noIdle, owed>>

SessionNext == Device \/ SessionCalls \/ PollAlone \/ Arrives \/ TimePasses

SessionSpec == SessionInit /\ [][SessionNext]_sessionVars

SessionFairSpec ==
  /\ SessionSpec
  /\ WF_sessionVars(Measured) /\ WF_sessionVars(Serve) /\ WF_sessionVars(PollAlone)
  /\ SF_sessionVars(Arrives) /\ SF_sessionVars(TimePasses)

-----------------------------------------------------------------------------
(* Properties.                                                             *)

\* The drain has no deadline of its own before its first flight result.
UndatedDrain ==
  noIdle /\ active.kind = "Shot" /\ active.step = "Draining" /\ "flight" \notin active.got

\* With a device that answers everything, and time that waits for it, an
\* operation times out only for one of three reasons: it was fed a message
\* of a shot that was not its own; its answers came in one read, whose last
\* frame recv() returns first; or IDLE was left out of a shot whose flight
\* result came before PROCESSED, so that the drain never gets a deadline.
TimeoutsExplained ==
  ret = "Timeout" =>
    \/ swallowed
    \/ batched /\ active.kind \in {"Arm", "Disarm", "Shot"}
    \/ UndatedDrain

\* When nothing is under way, the client is right about the device being
\* armed, through shots, re-arms, disarms and frames out of order, unless an
\* operation was fed a message of a shot.
BeliefHonest ==
  Quiet /\ pc = "ready" /\ active = NoOp /\ queue = <<>> /\ ~swallowed =>
    (armed <=> mode = "armed")

\* No shot datum the device sent is lost on the way to the caller, unless an
\* operation other than the shot was fed it or a read mixed it with others:
\* then PROCESSED or IDLE may be handled before it.
DataReturned ==
  Quiet => owed = {} \/ swallowed \/ mixed

\* Every shot ends with the device armed again, by the client alone, or the
\* caller hears of it: the shot sequence always has a deadline.
ReArmed == InShot ~> (mode = "armed" \/ swallowed \/ ret = "Timeout")

=============================================================================
