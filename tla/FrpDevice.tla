----------------------------- MODULE FrpDevice -----------------------------
(***************************************************************************)
(* The program ironsight-frp: the loop of src/bin/ironsight-frp.rs, which  *)
(* polls a BinaryClient and, between two polls, handles what the poll has  *)
(* returned, and the FrpServer of src/frp/mod.rs, which turns the events   *)
(* of a shot into messages for one controller.  The loop begins when the   *)
(* controller has connected, as main() does.                               *)
(***************************************************************************)
EXTENDS BinaryClient, Functions

CONSTANTS MaxShots,    \* triggers the peer sends at most
          SendErrors   \* the errors of send_envelope(): "Closed", "Other"

ASSUME FrpAssumption ==
  /\ MaxShots \in Nat
  /\ SendErrors \subseteq {"Closed", "Other"}

VARIABLES
  handled,     \* whether the loop has handled what the last poll returned
  payload,     \* the shot data in the event that poll returned
  mainArmed,   \* armed of main()
  exited,      \* whether main() has returned
  connected,   \* whether FrpServer.conn is there
  shotNumber,  \* shot_number
  key,         \* the shot number in current_key, 0 when there is none
  told         \* the shot events the controller has been sent (history)

mainVars == <<handled, mainArmed, exited>>
serverVars == <<connected, shotNumber, key, told>>
frpVars == <<vars, mainVars, payload, serverVars>>

ShotEvents == {"ShotTrigger", "BallFlight", "ClubPath", "ShotFinished"}
Tell(event, shot) == [event |-> event, shot |-> shot]

\* A connected client whose handshake has been called.
FrpInit ==
  /\ Fresh /\ queue = <<Op("Handshake")>>
  /\ handled = TRUE /\ payload = {} /\ mainArmed = FALSE /\ exited = FALSE
  /\ connected = TRUE /\ shotNumber = 0 /\ key = 0 /\ told = {}

-----------------------------------------------------------------------------
(* The loop polls when it has handled the last event.                      *)

\* A poll goes on, or begins after the loop has come round.
Polling == ~exited /\ (pc = "ready" => handled)

Datum(e) ==
  CASE e.msg = "FlightResult" -> {"flight"} [] e.msg = "ClubResult" -> {"club"} [] OTHER -> {}

\* The data of a ShotDatum and of a ShotComplete that are forwarded.
Carried(e) ==
  CASE ret' = "ShotDatum" -> Datum(e)
    [] ret' = "ShotComplete" -> Fed(active, e).got \cap {"flight", "club"}
    [] OTHER -> {}

Poll ==
  /\ Polling
  /\ \/ Progress /\ payload' = {}
     \/ \E e \in Envelopes : /\ e.msg = "BALL TRIGGER" => shotNumber < MaxShots
                             /\ Handle(e)
                             /\ payload' = Carried(e)
  /\ handled' = (pc' # "ready")
  /\ UNCHANGED <<mainArmed, exited, serverVars>>

-----------------------------------------------------------------------------
(* Calls of the loop on the client, and of the server on its connection.   *)

\* What main() calls on the client for a new detection mode.  Faulty variant:
\* the other way round.
ArmThenConfigure(cfg) == <<Op("Arm"), [op |-> "ConfigureAvr", cfg |-> cfg]>>
ConfigureThenArm(cfg) == <<[op |-> "ConfigureAvr", cfg |-> cfg], Op("Arm")>>

Enqueued(ops) ==
  /\ queue' = queue \o ops
  /\ out' = <<>>
  /\ UNCHANGED <<opVars, kaVars, cacheVars, shotVars, pc, ret, payload>>

\* What is sent before an error is sent; Closed drops the connection.
\* Faulty variant: every error is treated as the others are.
SendKeepsConnection(events) ==
  \/ told' = told \cup (IF connected THEN Range(events) ELSE {}) /\ UNCHANGED connected
  \/ /\ connected
     /\ SendErrors # {}
     /\ \E k \in 1..Len(events) : told' = told \cup Range(SubSeq(events, 1, k - 1))
     /\ UNCHANGED connected
SendEvents(events) ==
  \/ told' = told \cup (IF connected THEN Range(events) ELSE {}) /\ UNCHANGED connected
  \/ /\ connected
     /\ \E err \in SendErrors, k \in 1..Len(events) :
          /\ told' = told \cup Range(SubSeq(events, 1, k - 1))
          /\ connected' = (err # "Closed")

Handling(returned) ==
  /\ ~exited /\ pc = "ready" /\ ~handled
  /\ ret \in returned
  /\ handled' = TRUE

-----------------------------------------------------------------------------
(* What the loop does with each outcome of a poll.                         *)

\* The telemetry of the device is sent, then it is configured and armed.
OnHandshake ==
  /\ Handling({"Handshake"})
  /\ connected' \in {connected} \cup (IF "Closed" \in SendErrors THEN {FALSE} ELSE {})
  /\ Enqueued(ConfigureThenArm(NoSettings))
  /\ UNCHANGED <<mainArmed, exited, shotNumber, key, told>>

OnArmed ==
  /\ Handling({"Armed"})
  /\ mainArmed' = TRUE
  /\ Enqueued(<<>>)
  /\ UNCHANGED <<exited, serverVars>>

\* A new key, which replaces the one of a shot that was not completed.
OnTrigger ==
  /\ Handling({"Trigger"})
  /\ shotNumber' = shotNumber + 1
  /\ key' = shotNumber'
  /\ SendEvents(<<Tell("ShotTrigger", key')>>)
  /\ Enqueued(<<>>)
  /\ UNCHANGED <<mainArmed, exited>>

\* The data of the event, for the shot that is open.
DataEvents ==
  IF key = 0 THEN <<>>
  ELSE (IF "flight" \in payload THEN <<Tell("BallFlight", key)>> ELSE <<>>)
         \o (IF "club" \in payload THEN <<Tell("ClubPath", key)>> ELSE <<>>)

OnShotDatum ==
  /\ Handling({"ShotDatum"})
  /\ SendEvents(DataEvents)
  /\ Enqueued(<<>>)
  /\ UNCHANGED <<mainArmed, exited, shotNumber, key>>

\* Faulty variant: the key is left in current_key.
OnShotCompleteKeepsKey ==
  /\ Handling({"ShotComplete"})
  /\ SendEvents(DataEvents \o (IF key = 0 THEN <<>> ELSE <<Tell("ShotFinished", key)>>))
  /\ Enqueued(<<>>)
  /\ UNCHANGED <<mainArmed, exited, shotNumber, key>>

\* The data once more, and the end of the shot, whose key is taken.
OnShotComplete ==
  /\ Handling({"ShotComplete"})
  /\ SendEvents(DataEvents \o (IF key = 0 THEN <<>> ELSE <<Tell("ShotFinished", key)>>))
  /\ key' = 0
  /\ Enqueued(<<>>)
  /\ UNCHANGED <<mainArmed, exited, shotNumber>>

OnOtherEvent ==
  /\ Handling({"Disarmed", "Configured", "Keepalive", "Message"})
  /\ Enqueued(<<>>)
  /\ UNCHANGED <<mainArmed, exited, serverVars>>

\* Nothing returned: check_controller() finds no command, or finds the
\* connection closed, which drops it.
OnNone ==
  /\ Handling({"None"})
  /\ connected' \in {connected, FALSE}
  /\ Enqueued(<<>>)
  /\ UNCHANGED <<mainArmed, exited, shotNumber, key, told>>

\* ... or finds a new detection mode (bound: MaxQueue operations wait).
OnDetectionMode ==
  /\ Handling({"None"})
  /\ connected
  /\ Len(queue) + 2 <= MaxQueue
  /\ mainArmed' = FALSE
  /\ Enqueued(ConfigureThenArm(NoSettings))
  /\ UNCHANGED <<exited, serverVars>>

\* An error while armed: arm again and go on.  Otherwise main() returns.
OnErrorArmed ==
  /\ Handling(Errors)
  /\ mainArmed
  /\ mainArmed' = FALSE
  /\ Enqueued(<<Op("Arm")>>)
  /\ UNCHANGED <<exited, serverVars>>

OnErrorExit ==
  /\ Handling(Errors)
  /\ ~mainArmed
  /\ exited' = TRUE
  /\ Enqueued(<<>>)
  /\ UNCHANGED <<mainArmed, serverVars>>

Main ==
  \/ OnHandshake \/ OnArmed \/ OnTrigger \/ OnShotDatum \/ OnShotComplete
  \/ OnOtherEvent \/ OnNone \/ OnDetectionMode \/ OnErrorArmed \/ OnErrorExit

-----------------------------------------------------------------------------

FrpTick == Tick /\ UNCHANGED <<mainVars, payload, serverVars>>

FrpNext == Poll \/ Main \/ FrpTick

FrpSpec == FrpInit /\ [][FrpNext]_frpVars

\* The loop goes round and time passes.
FrpFairSpec == FrpSpec /\ WF_frpVars(Poll) /\ WF_frpVars(Main) /\ WF_frpVars(FrpTick)

-----------------------------------------------------------------------------
(* Properties.                                                             *)

\* Every variable has its type, and the key is that of the last trigger.
FrpTypeOK ==
  /\ handled \in BOOLEAN /\ mainArmed \in BOOLEAN /\ exited \in BOOLEAN
  /\ connected \in BOOLEAN
  /\ payload \subseteq {"flight", "club"}
  /\ shotNumber \in 0..MaxShots /\ key \in {0, shotNumber}
  /\ told \subseteq [event: ShotEvents, shot: 1..shotNumber]

\* A controller that is told anything of a shot was told of its trigger
\* first, when the only error of a send is that the connection has closed.
TriggerTold ==
  "Other" \notin SendErrors =>
    \A t \in told : Tell("ShotTrigger", t.shot) \in told

\* A shot that was reported as finished is over for the controller: no datum
\* and no trigger of it, or of an earlier shot, comes later.
FinishedIsLast ==
  [][\A new \in told' \ told, t \in told :
       t.event = "ShotFinished" => new.shot > t.shot]_frpVars

\* A configuration leaves the device disarmed: an arm is always behind it.
ArmAfter(i) == \E j \in DOMAIN queue : j > i /\ queue[j].op = "Arm"
ArmFollowsConfigure ==
  /\ active.kind = "AvrConfig" => ArmAfter(0)
  /\ \A i \in DOMAIN queue : queue[i].op = "ConfigureAvr" => ArmAfter(i)

\* A configuration ends with an armed device, or with the program.
ConfiguredIsArmed == active.kind = "AvrConfig" ~> (ret = "Armed" \/ exited)

\* An operation that timed out ends the program: the loop does not go on with
\* a client that does nothing, also when it was armed and tries to recover by
\* queueing an arm.
TimeoutEndsProgram == ret = "Timeout" ~> exited

=============================================================================
