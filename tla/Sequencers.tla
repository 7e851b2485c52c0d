----------------------------- MODULE Sequencers -----------------------------
(***************************************************************************)
(* The pollable state machines of src/seq.rs and the KeepaliveSequencer of *)
(* src/client.rs.  Each one is a value that is created with the commands   *)
(* to send first, is fed one envelope at a time, answers with the commands *)
(* to send next, and is complete after its last awaited message.           *)
(*                                                                         *)
(* A sequencer is a record:                                                *)
(*   kind   the Rust type                                                  *)
(*   step   its step enum                                                  *)
(*   idx    the index or counter some steps carry                          *)
(*   got    the names of the Option fields and flags filled so far         *)
(*   timer  ticks left of its own deadline (cal_deadline of the AVR sync,  *)
(*          drain_deadline of the shot), Unset when there is none          *)
(*   cfg    the settings it was created with                               *)
(*                                                                         *)
(* What a step does with an envelope is a set of rows: from which buses,   *)
(* on which message, what is kept, the next step and the commands sent.    *)
(* An envelope no row accepts is skipped.  The filters should_skip*, which *)
(* drop noise before the match, are then the bus test of each row, because *)
(* no row awaits a message that its step's filter drops.                   *)
(***************************************************************************)
EXTENDS Integers, Sequences, FiniteSets

CONSTANTS CalTimeout,    \* ticks the AVR sync waits for a calibration answer
          DrainTimeout,  \* ticks the shot waits for IDLE after flight data
          MaxRetries     \* retries of the arm sequence saturate here

ASSUME TimeoutAssumption ==
  /\ CalTimeout \in Nat \ {0}
  /\ DrainTimeout \in Nat \ {0}
  /\ MaxRetries \in Nat

Unset == -1

\* The senders of envelopes and the destinations of commands.
Buses == {"App", "Pi", "Avr", "Dsp"}

-----------------------------------------------------------------------------
(* Messages, told apart as far as some match tells them apart.  A Text is  *)
(* named by what a sequencer searches in it, DspStatus6 is a DspStatus     *)
(* whose state() is 6.                                                     *)

Texts == {"Text", "ARMED", "ARMED CANCELLED", "System State"}
ShotTexts == {"ShotText", "BALL TRIGGER", "PROCESSED", "IDLE"}
Noise == Texts \cup {"DspDebug", "Unknown"}

Messages ==
  Noise \cup ShotTexts \cup
  {"DspStatus", "DspStatus6", "AvrStatus", "PiStatus",
   "DspQueryResp", "DevInfoResp", "ProdInfoResp", "ConfigResp", "ParamValue",
   "CalDataResp", "CalParamResp", "AvrConfigResp", "TimeSync",
   "CamConfig", "CamState", "NetConfigResp",
   "ConfigAck", "ConfigNack", "ModeAck", "ModeSet", "RadarCal",
   "FlightResultV1", "FlightResult", "ClubResult", "SpinResult",
   "SpeedProfile", "PrcData", "ClubPrc"}

AllEnvelopes == [src: Buses, msg: Messages]

CommandNames ==
  {"StatusPoll", "DspQuery", "DevInfoReq", "ProdInfoReq", "ConfigQuery",
   "ParamReadReq", "CalDataReq", "CalParamReq", "AvrConfigQuery", "TimeSync",
   "CamConfigReq", "NetConfigReq", "Arm", "Commit", "ModeSet", "ParamValue",
   "RadarCal", "CamConfig", "CamState", "ShotDataAck", "ShotResultReq"}

\* AvrConfigCmd is "Arm" with arm = true and "Commit" with arm = false.
Commands == [cmd: CommandNames, dest: Buses]
Cmd(c, d) == [cmd |-> c, dest |-> d]

\* AvrSettings: how many parameters are written, whether radar_cal is given.
Settings == [params: Nat, cal: BOOLEAN]
NoSettings == [params |-> 0, cal |-> FALSE]

-----------------------------------------------------------------------------
(* Rows: one arm of a match in a feed().                                   *)

Row(srcs, msg, keep, to, send) ==
  [srcs |-> srcs, msg |-> msg, keep |-> keep, to |-> to, idx |-> 0, send |-> send]

\* A row of a step that counts: the value the counter has afterwards.
Counting(row, n) == [row EXCEPT !.idx = n]

\* The usual exchange: one awaited answer, then the next request to one bus.
Ask(bus, msg, keep, to, cmd) == Row({bus}, msg, keep, to, <<Cmd(cmd, bus)>>)

DspScript ==
  [ WaitStatus |->
      { Ask("Dsp", "DspStatus", {"status"}, "WaitDspQuery", "DspQuery"),
        Ask("Dsp", "DspStatus6", {"status", "state6"}, "WaitDspQuery", "DspQuery") },
    WaitDspQuery  |-> {Ask("Dsp", "DspQueryResp", {"hw_info"}, "WaitDevInfo", "DevInfoReq")},
    WaitDevInfo   |-> {Ask("Dsp", "DevInfoResp", {"dev_info"}, "WaitProdInfo0", "ProdInfoReq")},
    WaitProdInfo0 |-> {Ask("Dsp", "ProdInfoResp", {"prod_info0"}, "WaitProdInfo1", "ProdInfoReq")},
    WaitProdInfo1 |-> {Ask("Dsp", "ProdInfoResp", {"prod_info1"}, "WaitProdInfo2", "ProdInfoReq")},
    WaitProdInfo2 |-> {Ask("Dsp", "ProdInfoResp", {"prod_info2"}, "WaitConfig", "ConfigQuery")},
    WaitConfig    |-> {Row({"Dsp"}, "ConfigResp", {"config"}, "Done", <<>>)} ]

AvrScript ==
  [ WaitStatus1    |-> {Ask("Avr", "AvrStatus", {"status"}, "WaitStatus2", "StatusPoll")},
    WaitStatus2    |-> {Ask("Avr", "AvrStatus", {"status"}, "WaitDevInfo1", "DevInfoReq")},
    WaitDevInfo1   |-> {Ask("Avr", "DevInfoResp", {"dev_info"}, "WaitDevInfo2", "DevInfoReq")},
    WaitDevInfo2   |-> {Ask("Avr", "DevInfoResp", {"dev_info"}, "WaitParam0C", "ParamReadReq")},
    WaitParam0C    |-> {Ask("Avr", "ParamValue", {}, "WaitParam0D", "ParamReadReq")},
    WaitParam0D    |-> {Ask("Avr", "ParamValue", {}, "WaitConfig", "ConfigQuery")},
    WaitConfig     |-> {Ask("Avr", "ConfigResp", {"config"}, "WaitFactoryCal", "CalDataReq")},
    WaitFactoryCal |-> {Ask("Avr", "CalDataResp", {"factory_cal"}, "WaitIfCal", "CalParamReq")},
    WaitIfCal      |-> {Ask("Avr", "CalParamResp", {"if_cal"}, "WaitAvrConfig", "AvrConfigQuery")},
    WaitAvrConfig  |-> {Ask("Avr", "AvrConfigResp", {"avr_config"}, "WaitParam64", "ParamReadReq")},
    WaitParam64    |-> {Ask("Avr", "ParamValue", {}, "WaitTimeSync", "TimeSync")},
    WaitTimeSync   |-> {Row({"Avr"}, "TimeSync", {}, "Done", <<>>)} ]

\* The ids of the last batch of parameter reads of the PI sync.
PiParamIds == <<1, 7, 8, 9, 6, 11, 3, 4, 5>>

\* The answer to the read at idx: ask for the next id, or be done.
PiParamRow(idx) ==
  IF idx + 1 >= Len(PiParamIds)
  THEN Counting(Row({"Pi"}, "ParamValue", {}, "Done", <<>>), idx + 1)
  ELSE Counting(Ask("Pi", "ParamValue", {}, "WaitParams", "ParamReadReq"), idx + 1)

PiScript(s) ==
  [ WaitStatus      |-> {Ask("Pi", "PiStatus", {}, "WaitDevInfo", "DevInfoReq")},
    WaitDevInfo     |-> {Ask("Pi", "DevInfoResp", {"dev_info"}, "WaitParam0A", "ParamReadReq")},
    WaitParam0A     |-> {Ask("Pi", "ParamValue", {}, "WaitCamConfig1", "CamConfigReq")},
    WaitCamConfig1  |-> {Ask("Pi", "CamConfig", {}, "WaitCamConfig2", "CamConfigReq")},
    WaitCamConfig2  |-> {Ask("Pi", "CamConfig", {"cam_config"}, "WaitNetConfig", "NetConfigReq")},
    WaitNetConfig   |-> {Ask("Pi", "NetConfigResp", {}, "WaitNetConfigPw", "NetConfigReq")},
    WaitNetConfigPw |-> {Ask("Pi", "NetConfigResp", {}, "WaitParams", "ParamReadReq")},
    WaitParams      |-> {PiParamRow(s.idx)} ]

\* AvrConfigSequencer: write the parameter at n if there is one, else the mode.
ParamOrMode(s, n) ==
  IF n < s.cfg.params
  THEN Counting(Ask("Avr", "ConfigAck", {}, "WaitParamAck", "ParamValue"), n)
  ELSE Ask("Avr", "ConfigAck", {}, "WaitModeEcho", "ModeSet")

AvrConfigScript(s) ==
  [ WaitInitGateAck      |-> {ParamOrMode(s, 0)},
    WaitParamAck         |-> {Counting(Ask("Avr", "ConfigAck", {}, "WaitParamCommitAck", "Commit"), s.idx)},
    WaitParamCommitAck   |-> {ParamOrMode(s, s.idx + 1)},
    WaitModeEcho         |-> {Ask("Avr", "ModeSet", {}, "WaitModeCommitAck", "Commit")},
    WaitModeCommitAck    |-> {IF s.cfg.cal
                              THEN Ask("Avr", "ConfigAck", {}, "WaitRadarCalEcho", "RadarCal")
                              ELSE Row({"Avr"}, "ConfigAck", {}, "Done", <<>>)},
    WaitRadarCalEcho     |-> {Ask("Avr", "RadarCal", {}, "WaitRadarCalCommitAck", "Commit")},
    WaitRadarCalCommitAck |-> {Row({"Avr"}, "ConfigAck", {}, "Done", <<>>)} ]

CameraScript ==
  [ WaitConfigAck   |-> {Ask("Pi", "ConfigAck", {}, "WaitReadback", "CamConfigReq")},
    WaitReadback    |-> {Ask("Pi", "CamConfig", {}, "WaitCamStateAck", "CamState")},
    WaitCamStateAck |-> {Ask("Pi", "ConfigAck", {}, "WaitParamAck", "ParamValue")},
    WaitParamAck    |-> {Row({"Pi"}, "ConfigAck", {}, "Done", <<>>)} ]

DisarmScript ==
  [ WaitAck       |-> {Row({"Avr"}, "ConfigAck", {}, "WaitModeReset", <<>>)},
    WaitModeReset |-> {Row(Buses, "ModeAck", {}, "WaitStateIdle", <<>>),
                       Row(Buses, "ARMED CANCELLED", {}, "WaitStateIdle", <<>>)},
    WaitStateIdle |-> {Row(Buses, "System State", {}, "Done", <<>>),
                       Row(Buses, "ModeAck", {}, "Done", <<>>)} ]

\* idx counts the retries: ConfigNack starts the sequence over.
ArmRetries(n) == IF n < MaxRetries THEN n + 1 ELSE n

\* The last step of arming collects PiStatus and "ARMED" in either order.
Collect(s, msg, flag) ==
  Row(Buses, msg, {flag},
      IF s.got \cup {flag} = {"got_pi", "got_armed"} THEN "Done" ELSE "WaitPiAndArmed", <<>>)

ArmScript(s) ==
  LET Here(row) == Counting(row, s.idx)
      PollAvr(m) == Here(Row({"Dsp"}, m, {}, "WaitAvrStatus", <<Cmd("StatusPoll", "Avr")>>))
  IN [ WaitDspStatus  |-> {PollAvr("DspStatus"), PollAvr("DspStatus6")},
       WaitAvrStatus  |-> {Here(Ask("Avr", "AvrStatus", {}, "WaitArmAck", "Arm"))},
       WaitArmAck     |->
         { Counting(Row({"Avr"}, "ConfigNack", {}, "WaitDspStatus", <<Cmd("StatusPoll", "Dsp")>>),
                    ArmRetries(s.idx)),
           Here(Row({"Avr"}, "ConfigAck", {}, "WaitPiAndArmed", <<Cmd("StatusPoll", "Pi")>>)) },
       WaitPiAndArmed |-> {Here(Collect(s, "PiStatus", "got_pi")),
                           Here(Collect(s, "ARMED", "got_armed"))} ]

\* The drain accepts shot data from any bus and stays until IDLE.
Drain(msg, field) == Row(Buses, msg, {field}, "Draining", <<>>)

ShotScript ==
  [ Draining |->
      { Row(Buses, "IDLE", {}, "WaitingForClubResult", <<Cmd("ShotResultReq", "Avr")>>),
        Drain("FlightResult", "flight"), Drain("ClubResult", "club"),
        Drain("SpinResult", "spin"), Drain("SpeedProfile", "speed_profile"),
        Drain("PrcData", "prc"), Drain("ClubPrc", "club_prc") },
    WaitingForClubResult |->
      {Row(Buses, "ClubResult", {}, "WaitingForArmAck", <<Cmd("Arm", "Avr")>>)},
    WaitingForArmAck |-> {Row({"Avr"}, "ConfigAck", {}, "WaitingForArmed", <<>>)},
    WaitingForArmed  |-> {Row(Buses, "ARMED", {}, "Done", <<>>)} ]

\* client.rs: collects the three statuses; it has no step enum.
KeepaliveScript ==
  [ Collecting |->
      { Row({"Dsp"}, "DspStatus", {"got_dsp"}, "Collecting", <<>>),
        Row({"Dsp"}, "DspStatus6", {"got_dsp"}, "Collecting", <<>>),
        Row({"Avr"}, "AvrStatus", {"got_avr"}, "Collecting", <<>>),
        Row({"Pi"}, "PiStatus", {"got_pi"}, "Collecting", <<>>) } ]

Script(s) ==
  CASE s.kind = "Dsp" -> DspScript
    [] s.kind = "Avr" -> AvrScript
    [] s.kind = "Pi" -> PiScript(s)
    [] s.kind = "AvrConfig" -> AvrConfigScript(s)
    [] s.kind = "Camera" -> CameraScript
    [] s.kind = "Disarm" -> DisarmScript
    [] s.kind = "Arm" -> ArmScript(s)
    [] s.kind = "Shot" -> ShotScript
    [] s.kind = "Keepalive" -> KeepaliveScript

-----------------------------------------------------------------------------
(* Sequencer values.                                                       *)

FirstStep ==
  [Dsp |-> "WaitStatus", Avr |-> "WaitStatus1", Pi |-> "WaitStatus",
   AvrConfig |-> "WaitInitGateAck", Camera |-> "WaitConfigAck",
   Disarm |-> "WaitAck", Arm |-> "WaitDspStatus", Shot |-> "Draining",
   Keepalive |-> "Collecting"]

Kinds == DOMAIN FirstStep
HandshakeKinds == {"Dsp", "Avr", "Pi"}

Steps ==
  {"WaitStatus", "WaitDspQuery", "WaitDevInfo", "WaitProdInfo0", "WaitProdInfo1",
   "WaitProdInfo2", "WaitConfig",
   "WaitStatus1", "WaitStatus2", "WaitDevInfo1", "WaitDevInfo2", "WaitParam0C",
   "WaitParam0D", "WaitFactoryCal", "WaitIfCal", "WaitAvrConfig", "WaitParam64",
   "WaitTimeSync",
   "WaitParam0A", "WaitCamConfig1", "WaitCamConfig2", "WaitNetConfig", "WaitNetConfigPw",
   "WaitParams",
   "WaitInitGateAck", "WaitParamAck", "WaitParamCommitAck", "WaitModeEcho",
   "WaitModeCommitAck", "WaitRadarCalEcho", "WaitRadarCalCommitAck",
   "WaitConfigAck", "WaitReadback", "WaitCamStateAck",
   "WaitAck", "WaitModeReset", "WaitStateIdle",
   "WaitDspStatus", "WaitAvrStatus", "WaitArmAck", "WaitPiAndArmed",
   "Draining", "WaitingForClubResult", "WaitingForArmAck", "WaitingForArmed",
   "Collecting", "Done"}

Fields ==
  {"status", "state6", "hw_info", "dev_info", "prod_info0", "prod_info1", "prod_info2",
   "config", "factory_cal", "if_cal", "avr_config", "cam_config",
   "flight", "club", "spin", "speed_profile", "prc", "club_prc",
   "got_dsp", "got_avr", "got_pi", "got_armed"}

Sequencer ==
  [kind: Kinds, step: Steps, idx: Nat, got: SUBSET Fields,
   timer: Nat \cup {Unset}, cfg: Settings]

\* The new() of each sequencer, and the commands it returns.
NewSeq(kind, cfg) ==
  [kind |-> kind, step |-> FirstStep[kind], idx |-> 0, got |-> {},
   timer |-> Unset, cfg |-> cfg]

PollAll == <<Cmd("StatusPoll", "Dsp"), Cmd("StatusPoll", "Avr"), Cmd("StatusPoll", "Pi")>>

InitialSends ==
  [Dsp |-> <<Cmd("StatusPoll", "Dsp")>>, Avr |-> <<Cmd("StatusPoll", "Avr")>>,
   Pi |-> <<Cmd("StatusPoll", "Pi")>>, AvrConfig |-> <<Cmd("Commit", "Avr")>>,
   Camera |-> <<Cmd("CamConfig", "Pi")>>, Disarm |-> <<Cmd("Commit", "Avr")>>,
   Arm |-> <<Cmd("StatusPoll", "Dsp")>>,
   Shot |-> <<Cmd("ShotDataAck", "Avr"), Cmd("ShotDataAck", "Avr")>>,
   Keepalive |-> PollAll]

\* is_complete()
IsComplete(s) ==
  \/ s.step = "Done"
  \/ s.kind = "Keepalive" /\ s.got = {"got_dsp", "got_avr", "got_pi"}

-----------------------------------------------------------------------------
(* feed(): the row that accepts the envelope, if any, is applied.          *)

Rows(s) ==
  LET script == Script(s)
  IN IF s.step \in DOMAIN script THEN script[s.step] ELSE {}

Accepting(s, e) == {r \in Rows(s) : e.src \in r.srcs /\ e.msg = r.msg}

\* cal_deadline is set on entry to a calibration step and cleared behind the
\* last one; drain_deadline is set by the first flight result of the drain.
TimerAfter(s, r) ==
  CASE s.kind = "Avr" /\ r.to \in {"WaitFactoryCal", "WaitIfCal"} -> CalTimeout
    [] s.kind = "Avr" /\ r.to = "WaitAvrConfig" -> Unset
    [] s.kind = "Shot" /\ r.msg = "FlightResult" /\ s.timer = Unset -> DrainTimeout
    [] OTHER -> s.timer

Apply(s, r) ==
  [s EXCEPT !.step = r.to, !.idx = r.idx, !.got = @ \cup r.keep, !.timer = TimerAfter(s, r)]

\* The sequencer after feed(), and the commands feed() returns.
Fed(s, e) ==
  LET rows == Accepting(s, e)
  IN IF rows = {} THEN s ELSE Apply(s, CHOOSE r \in rows : TRUE)

Replies(s, e) ==
  LET rows == Accepting(s, e)
  IN IF rows = {} THEN <<>> ELSE (CHOOSE r \in rows : TRUE).send

\* take_pending(): the shot datum an envelope leaves for the caller.
\* Faulty variant: the spin of a shot is kept for its result only.
YieldsDatumUnlessSpin(s, e) ==
  /\ s.kind = "Shot" /\ s.step = "Draining"
  /\ e.msg \in {"FlightResult", "ClubResult"}
YieldsDatum(s, e) ==
  /\ s.kind = "Shot" /\ s.step = "Draining"
  /\ e.msg \in {"FlightResult", "ClubResult", "SpinResult"}

-----------------------------------------------------------------------------
(* The sequencers' own deadlines: check_cal_timeout, check_drain_timeout.  *)

TimerDue(s) ==
  /\ s.timer = 0
  /\ \/ s.kind = "Avr" /\ s.step \in {"WaitFactoryCal", "WaitIfCal"}
     \/ s.kind = "Shot" /\ s.step = "Draining"

\* Faulty variants: giving up the last calibration answer skips the AVR
\* config; giving up IDLE leads where IDLE leads.
GiveUpSkipsConfig ==
  [WaitFactoryCal |-> [to |-> "WaitIfCal", timer |-> CalTimeout, cmd |-> "CalParamReq"],
   WaitIfCal |-> [to |-> "WaitParam64", timer |-> Unset, cmd |-> "ParamReadReq"],
   Draining |-> [to |-> "WaitingForArmAck", timer |-> 0, cmd |-> "Arm"]]
GiveUpAwaitsResult ==
  [WaitFactoryCal |-> [to |-> "WaitIfCal", timer |-> CalTimeout, cmd |-> "CalParamReq"],
   WaitIfCal |-> [to |-> "WaitAvrConfig", timer |-> Unset, cmd |-> "AvrConfigQuery"],
   Draining |-> [to |-> "WaitingForClubResult", timer |-> 0, cmd |-> "Arm"]]

\* What is done instead of waiting on: the next step, its timer, its request.
GiveUp ==
  [WaitFactoryCal |-> [to |-> "WaitIfCal", timer |-> CalTimeout, cmd |-> "CalParamReq"],
   WaitIfCal |-> [to |-> "WaitAvrConfig", timer |-> Unset, cmd |-> "AvrConfigQuery"],
   Draining |-> [to |-> "WaitingForArmAck", timer |-> 0, cmd |-> "Arm"]]

\* Faulty variant: the request is sent, the step stays.
TimedOutInPlace(s) == [s EXCEPT !.timer = GiveUp[s.step].timer]
TimedOut(s) == [s EXCEPT !.step = GiveUp[s.step].to, !.timer = GiveUp[s.step].timer]
TimeoutSends(s) == <<Cmd(GiveUp[s.step].cmd, "Avr")>>

\* A tick of the clock on a deadline.
Ticked(t) == IF t > 0 THEN t - 1 ELSE t

-----------------------------------------------------------------------------
(* into_result(): the fields it unwraps.  A missing one is a panic.        *)

Unwrapped ==
  [Dsp |-> {"status", "hw_info", "dev_info", "prod_info0", "prod_info1", "prod_info2", "config"},
   Avr |-> {"status", "dev_info", "config", "avr_config"},
   Pi |-> {"dev_info", "cam_config"}]

=============================================================================
