-------------------------- MODULE SequencersProofs --------------------------
(***************************************************************************)
(* Lemmas about the sequencers of Sequencers.tla.                          *)
(***************************************************************************)
EXTENDS Sequencers, TLAPS

RowType ==
  [srcs: SUBSET Buses, msg: Messages, keep: SUBSET Fields, to: Steps, idx: Nat,
   send: Seq(Commands)]

LEMMA CmdTyped ==
  ASSUME NEW c \in CommandNames, NEW d \in Buses
  PROVE  /\ Cmd(c, d) \in Commands
         /\ <<Cmd(c, d)>> \in Seq(Commands)
  BY DEF Cmd, Commands

LEMMA RowTyped ==
  ASSUME NEW srcs \in SUBSET Buses, NEW msg \in Messages, NEW keep \in SUBSET Fields,
         NEW to \in Steps, NEW send \in Seq(Commands)
  PROVE  Row(srcs, msg, keep, to, send) \in RowType
  BY DEF Row, RowType

\* A row that sends nothing.
LEMMA QuietTyped ==
  ASSUME NEW srcs \in SUBSET Buses, NEW msg \in Messages, NEW keep \in SUBSET Fields,
         NEW to \in Steps
  PROVE  Row(srcs, msg, keep, to, <<>>) \in RowType
  <1>1. <<>> \in Seq(Commands) OBVIOUS
  <1> QED BY <1>1, RowTyped

LEMMA AskTyped ==
  ASSUME NEW bus \in Buses, NEW msg \in Messages, NEW keep \in SUBSET Fields,
         NEW to \in Steps, NEW cmd \in CommandNames
  PROVE  Ask(bus, msg, keep, to, cmd) \in RowType
  BY CmdTyped, RowTyped DEF Ask

LEMMA CountingTyped ==
  ASSUME NEW row \in RowType, NEW n \in Nat
  PROVE  Counting(row, n) \in RowType
  BY DEF Counting, RowType

LEMMA BusNames ==
  "Pi" \in Buses /\ "Avr" \in Buses /\ "Dsp" \in Buses /\ Buses \in SUBSET Buses
  BY DEF Buses

-----------------------------------------------------------------------------
(* The rows of each script are well typed: a feed() only ever goes to a    *)
(* step of the step enums and sends known commands to buses.  Under each   *)
(* script the words it uses are looked up first, so that the sets of all   *)
(* words stay folded in the proof about the rows.                          *)

LEMMA DspWords ==
  /\ {"DspStatus", "DspStatus6", "DspQueryResp", "DevInfoResp", "ProdInfoResp",
      "ConfigResp"} \subseteq Messages
  /\ {"status", "state6", "hw_info", "dev_info", "prod_info0", "prod_info1",
      "prod_info2", "config"} \subseteq Fields
  /\ {"WaitDspQuery", "WaitDevInfo", "WaitProdInfo0", "WaitProdInfo1", "WaitProdInfo2",
      "WaitConfig", "Done"} \subseteq Steps
  /\ {"DspQuery", "DevInfoReq", "ProdInfoReq", "ConfigQuery"} \subseteq CommandNames
  BY DEF Messages, Noise, Texts, ShotTexts, Fields, Steps, CommandNames

LEMMA DspRows ==
  ASSUME NEW t \in DOMAIN DspScript
  PROVE  DspScript[t] \subseteq RowType
  BY DspWords, BusNames, AskTyped, QuietTyped DEF DspScript

LEMMA AvrWords ==
  /\ {"AvrStatus", "DevInfoResp", "ParamValue", "ConfigResp", "CalDataResp",
      "CalParamResp", "AvrConfigResp", "TimeSync"} \subseteq Messages
  /\ {"status", "dev_info", "config", "factory_cal", "if_cal", "avr_config"} \subseteq Fields
  /\ {"WaitStatus2", "WaitDevInfo1", "WaitDevInfo2", "WaitParam0C", "WaitParam0D",
      "WaitConfig", "WaitFactoryCal", "WaitIfCal", "WaitAvrConfig", "WaitParam64",
      "WaitTimeSync", "Done"} \subseteq Steps
  /\ {"StatusPoll", "DevInfoReq", "ParamReadReq", "ParamValue", "ConfigQuery",
      "CalDataReq", "CalParamReq", "AvrConfigQuery", "TimeSync"} \subseteq CommandNames
  BY DEF Messages, Noise, Texts, ShotTexts, Fields, Steps, CommandNames

LEMMA AvrRows ==
  ASSUME NEW t \in DOMAIN AvrScript
  PROVE  AvrScript[t] \subseteq RowType
  BY AvrWords, BusNames, AskTyped, QuietTyped DEF AvrScript

LEMMA PiWords ==
  /\ {"PiStatus", "DevInfoResp", "ParamValue", "CamConfig", "NetConfigResp"} \subseteq Messages
  /\ {"dev_info", "cam_config"} \subseteq Fields
  /\ {"WaitDevInfo", "WaitParam0A", "WaitCamConfig1", "WaitCamConfig2",
      "WaitNetConfig", "WaitNetConfigPw", "WaitParams", "Done"} \subseteq Steps
  /\ {"DevInfoReq", "ParamReadReq", "ParamValue", "CamConfigReq", "CamConfig",
      "NetConfigReq"} \subseteq CommandNames
  BY DEF Messages, Noise, Texts, ShotTexts, Fields, Steps, CommandNames

LEMMA PiRows ==
  ASSUME NEW s \in Sequencer, NEW t \in DOMAIN PiScript(s)
  PROVE  PiScript(s)[t] \subseteq RowType
  <1>1. s.idx \in Nat BY DEF Sequencer
  <1>2. PiParamRow(s.idx) \in RowType
    <2>1. /\ Row({"Pi"}, "ParamValue", {}, "Done", <<>>) \in RowType
          /\ Ask("Pi", "ParamValue", {}, "WaitParams", "ParamReadReq") \in RowType
      BY PiWords, BusNames, AskTyped, QuietTyped
    <2>2. s.idx + 1 \in Nat BY <1>1
    <2> QED BY <2>1, <2>2, CountingTyped DEF PiParamRow
  <1> QED BY <1>2, PiWords, BusNames, AskTyped DEF PiScript

LEMMA AvrConfigWords ==
  /\ {"ConfigAck", "ModeSet", "RadarCal", "ParamValue"} \subseteq Messages
  /\ {"WaitParamCommitAck", "WaitModeCommitAck", "WaitRadarCalEcho", "Done",
      "WaitRadarCalCommitAck", "WaitParamAck", "WaitModeEcho"} \subseteq Steps
  /\ {"Commit", "ModeSet", "RadarCal", "ParamValue"} \subseteq CommandNames
  BY DEF Messages, Noise, Texts, ShotTexts, Fields, Steps, CommandNames

LEMMA AvrConfigRows ==
  ASSUME NEW s \in Sequencer, NEW t \in DOMAIN AvrConfigScript(s)
  PROVE  AvrConfigScript(s)[t] \subseteq RowType
  <1>1. s.idx \in Nat BY DEF Sequencer
  <1>2. ASSUME NEW n \in Nat PROVE ParamOrMode(s, n) \in RowType
    BY AvrConfigWords, BusNames, AskTyped, CountingTyped DEF ParamOrMode
  <1>3. Counting(Ask("Avr", "ConfigAck", {}, "WaitParamCommitAck", "Commit"), s.idx) \in RowType
    BY <1>1, AvrConfigWords, BusNames, AskTyped, CountingTyped
  <1> QED BY <1>1, <1>2, <1>3, AvrConfigWords, BusNames, AskTyped, QuietTyped DEF AvrConfigScript

LEMMA CameraWords ==
  /\ {"ConfigAck", "CamConfig", "CamState", "ParamValue"} \subseteq Messages
  /\ {"WaitReadback", "WaitCamStateAck", "WaitParamAck", "Done"} \subseteq Steps
  /\ {"CamConfigReq", "CamConfig", "CamState", "ParamValue"} \subseteq CommandNames
  BY DEF Messages, Noise, Texts, ShotTexts, Fields, Steps, CommandNames

LEMMA CameraRows ==
  ASSUME NEW t \in DOMAIN CameraScript
  PROVE  CameraScript[t] \subseteq RowType
  BY CameraWords, BusNames, AskTyped, QuietTyped DEF CameraScript

LEMMA DisarmWords ==
  /\ {"ConfigAck", "ModeAck", "ARMED CANCELLED", "System State"} \subseteq Messages
  /\ {"WaitModeReset", "WaitStateIdle", "Done"} \subseteq Steps
  BY DEF Messages, Noise, Texts, ShotTexts, Fields, Steps, CommandNames

LEMMA DisarmRows ==
  ASSUME NEW t \in DOMAIN DisarmScript
  PROVE  DisarmScript[t] \subseteq RowType
  <1>1. Row({"Avr"}, "ConfigAck", {}, "WaitModeReset", <<>>) \in RowType
    BY DisarmWords, BusNames, QuietTyped
  <1>2. /\ Row(Buses, "ModeAck", {}, "WaitStateIdle", <<>>) \in RowType
        /\ Row(Buses, "ARMED CANCELLED", {}, "WaitStateIdle", <<>>) \in RowType
        /\ Row(Buses, "System State", {}, "Done", <<>>) \in RowType
        /\ Row(Buses, "ModeAck", {}, "Done", <<>>) \in RowType
    BY DisarmWords, BusNames, QuietTyped
  <1>3. CASE t = "WaitAck" BY <1>1, <1>3 DEF DisarmScript
  <1>4. CASE t = "WaitModeReset" BY <1>2, <1>4 DEF DisarmScript
  <1>5. CASE t = "WaitStateIdle" BY <1>2, <1>5 DEF DisarmScript
  <1> QED BY <1>3, <1>4, <1>5 DEF DisarmScript

LEMMA ArmWords ==
  /\ {"DspStatus", "DspStatus6", "AvrStatus", "ConfigNack", "ConfigAck", "PiStatus",
      "ARMED"} \subseteq Messages
  /\ {"got_pi", "got_armed"} \subseteq Fields
  /\ {"WaitAvrStatus", "WaitArmAck", "WaitDspStatus", "WaitPiAndArmed", "Done"} \subseteq Steps
  /\ {"StatusPoll", "Arm"} \subseteq CommandNames
  BY DEF Messages, Noise, Texts, ShotTexts, Fields, Steps, CommandNames

LEMMA ArmRows ==
  ASSUME NEW s \in Sequencer, NEW t \in DOMAIN ArmScript(s)
  PROVE  ArmScript(s)[t] \subseteq RowType
  <1>1. s.idx \in Nat /\ ArmRetries(s.idx) \in Nat
    BY TimeoutAssumption DEF Sequencer, ArmRetries
  <1>2. /\ Collect(s, "PiStatus", "got_pi") \in RowType
        /\ Collect(s, "ARMED", "got_armed") \in RowType
    BY ArmWords, QuietTyped DEF Collect
  <1>3. ASSUME NEW bus \in Buses
        PROVE  <<Cmd("StatusPoll", bus)>> \in Seq(Commands)
    BY ArmWords, CmdTyped
  <1>4. /\ Row({"Dsp"}, "DspStatus", {}, "WaitAvrStatus", <<Cmd("StatusPoll", "Avr")>>) \in RowType
        /\ Row({"Dsp"}, "DspStatus6", {}, "WaitAvrStatus", <<Cmd("StatusPoll", "Avr")>>) \in RowType
        /\ Row({"Avr"}, "ConfigNack", {}, "WaitDspStatus", <<Cmd("StatusPoll", "Dsp")>>) \in RowType
        /\ Row({"Avr"}, "ConfigAck", {}, "WaitPiAndArmed", <<Cmd("StatusPoll", "Pi")>>) \in RowType
    BY <1>3, ArmWords, BusNames, RowTyped
  <1>5. Ask("Avr", "AvrStatus", {}, "WaitArmAck", "Arm") \in RowType
    BY ArmWords, BusNames, AskTyped
  <1> QED BY <1>1, <1>2, <1>4, <1>5, CountingTyped DEF ArmScript

LEMMA ShotWords ==
  /\ {"IDLE", "FlightResult", "ClubResult", "SpinResult", "SpeedProfile", "PrcData",
      "ClubPrc", "ConfigAck", "ARMED"} \subseteq Messages
  /\ {"flight", "club", "spin", "speed_profile", "prc", "club_prc"} \subseteq Fields
  /\ {"Draining", "WaitingForClubResult", "WaitingForArmAck", "WaitingForArmed", "Done"} \subseteq Steps
  /\ {"ShotResultReq", "Arm"} \subseteq CommandNames
  BY DEF Messages, Noise, Texts, ShotTexts, Fields, Steps, CommandNames

LEMMA ShotRows ==
  ASSUME NEW t \in DOMAIN ShotScript
  PROVE  ShotScript[t] \subseteq RowType
  <1>1. /\ <<Cmd("ShotResultReq", "Avr")>> \in Seq(Commands)
        /\ <<Cmd("Arm", "Avr")>> \in Seq(Commands)
    BY ShotWords, BusNames, CmdTyped
  <1>2. /\ Row(Buses, "IDLE", {}, "WaitingForClubResult", <<Cmd("ShotResultReq", "Avr")>>) \in RowType
        /\ Row(Buses, "ClubResult", {}, "WaitingForArmAck", <<Cmd("Arm", "Avr")>>) \in RowType
    BY <1>1, ShotWords, BusNames, RowTyped
  <1>3. /\ Row({"Avr"}, "ConfigAck", {}, "WaitingForArmed", <<>>) \in RowType
        /\ Row(Buses, "ARMED", {}, "Done", <<>>) \in RowType
    BY ShotWords, BusNames, QuietTyped
  <1>4. /\ Drain("FlightResult", "flight") \in RowType
        /\ Drain("ClubResult", "club") \in RowType
        /\ Drain("SpinResult", "spin") \in RowType
        /\ Drain("SpeedProfile", "speed_profile") \in RowType
        /\ Drain("PrcData", "prc") \in RowType
        /\ Drain("ClubPrc", "club_prc") \in RowType
    BY ShotWords, BusNames, QuietTyped DEF Drain
  <1> QED BY <1>2, <1>3, <1>4 DEF ShotScript

LEMMA KeepaliveWords ==
  /\ {"DspStatus", "DspStatus6", "AvrStatus", "PiStatus"} \subseteq Messages
  /\ {"got_dsp", "got_avr", "got_pi"} \subseteq Fields
  /\ {"Collecting"} \subseteq Steps
  BY DEF Messages, Noise, Texts, ShotTexts, Fields, Steps, CommandNames

LEMMA KeepaliveRows ==
  ASSUME NEW t \in DOMAIN KeepaliveScript
  PROVE  KeepaliveScript[t] \subseteq RowType
  BY KeepaliveWords, BusNames, QuietTyped DEF KeepaliveScript

LEMMA RowsTyped ==
  ASSUME NEW s \in Sequencer
  PROVE  Rows(s) \subseteq RowType
  <1>1. s.kind \in {"Dsp", "Avr", "Pi", "AvrConfig", "Camera", "Disarm", "Arm", "Shot", "Keepalive"}
    BY DEF Sequencer, Kinds, FirstStep
  <1> QED BY <1>1, DspRows, AvrRows, PiRows, AvrConfigRows, CameraRows, DisarmRows, ArmRows,
             ShotRows, KeepaliveRows DEF Rows, Script
-----------------------------------------------------------------------------
(* What the client needs to know of a sequencer: new, fed or timed out it  *)
(* is a sequencer of the same kind, and what it sends are commands.        *)

LEMMA NewSeqTyped ==
  ASSUME NEW kind \in Kinds, NEW cfg \in Settings
  PROVE  /\ NewSeq(kind, cfg) \in Sequencer
         /\ NewSeq(kind, cfg).kind = kind
  <1>1. FirstStep[kind] \in Steps
    BY DEF Kinds, FirstStep, Steps
  <1> QED BY <1>1 DEF NewSeq, Sequencer, Unset

LEMMA InitialSendsTyped ==
  ASSUME NEW kind \in Kinds
  PROVE  /\ InitialSends[kind] \in Seq(Commands)
         /\ InitialSends[kind] # <<>>
  <1>1. \A c \in {"StatusPoll", "Commit", "CamConfig", "ShotDataAck"}, d \in {"Dsp", "Avr", "Pi"} :
          Cmd(c, d) \in Commands
    BY CmdTyped, BusNames DEF CommandNames
  <1>2. PollAll \in Seq(Commands) /\ PollAll # <<>>
    BY <1>1 DEF PollAll
  <1>3. \A c \in {"StatusPoll", "Commit", "CamConfig", "ShotDataAck"}, d \in {"Dsp", "Avr", "Pi"} :
          <<Cmd(c, d)>> \in Seq(Commands) /\ <<Cmd(c, d)>> # <<>>
    BY <1>1
  <1>4. /\ <<Cmd("ShotDataAck", "Avr"), Cmd("ShotDataAck", "Avr")>> \in Seq(Commands)
        /\ <<Cmd("ShotDataAck", "Avr"), Cmd("ShotDataAck", "Avr")>> # <<>>
    BY <1>1
  <1>5. kind \in {"Dsp", "Avr", "Pi", "AvrConfig", "Camera", "Disarm", "Arm", "Shot", "Keepalive"}
    BY DEF Kinds, FirstStep
  <1>6. CASE kind = "Shot" BY <1>4, <1>6 DEF InitialSends
  <1>7. CASE kind = "Keepalive" BY <1>2, <1>7 DEF InitialSends
  <1>8. \A k \in {"Dsp", "Avr", "Pi", "AvrConfig", "Camera", "Disarm", "Arm"} :
          \E c \in {"StatusPoll", "Commit", "CamConfig", "ShotDataAck"}, d \in {"Dsp", "Avr", "Pi"} :
            InitialSends[k] = <<Cmd(c, d)>>
    BY DEF InitialSends
  <1>9. CASE kind \notin {"Shot", "Keepalive"}
    <2>1. PICK c \in {"StatusPoll", "Commit", "CamConfig", "ShotDataAck"}, d \in {"Dsp", "Avr", "Pi"} :
            InitialSends[kind] = <<Cmd(c, d)>>
      BY <1>5, <1>8, <1>9
    <2> QED BY <1>3, <2>1
  <1> QED BY <1>6, <1>7, <1>9

LEMMA TimerAfterTyped ==
  ASSUME NEW s \in Sequencer, NEW r \in RowType
  PROVE  TimerAfter(s, r) \in Nat \cup {Unset}
  BY TimeoutAssumption DEF TimerAfter, Sequencer

LEMMA ApplyTyped ==
  ASSUME NEW s \in Sequencer, NEW r \in RowType
  PROVE  Apply(s, r) \in Sequencer /\ Apply(s, r).kind = s.kind
  BY TimerAfterTyped DEF Apply, Sequencer, RowType

LEMMA FedTyped ==
  ASSUME NEW s \in Sequencer, NEW e
  PROVE  /\ Fed(s, e) \in Sequencer
         /\ Fed(s, e).kind = s.kind
         /\ Replies(s, e) \in Seq(Commands)
  <1>1. CASE Accepting(s, e) = {}
    BY <1>1 DEF Fed, Replies
  <1>2. CASE Accepting(s, e) # {}
    <2> DEFINE r == CHOOSE r \in Accepting(s, e) : TRUE
    <2>1. r \in Accepting(s, e) BY <1>2
    <2>2. r \in RowType BY <2>1, RowsTyped DEF Accepting
    <2>3. Fed(s, e) = Apply(s, r) /\ Replies(s, e) = r.send BY <1>2 DEF Fed, Replies
    <2> HIDE DEF r
    <2> QED BY <2>2, <2>3, ApplyTyped DEF RowType
  <1> QED BY <1>1, <1>2

LEMMA TimedOutTyped ==
  ASSUME NEW s \in Sequencer, TimerDue(s)
  PROVE  /\ TimedOut(s) \in Sequencer
         /\ TimedOut(s).kind = s.kind
         /\ TimeoutSends(s) \in Seq(Commands)
  <1>1. s.step \in {"WaitFactoryCal", "WaitIfCal", "Draining"}
    BY DEF TimerDue
  <1>2. /\ GiveUp[s.step].to \in Steps
        /\ GiveUp[s.step].timer \in Nat \cup {Unset}
        /\ GiveUp[s.step].cmd \in {"CalParamReq", "AvrConfigQuery", "Arm"}
    BY <1>1, TimeoutAssumption DEF GiveUp, Steps
  <1>3. {"CalParamReq", "AvrConfigQuery", "Arm"} \subseteq CommandNames
    BY DEF CommandNames
  <1>4. TimeoutSends(s) \in Seq(Commands)
    BY <1>2, <1>3, CmdTyped, BusNames DEF TimeoutSends
  <1> QED BY <1>2, <1>4 DEF TimedOut, Sequencer

LEMMA TickedTyped ==
  ASSUME NEW t \in Nat \cup {Unset}
  PROVE  /\ Ticked(t) \in Nat \cup {Unset}
         /\ Ticked(t) = Unset <=> t = Unset
  BY DEF Ticked, Unset

-----------------------------------------------------------------------------
(* What a handshake sequencer has when it is at a step.  into_result()     *)
(* unwraps fields that earlier steps filled: every step that is left, by   *)
(* an answer or because a calibration answer was given up, has filled what *)
(* the next step counts on.                                                *)

DspNeeds ==
  [ WaitStatus    |-> {},
    WaitDspQuery  |-> {"status"},
    WaitDevInfo   |-> {"status", "hw_info"},
    WaitProdInfo0 |-> {"status", "hw_info", "dev_info"},
    WaitProdInfo1 |-> {"status", "hw_info", "dev_info", "prod_info0"},
    WaitProdInfo2 |-> {"status", "hw_info", "dev_info", "prod_info0", "prod_info1"},
    WaitConfig    |-> {"status", "hw_info", "dev_info", "prod_info0", "prod_info1", "prod_info2"},
    Done          |-> Unwrapped.Dsp ]

AvrNeeds ==
  [ WaitStatus1    |-> {},
    WaitStatus2    |-> {"status"},
    WaitDevInfo1   |-> {"status"},
    WaitDevInfo2   |-> {"status", "dev_info"},
    WaitParam0C    |-> {"status", "dev_info"},
    WaitParam0D    |-> {"status", "dev_info"},
    WaitConfig     |-> {"status", "dev_info"},
    WaitFactoryCal |-> {"status", "dev_info", "config"},
    WaitIfCal      |-> {"status", "dev_info", "config"},
    WaitAvrConfig  |-> {"status", "dev_info", "config"},
    WaitParam64    |-> Unwrapped.Avr,
    WaitTimeSync   |-> Unwrapped.Avr,
    Done           |-> Unwrapped.Avr ]

PiNeeds ==
  [ WaitStatus      |-> {},
    WaitDevInfo     |-> {},
    WaitParam0A     |-> {"dev_info"},
    WaitCamConfig1  |-> {"dev_info"},
    WaitCamConfig2  |-> {"dev_info"},
    WaitNetConfig   |-> Unwrapped.Pi,
    WaitNetConfigPw |-> Unwrapped.Pi,
    WaitParams      |-> Unwrapped.Pi,
    Done            |-> Unwrapped.Pi ]

Needs == [Dsp |-> DspNeeds, Avr |-> AvrNeeds, Pi |-> PiNeeds]

Supplied(s) ==
  s.kind \in DOMAIN Needs =>
    /\ s.step \in DOMAIN Needs[s.kind]
    /\ Needs[s.kind][s.step] \subseteq s.got

\* A row is sound for needs at step t when it adds what its next step lacks.
Supplies(needs, t, r) ==
  r.to \in DOMAIN needs /\ needs[r.to] \subseteq needs[t] \cup r.keep

LEMMA DspSupplies ==
  ASSUME NEW t \in DOMAIN DspScript, NEW r \in DspScript[t]
  PROVE  Supplies(DspNeeds, t, r)
  BY DEF DspScript, DspNeeds, Supplies, Ask, Row, Unwrapped

LEMMA AvrSupplies ==
  ASSUME NEW t \in DOMAIN AvrScript, NEW r \in AvrScript[t]
  PROVE  Supplies(AvrNeeds, t, r)
  BY DEF AvrScript, AvrNeeds, Supplies, Ask, Row, Unwrapped

LEMMA PiSupplies ==
  ASSUME NEW s, NEW t \in DOMAIN PiScript(s), NEW r \in PiScript(s)[t]
  PROVE  Supplies(PiNeeds, t, r)
  BY DEF PiScript, PiNeeds, Supplies, Ask, Row, Unwrapped, PiParamRow, Counting

LEMMA RowsSupply ==
  ASSUME NEW s \in Sequencer, s.kind \in DOMAIN Needs, NEW r \in Rows(s)
  PROVE  Supplies(Needs[s.kind], s.step, r)
  <1>1. s.kind \in {"Dsp", "Avr", "Pi"} BY DEF Needs
  <1> QED BY <1>1, DspSupplies, AvrSupplies, PiSupplies DEF Needs, Rows, Script

LEMMA NewSeqSupplied ==
  ASSUME NEW kind \in Kinds, NEW cfg
  PROVE  Supplied(NewSeq(kind, cfg))
  BY DEF Supplied, NewSeq, Needs, DspNeeds, AvrNeeds, PiNeeds, FirstStep

LEMMA FedSupplied ==
  ASSUME NEW s \in Sequencer, Supplied(s), NEW e
  PROVE  Supplied(Fed(s, e))
  <1>1. CASE Accepting(s, e) = {}
    BY <1>1 DEF Fed
  <1>2. CASE Accepting(s, e) # {}
    <2> DEFINE r == CHOOSE r \in Accepting(s, e) : TRUE
    <2>1. r \in Rows(s) BY <1>2 DEF Accepting
    <2>2. Fed(s, e) = Apply(s, r) BY <1>2 DEF Fed
    <2> HIDE DEF r
    <2>3. /\ Apply(s, r).kind = s.kind /\ Apply(s, r).step = r.to
          /\ Apply(s, r).got = s.got \cup r.keep
      BY DEF Apply, Sequencer
    <2>4. ASSUME s.kind \in DOMAIN Needs PROVE Supplies(Needs[s.kind], s.step, r)
      BY <2>1, <2>4, RowsSupply
    <2> QED BY <2>2, <2>3, <2>4 DEF Supplied, Supplies
  <1> QED BY <1>1, <1>2

LEMMA TimedOutSupplied ==
  ASSUME NEW s \in Sequencer, TimerDue(s), Supplied(s)
  PROVE  Supplied(TimedOut(s))
  <1>1. /\ TimedOut(s).kind = s.kind /\ TimedOut(s).got = s.got
        /\ TimedOut(s).step = GiveUp[s.step].to
    BY DEF TimedOut, Sequencer
  <1>2. CASE s.kind = "Shot"
    BY <1>1, <1>2 DEF Supplied, Needs
  <1>3. CASE s.kind = "Avr"
    <2>1. s.step \in {"WaitFactoryCal", "WaitIfCal"}
      BY <1>3 DEF TimerDue
    <2>2. /\ GiveUp[s.step].to \in DOMAIN AvrNeeds
          /\ AvrNeeds[GiveUp[s.step].to] \subseteq AvrNeeds[s.step]
      BY <2>1 DEF GiveUp, AvrNeeds
    <2> QED BY <1>1, <1>3, <2>2 DEF Supplied, Needs
  <1> QED BY <1>2, <1>3 DEF TimerDue

\* Completion finds every field that into_result() unwraps.
LEMMA CompleteSupplied ==
  ASSUME NEW s, s.kind \in DOMAIN Unwrapped, Supplied(s), IsComplete(s)
  PROVE  Unwrapped[s.kind] \subseteq s.got
  <1>1. s.kind \in {"Dsp", "Avr", "Pi"} BY DEF Unwrapped
  <1>2. s.step = "Done" BY <1>1 DEF IsComplete
  <1>3. Needs[s.kind]["Done"] = Unwrapped[s.kind]
    BY <1>1 DEF Needs, DspNeeds, AvrNeeds, PiNeeds
  <1> QED BY <1>1, <1>2, <1>3 DEF Supplied, Needs

-----------------------------------------------------------------------------
(* What feed() does at each step of the sequencers a session runs.         *)

\* The commands of a batch.
CmdsIn(s) == {s[i].cmd : i \in 1..Len(s)}

\* u is one command, named x.
AsksFor(u, x) == Len(u) = 1 /\ CmdsIn(u) = {x}

LEMMA OneCommand ==
  ASSUME NEW x, NEW d
  PROVE  AsksFor(<<Cmd(x, d)>>, x)
  BY DEF AsksFor, CmdsIn, Cmd

LEMMA RowTaken ==
  ASSUME NEW s \in Sequencer, NEW e
  PROVE  \/ Fed(s, e) = s /\ Replies(s, e) = <<>>
         \/ \E r \in Rows(s) :
              /\ e.msg = r.msg /\ e.src \in r.srcs
              /\ Fed(s, e).step = r.to /\ Replies(s, e) = r.send
              /\ Fed(s, e).timer = TimerAfter(s, r)
              /\ Fed(s, e).got = s.got \cup r.keep
  <1>1. CASE Accepting(s, e) = {}
    BY <1>1 DEF Fed, Replies
  <1>2. CASE Accepting(s, e) # {}
    <2> DEFINE r == CHOOSE r \in Accepting(s, e) : TRUE
    <2>1. r \in Rows(s) /\ e.msg = r.msg /\ e.src \in r.srcs BY <1>2 DEF Accepting
    <2>2. Fed(s, e) = Apply(s, r) /\ Replies(s, e) = r.send BY <1>2 DEF Fed, Replies
    <2> HIDE DEF r
    <2>3. /\ Apply(s, r).step = r.to /\ Apply(s, r).timer = TimerAfter(s, r)
          /\ Apply(s, r).got = s.got \cup r.keep
      BY DEF Apply, Sequencer
    <2> QED BY <2>1, <2>2, <2>3
  <1> QED BY <1>1, <1>2

ShotMove(s, m, t, u) ==
  \/ t.step = s.step /\ u = <<>>
  \/ s.step = "Draining" /\ m = "IDLE" /\ t.step = "WaitingForClubResult" /\ AsksFor(u, "ShotResultReq")
  \/ s.step = "WaitingForClubResult" /\ m = "ClubResult" /\ t.step = "WaitingForArmAck" /\ AsksFor(u, "Arm")
  \/ s.step = "WaitingForArmAck" /\ m = "ConfigAck" /\ t.step = "WaitingForArmed" /\ u = <<>>
  \/ s.step = "WaitingForArmed" /\ m = "ARMED" /\ t.step = "Done" /\ u = <<>>

LEMMA ShotMoves ==
  ASSUME NEW s \in Sequencer, s.kind = "Shot", NEW e
  PROVE  /\ ShotMove(s, e.msg, Fed(s, e), Replies(s, e))
         /\ Fed(s, e).timer \in {s.timer, DrainTimeout}
  <1>1. CASE Fed(s, e) = s /\ Replies(s, e) = <<>> BY <1>1 DEF ShotMove
  <1>2. CASE \E r \in Rows(s) :
               /\ e.msg = r.msg /\ e.src \in r.srcs
               /\ Fed(s, e).step = r.to /\ Replies(s, e) = r.send
               /\ Fed(s, e).timer = TimerAfter(s, r)
    <2>1. PICK r \in Rows(s) :
               /\ e.msg = r.msg
               /\ Fed(s, e).step = r.to /\ Replies(s, e) = r.send
               /\ Fed(s, e).timer = TimerAfter(s, r)
      BY <1>2
    <2>2. s.step \in DOMAIN ShotScript /\ r \in ShotScript[s.step] BY DEF Rows, Script
    <2>3. /\ AsksFor(<<Cmd("ShotResultReq", "Avr")>>, "ShotResultReq")
          /\ AsksFor(<<Cmd("Arm", "Avr")>>, "Arm")
      BY OneCommand
    <2>4. /\ s.step = "Draining" =>
               \/ r.to = "Draining" /\ r.send = <<>>
               \/ r.msg = "IDLE" /\ r.to = "WaitingForClubResult"
                    /\ r.send = <<Cmd("ShotResultReq", "Avr")>>
          /\ s.step = "WaitingForClubResult" =>
               r.msg = "ClubResult" /\ r.to = "WaitingForArmAck" /\ r.send = <<Cmd("Arm", "Avr")>>
          /\ s.step = "WaitingForArmAck" =>
               r.msg = "ConfigAck" /\ r.to = "WaitingForArmed" /\ r.send = <<>>
          /\ s.step = "WaitingForArmed" => r.msg = "ARMED" /\ r.to = "Done" /\ r.send = <<>>
          /\ s.step \in {"Draining", "WaitingForClubResult", "WaitingForArmAck", "WaitingForArmed"}
      <3>1. CASE s.step = "Draining" BY <2>2, <3>1 DEF ShotScript, Drain, Row
      <3>2. CASE s.step = "WaitingForClubResult" BY <2>2, <3>2 DEF ShotScript, Row
      <3>3. CASE s.step = "WaitingForArmAck" BY <2>2, <3>3 DEF ShotScript, Row
      <3>4. CASE s.step = "WaitingForArmed" BY <2>2, <3>4 DEF ShotScript, Row
      <3> QED BY <2>2, <3>1, <3>2, <3>3, <3>4 DEF ShotScript
    <2>5. TimerAfter(s, r) \in {s.timer, DrainTimeout} BY DEF TimerAfter
    <2> QED BY <2>1, <2>3, <2>4, <2>5 DEF ShotMove
  <1> QED BY <1>1, <1>2, RowTaken

ArmMove(s, m, t, u) ==
  \/ t.step = s.step /\ u = <<>>
  \/ s.step = "WaitDspStatus" /\ t.step = "WaitAvrStatus" /\ AsksFor(u, "StatusPoll")
       /\ m \in {"DspStatus", "DspStatus6"}
  \/ s.step = "WaitAvrStatus" /\ m = "AvrStatus" /\ t.step = "WaitArmAck" /\ AsksFor(u, "Arm")
  \/ s.step = "WaitArmAck" /\ m = "ConfigNack" /\ t.step = "WaitDspStatus" /\ AsksFor(u, "StatusPoll")
  \/ s.step = "WaitArmAck" /\ m = "ConfigAck" /\ t.step = "WaitPiAndArmed" /\ AsksFor(u, "StatusPoll")
  \/ s.step = "WaitPiAndArmed" /\ m \in {"PiStatus", "ARMED"} /\ t.step = "Done" /\ u = <<>>

LEMMA ArmMoves ==
  ASSUME NEW s \in Sequencer, s.kind = "Arm", NEW e
  PROVE  ArmMove(s, e.msg, Fed(s, e), Replies(s, e))
  <1>1. CASE Fed(s, e) = s /\ Replies(s, e) = <<>> BY <1>1 DEF ArmMove
  <1>2. CASE \E r \in Rows(s) :
               /\ e.msg = r.msg /\ e.src \in r.srcs
               /\ Fed(s, e).step = r.to /\ Replies(s, e) = r.send
    <2>1. PICK r \in Rows(s) :
               /\ e.msg = r.msg
               /\ Fed(s, e).step = r.to /\ Replies(s, e) = r.send
      BY <1>2
    <2>2. s.step \in DOMAIN ArmScript(s) /\ r \in ArmScript(s)[s.step] BY DEF Rows, Script
    <2>3. /\ \A d : AsksFor(<<Cmd("StatusPoll", d)>>, "StatusPoll")
          /\ \A d : AsksFor(<<Cmd("Arm", d)>>, "Arm")
      BY OneCommand
    <2>4. CASE s.step = "WaitDspStatus"
      <3>1. r.msg \in {"DspStatus", "DspStatus6"} /\ r.to = "WaitAvrStatus"
              /\ r.send = <<Cmd("StatusPoll", "Avr")>>
        BY <2>2, <2>4 DEF ArmScript, Row, Counting
      <3> QED BY <2>1, <2>3, <2>4, <3>1 DEF ArmMove
    <2>5. CASE s.step = "WaitAvrStatus"
      <3>1. r.msg = "AvrStatus" /\ r.to = "WaitArmAck" /\ r.send = <<Cmd("Arm", "Avr")>>
        BY <2>2, <2>5 DEF ArmScript, Row, Counting, Ask
      <3> QED BY <2>1, <2>3, <2>5, <3>1 DEF ArmMove
    <2>6. CASE s.step = "WaitArmAck"
      <3>1. \/ r.msg = "ConfigNack" /\ r.to = "WaitDspStatus" /\ r.send = <<Cmd("StatusPoll", "Dsp")>>
            \/ r.msg = "ConfigAck" /\ r.to = "WaitPiAndArmed" /\ r.send = <<Cmd("StatusPoll", "Pi")>>
        BY <2>2, <2>6 DEF ArmScript, Row, Counting
      <3> QED BY <2>1, <2>3, <2>6, <3>1 DEF ArmMove
    <2>7. CASE s.step = "WaitPiAndArmed"
      <3>1. r.msg \in {"PiStatus", "ARMED"} /\ r.to \in {"Done", "WaitPiAndArmed"} /\ r.send = <<>>
        <4>1. /\ Collect(s, "PiStatus", "got_pi").msg = "PiStatus"
              /\ Collect(s, "ARMED", "got_armed").msg = "ARMED"
              /\ \A m, f : /\ Collect(s, m, f).to \in {"Done", "WaitPiAndArmed"}
                            /\ Collect(s, m, f).send = <<>>
                            /\ Counting(Collect(s, m, f), s.idx).msg = Collect(s, m, f).msg
                            /\ Counting(Collect(s, m, f), s.idx).to = Collect(s, m, f).to
                            /\ Counting(Collect(s, m, f), s.idx).send = Collect(s, m, f).send
          BY DEF Collect, Row, Counting
        <4>2. \/ r = Counting(Collect(s, "PiStatus", "got_pi"), s.idx)
              \/ r = Counting(Collect(s, "ARMED", "got_armed"), s.idx)
          BY <2>2, <2>7 DEF ArmScript
        <4> QED BY <4>1, <4>2
      <3> QED BY <2>1, <2>7, <3>1 DEF ArmMove
    <2> QED BY <2>2, <2>4, <2>5, <2>6, <2>7 DEF ArmScript
  <1> QED BY <1>1, <1>2, RowTaken

DisarmMove(s, m, t, u) ==
  /\ u = <<>>
  /\ \/ t.step = s.step
     \/ s.step = "WaitAck" /\ m = "ConfigAck" /\ t.step = "WaitModeReset"
     \/ s.step = "WaitModeReset" /\ m \in {"ModeAck", "ARMED CANCELLED"} /\ t.step = "WaitStateIdle"
     \/ s.step = "WaitStateIdle" /\ m \in {"ModeAck", "System State"} /\ t.step = "Done"

LEMMA DisarmMoves ==
  ASSUME NEW s \in Sequencer, s.kind = "Disarm", NEW e
  PROVE  DisarmMove(s, e.msg, Fed(s, e), Replies(s, e))
  <1>1. CASE Fed(s, e) = s /\ Replies(s, e) = <<>> BY <1>1 DEF DisarmMove
  <1>2. CASE \E r \in Rows(s) :
               /\ e.msg = r.msg /\ e.src \in r.srcs
               /\ Fed(s, e).step = r.to /\ Replies(s, e) = r.send
    <2>1. PICK r \in Rows(s) :
               /\ e.msg = r.msg
               /\ Fed(s, e).step = r.to /\ Replies(s, e) = r.send
      BY <1>2
    <2>2. s.step \in DOMAIN DisarmScript /\ r \in DisarmScript[s.step] BY DEF Rows, Script
    <2>3. CASE s.step = "WaitAck" BY <2>1, <2>2, <2>3 DEF DisarmScript, Row, DisarmMove
    <2>4. CASE s.step = "WaitModeReset"
      <3>1. r.msg \in {"ModeAck", "ARMED CANCELLED"} /\ r.to = "WaitStateIdle" /\ r.send = <<>>
        <4>1. \A m : /\ Row(Buses, m, {}, "WaitStateIdle", <<>>).msg = m
                     /\ Row(Buses, m, {}, "WaitStateIdle", <<>>).to = "WaitStateIdle"
                     /\ Row(Buses, m, {}, "WaitStateIdle", <<>>).send = <<>>
          BY DEF Row
        <4>2. \/ r = Row(Buses, "ModeAck", {}, "WaitStateIdle", <<>>)
              \/ r = Row(Buses, "ARMED CANCELLED", {}, "WaitStateIdle", <<>>)
          <5>1. DisarmScript["WaitModeReset"] = {Row(Buses, "ModeAck", {}, "WaitStateIdle", <<>>),
                                                Row(Buses, "ARMED CANCELLED", {}, "WaitStateIdle", <<>>)}
            BY DEF DisarmScript
          <5> QED BY <2>2, <2>4, <5>1
        <4> QED BY <4>1, <4>2
      <3> QED BY <2>1, <2>4, <3>1 DEF DisarmMove
    <2>5. CASE s.step = "WaitStateIdle"
      <3>1. r.msg \in {"ModeAck", "System State"} /\ r.to = "Done" /\ r.send = <<>>
        <4>1. \A m : /\ Row(Buses, m, {}, "Done", <<>>).msg = m
                     /\ Row(Buses, m, {}, "Done", <<>>).to = "Done"
                     /\ Row(Buses, m, {}, "Done", <<>>).send = <<>>
          BY DEF Row
        <4>2. \/ r = Row(Buses, "System State", {}, "Done", <<>>)
              \/ r = Row(Buses, "ModeAck", {}, "Done", <<>>)
          <5>1. DisarmScript["WaitStateIdle"] = {Row(Buses, "System State", {}, "Done", <<>>),
                                                Row(Buses, "ModeAck", {}, "Done", <<>>)}
            BY DEF DisarmScript
          <5> QED BY <2>2, <2>5, <5>1
        <4> QED BY <4>1, <4>2
      <3> QED BY <2>1, <2>5, <3>1 DEF DisarmMove
    <2> QED BY <2>2, <2>3, <2>4, <2>5 DEF DisarmScript
  <1> QED BY <1>1, <1>2, RowTaken

\* The steps of the configuration that wait for a ConfigAck.
ConfigAckSteps ==
  {"WaitInitGateAck", "WaitParamAck", "WaitParamCommitAck", "WaitModeCommitAck",
   "WaitRadarCalCommitAck"}

AvrConfigMove(s, m, t, u) ==
  \/ t.step = s.step /\ u = <<>>
  \/ /\ s.step \in ConfigAckSteps => m = "ConfigAck"
     /\ t.step # "Done"
     /\ \E x \in {"ParamValue", "Commit"} : AsksFor(u, x)
     /\ t.step \in ConfigAckSteps
  \/ /\ s.step \in ConfigAckSteps => m = "ConfigAck"
     /\ t.step # "Done"
     /\ \E x \in {"ModeSet", "RadarCal"} : AsksFor(u, x)
     /\ t.step \notin ConfigAckSteps
  \/ s.step \in ConfigAckSteps /\ m = "ConfigAck" /\ t.step = "Done" /\ u = <<>>

LEMMA AvrConfigMoves ==
  ASSUME NEW s \in Sequencer, s.kind = "AvrConfig", NEW e
  PROVE  AvrConfigMove(s, e.msg, Fed(s, e), Replies(s, e))
  <1>1. CASE Fed(s, e) = s /\ Replies(s, e) = <<>> BY <1>1 DEF AvrConfigMove
  <1>2. CASE \E r \in Rows(s) :
               /\ e.msg = r.msg /\ e.src \in r.srcs
               /\ Fed(s, e).step = r.to /\ Replies(s, e) = r.send
    <2>1. PICK r \in Rows(s) :
               /\ e.msg = r.msg
               /\ Fed(s, e).step = r.to /\ Replies(s, e) = r.send
      BY <1>2
    <2>2. s.step \in DOMAIN AvrConfigScript(s) /\ r \in AvrConfigScript(s)[s.step]
      BY DEF Rows, Script
    <2>3. /\ AsksFor(<<Cmd("ParamValue", "Avr")>>, "ParamValue")
          /\ AsksFor(<<Cmd("Commit", "Avr")>>, "Commit")
          /\ AsksFor(<<Cmd("ModeSet", "Avr")>>, "ModeSet")
          /\ AsksFor(<<Cmd("RadarCal", "Avr")>>, "RadarCal")
      BY OneCommand
    <2>4. ASSUME NEW n, r = ParamOrMode(s, n)
          PROVE  /\ r.msg = "ConfigAck"
                 /\ \/ r.to = "WaitParamAck" /\ r.send = <<Cmd("ParamValue", "Avr")>>
                    \/ r.to = "WaitModeEcho" /\ r.send = <<Cmd("ModeSet", "Avr")>>
      BY <2>4 DEF ParamOrMode, Ask, Row, Counting
    <2>5. CASE s.step = "WaitInitGateAck"
      <3>1. r = ParamOrMode(s, 0) BY <2>2, <2>5 DEF AvrConfigScript
      <3> QED BY <2>1, <2>3, <2>4, <2>5, <3>1 DEF AvrConfigMove, ConfigAckSteps
    <2>6. CASE s.step = "WaitParamCommitAck"
      <3>1. r = ParamOrMode(s, s.idx + 1) BY <2>2, <2>6 DEF AvrConfigScript
      <3> QED BY <2>1, <2>3, <2>4, <2>6, <3>1 DEF AvrConfigMove, ConfigAckSteps
    <2>7. CASE s.step = "WaitParamAck"
      <3>1. r.msg = "ConfigAck" /\ r.to = "WaitParamCommitAck" /\ r.send = <<Cmd("Commit", "Avr")>>
        BY <2>2, <2>7 DEF AvrConfigScript, Ask, Row, Counting
      <3> QED BY <2>1, <2>3, <2>7, <3>1 DEF AvrConfigMove, ConfigAckSteps
    <2>8. CASE s.step = "WaitModeEcho"
      <3>1. r.to = "WaitModeCommitAck" /\ r.send = <<Cmd("Commit", "Avr")>>
        BY <2>2, <2>8 DEF AvrConfigScript, Ask, Row
      <3> QED BY <2>1, <2>3, <2>8, <3>1 DEF AvrConfigMove, ConfigAckSteps
    <2>9. CASE s.step = "WaitModeCommitAck"
      <3>1. /\ r.msg = "ConfigAck"
            /\ \/ r.to = "WaitRadarCalEcho" /\ r.send = <<Cmd("RadarCal", "Avr")>>
               \/ r.to = "Done" /\ r.send = <<>>
        BY <2>2, <2>9 DEF AvrConfigScript, Ask, Row
      <3> QED BY <2>1, <2>3, <2>9, <3>1 DEF AvrConfigMove, ConfigAckSteps
    <2>10. CASE s.step = "WaitRadarCalEcho"
      <3>1. r.to = "WaitRadarCalCommitAck" /\ r.send = <<Cmd("Commit", "Avr")>>
        BY <2>2, <2>10 DEF AvrConfigScript, Ask, Row
      <3> QED BY <2>1, <2>3, <2>10, <3>1 DEF AvrConfigMove, ConfigAckSteps
    <2>11. CASE s.step = "WaitRadarCalCommitAck"
      <3>1. r.msg = "ConfigAck" /\ r.to = "Done" /\ r.send = <<>>
        BY <2>2, <2>11 DEF AvrConfigScript, Row
      <3> QED BY <2>1, <2>11, <3>1 DEF AvrConfigMove, ConfigAckSteps
    <2> QED BY <2>2, <2>5, <2>6, <2>7, <2>8, <2>9, <2>10, <2>11 DEF AvrConfigScript
  <1> QED BY <1>1, <1>2, RowTaken

-----------------------------------------------------------------------------
(* What an awaited message does, at the steps of the sequencers a session  *)
(* runs, when it comes from where it is expected.                          *)

Sourced(e) ==
  /\ e.src \in Buses
  /\ e.msg \in {"DspStatus", "DspStatus6"} => e.src = "Dsp"
  /\ e.msg \in {"AvrStatus", "ConfigAck", "ConfigNack", "ModeSet", "RadarCal"} => e.src = "Avr"

\* e is taken by the row r of s, or by none.
Follows(s, e, r) ==
  /\ Fed(s, e).step = r.to /\ Fed(s, e).got = s.got \cup r.keep
  /\ Fed(s, e).timer = TimerAfter(s, r)
  /\ Replies(s, e) = r.send
Ignores(s, e) == Fed(s, e) = s /\ Replies(s, e) = <<>>

LEMMA Heard ==
  ASSUME NEW s \in Sequencer, NEW e, \A r \in Rows(s) : e.msg = r.msg => e.src \in r.srcs
  PROVE  \/ (\A r \in Rows(s) : e.msg # r.msg) /\ Ignores(s, e)
         \/ \E r \in Rows(s) : e.msg = r.msg /\ Follows(s, e, r)
  <1>1. CASE Accepting(s, e) = {}
    <2>1. Ignores(s, e) BY <1>1 DEF Fed, Replies, Ignores
    <2>2. \A r \in Rows(s) : e.msg # r.msg BY <1>1 DEF Accepting
    <2> QED BY <2>1, <2>2
  <1>2. CASE Accepting(s, e) # {}
    <2> DEFINE r == CHOOSE r \in Accepting(s, e) : TRUE
    <2>1. r \in Rows(s) /\ e.msg = r.msg BY <1>2 DEF Accepting
    <2>2. Fed(s, e) = Apply(s, r) /\ Replies(s, e) = r.send BY <1>2 DEF Fed, Replies
    <2> HIDE DEF r
    <2>3. /\ Apply(s, r).step = r.to /\ Apply(s, r).timer = TimerAfter(s, r)
          /\ Apply(s, r).got = s.got \cup r.keep
      BY DEF Apply, Sequencer
    <2> QED BY <2>1, <2>2, <2>3 DEF Follows
  <1> QED BY <1>1, <1>2

LEMMA HeardOne ==
  ASSUME NEW s \in Sequencer, NEW e, NEW r, Rows(s) = {r}, e.msg = r.msg => e.src \in r.srcs
  PROVE  \/ e.msg = r.msg /\ Follows(s, e, r)
         \/ e.msg # r.msg /\ Ignores(s, e)
  <1>1. \A x \in Rows(s) : e.msg = x.msg => e.src \in x.srcs OBVIOUS
  <1> QED BY <1>1, Heard

LEMMA HeardTwo ==
  ASSUME NEW s \in Sequencer, NEW e, NEW r, NEW q, Rows(s) = {r, q},
         e.msg = r.msg => e.src \in r.srcs, e.msg = q.msg => e.src \in q.srcs
  PROVE  \/ e.msg = r.msg /\ Follows(s, e, r)
         \/ e.msg = q.msg /\ Follows(s, e, q)
         \/ e.msg # r.msg /\ e.msg # q.msg /\ Ignores(s, e)
  <1>1. \A x \in Rows(s) : e.msg = x.msg => e.src \in x.srcs OBVIOUS
  <1>2. \/ (\A x \in Rows(s) : e.msg # x.msg) /\ Ignores(s, e)
        \/ \E x \in Rows(s) : e.msg = x.msg /\ Follows(s, e, x)
    BY <1>1, Heard
  <1> QED BY <1>2

LEMMA RowIs ==
  ASSUME NEW srcs, NEW m, NEW keep, NEW to, NEW send, NEW n
  PROVE  LET r == Row(srcs, m, keep, to, send)
             q == Counting(r, n)
         IN /\ r.srcs = srcs /\ r.msg = m /\ r.keep = keep /\ r.to = to /\ r.send = send
            /\ q.srcs = srcs /\ q.msg = m /\ q.keep = keep /\ q.to = to /\ q.send = send
  BY DEF Row, Counting

LEMMA DisarmAnswers ==
  ASSUME NEW s \in Sequencer, s.kind = "Disarm", NEW e, Sourced(e)
  PROVE  LET t == Fed(s, e) IN
         /\ s.step = "WaitAck" /\ e.msg = "ConfigAck" => t.step = "WaitModeReset"
         /\ s.step = "WaitModeReset" /\ e.msg = "ARMED CANCELLED" => t.step = "WaitStateIdle"
         /\ s.step = "WaitStateIdle" /\ e.msg = "System State" => t.step = "Done"
  <1>0. \A x \in DOMAIN DisarmScript : s.step = x => Rows(s) = DisarmScript[x]
    <2>1. Script(s) = DisarmScript BY DEF Script
    <2> QED BY <2>1 DEF Rows
  <1>1. ASSUME s.step = "WaitAck", e.msg = "ConfigAck" PROVE Fed(s, e).step = "WaitModeReset"
    <2> DEFINE r == Row({"Avr"}, "ConfigAck", {}, "WaitModeReset", <<>>)
    <2>1. "WaitAck" \in DOMAIN DisarmScript /\ DisarmScript["WaitAck"] = {r} BY DEF DisarmScript
    <2>2. r.srcs = {"Avr"} /\ r.msg = "ConfigAck" /\ r.to = "WaitModeReset" BY RowIs
    <2> HIDE DEF r
    <2>3. Rows(s) = {r} BY <1>0, <1>1, <2>1
    <2> QED BY <1>1, <2>2, <2>3, HeardOne DEF Sourced, Follows
  <1>2. ASSUME s.step = "WaitModeReset", e.msg = "ARMED CANCELLED"
        PROVE  Fed(s, e).step = "WaitStateIdle"
    <2> DEFINE r == Row(Buses, "ModeAck", {}, "WaitStateIdle", <<>>)
               q == Row(Buses, "ARMED CANCELLED", {}, "WaitStateIdle", <<>>)
    <2>1. "WaitModeReset" \in DOMAIN DisarmScript /\ DisarmScript["WaitModeReset"] = {r, q}
      BY DEF DisarmScript
    <2>2. r.srcs = Buses /\ r.msg = "ModeAck" /\ r.to = "WaitStateIdle" BY RowIs
    <2>3. q.srcs = Buses /\ q.msg = "ARMED CANCELLED" /\ q.to = "WaitStateIdle" BY DEF Row
    <2> HIDE DEF r, q
    <2>4. Rows(s) = {r, q} BY <1>0, <1>2, <2>1
    <2>5. e.msg = q.msg /\ e.src \in r.srcs /\ e.src \in q.srcs BY <1>2, <2>2, <2>3 DEF Sourced
    <2>6. Follows(s, e, r) \/ Follows(s, e, q) BY <2>4, <2>5, HeardTwo
    <2> QED BY <2>2, <2>3, <2>6 DEF Follows
  <1>3. ASSUME s.step = "WaitStateIdle", e.msg = "System State" PROVE Fed(s, e).step = "Done"
    <2> DEFINE r == Row(Buses, "System State", {}, "Done", <<>>)
               q == Row(Buses, "ModeAck", {}, "Done", <<>>)
    <2>1. "WaitStateIdle" \in DOMAIN DisarmScript /\ DisarmScript["WaitStateIdle"] = {r, q}
      BY DEF DisarmScript
    <2>2. r.srcs = Buses /\ r.msg = "System State" /\ r.to = "Done" BY DEF Row
    <2>3. q.srcs = Buses /\ q.msg = "ModeAck" /\ q.to = "Done" BY RowIs
    <2> HIDE DEF r, q
    <2>4. Rows(s) = {r, q} BY <1>0, <1>3, <2>1
    <2>5. e.msg = r.msg /\ e.src \in r.srcs /\ e.src \in q.srcs BY <1>3, <2>2, <2>3 DEF Sourced
    <2>6. Follows(s, e, r) \/ Follows(s, e, q) BY <2>4, <2>5, HeardTwo
    <2> QED BY <2>2, <2>3, <2>6 DEF Follows
  <1> QED BY <1>1, <1>2, <1>3

\* The steps of arming keep nothing but what the last one collects.
LEMMA ArmAnswers ==
  ASSUME NEW s \in Sequencer, s.kind = "Arm", NEW e, Sourced(e)
  PROVE  LET t == Fed(s, e)
             u == Replies(s, e)
         IN
         /\ s.step = "WaitDspStatus" =>
              \/ t.step = "WaitAvrStatus" /\ t.got = s.got /\ u = <<Cmd("StatusPoll", "Avr")>>
              \/ e.msg \notin {"DspStatus", "DspStatus6"} /\ Ignores(s, e)
         /\ s.step = "WaitAvrStatus" =>
              \/ t.step = "WaitArmAck" /\ t.got = s.got /\ u = <<Cmd("Arm", "Avr")>>
              \/ e.msg # "AvrStatus" /\ Ignores(s, e)
         /\ s.step = "WaitArmAck" =>
              \/ /\ e.msg = "ConfigNack" /\ t.step = "WaitDspStatus" /\ t.got = s.got
                 /\ u = <<Cmd("StatusPoll", "Dsp")>>
              \/ /\ e.msg = "ConfigAck" /\ t.step = "WaitPiAndArmed" /\ t.got = s.got
                 /\ u = <<Cmd("StatusPoll", "Pi")>>
              \/ e.msg # "ConfigNack" /\ e.msg # "ConfigAck" /\ Ignores(s, e)
         /\ s.step = "WaitPiAndArmed" =>
              \/ e.msg = "PiStatus" /\ t.got = s.got \cup {"got_pi"} /\ u = <<>>
              \/ e.msg = "ARMED" /\ t.got = s.got \cup {"got_armed"} /\ u = <<>>
              \/ e.msg # "PiStatus" /\ e.msg # "ARMED" /\ Ignores(s, e)
         /\ s.step = "WaitPiAndArmed" =>
              t.step = "Done" \/ t = s \/ t.got # {"got_pi", "got_armed"}
  <1>0. \A x \in DOMAIN ArmScript(s) : s.step = x => Rows(s) = ArmScript(s)[x]
    <2>1. Script(s) = ArmScript(s) BY DEF Script
    <2> QED BY <2>1 DEF Rows
  <1>1. ASSUME s.step = "WaitDspStatus"
        PROVE  \/ /\ Fed(s, e).step = "WaitAvrStatus" /\ Fed(s, e).got = s.got
                  /\ Replies(s, e) = <<Cmd("StatusPoll", "Avr")>>
               \/ e.msg \notin {"DspStatus", "DspStatus6"} /\ Ignores(s, e)
    <2> DEFINE u == <<Cmd("StatusPoll", "Avr")>>
               r == Counting(Row({"Dsp"}, "DspStatus", {}, "WaitAvrStatus", u), s.idx)
               q == Counting(Row({"Dsp"}, "DspStatus6", {}, "WaitAvrStatus", u), s.idx)
    <2>1. "WaitDspStatus" \in DOMAIN ArmScript(s) /\ ArmScript(s)["WaitDspStatus"] = {r, q}
      BY DEF ArmScript
    <2> HIDE DEF u
    <2>2. /\ r.srcs = {"Dsp"} /\ r.msg = "DspStatus" /\ r.keep = {}
          /\ r.to = "WaitAvrStatus" /\ r.send = u
      BY RowIs
    <2>3. /\ q.srcs = {"Dsp"} /\ q.msg = "DspStatus6" /\ q.keep = {}
          /\ q.to = "WaitAvrStatus" /\ q.send = u
      BY RowIs
    <2> HIDE DEF r, q
    <2>4. Rows(s) = {r, q} BY <1>0, <1>1, <2>1
    <2>5. /\ e.msg = r.msg => e.src \in r.srcs
          /\ e.msg = q.msg => e.src \in q.srcs
      BY <2>2, <2>3 DEF Sourced
    <2>6. \/ Follows(s, e, r) \/ Follows(s, e, q)
          \/ e.msg # r.msg /\ e.msg # q.msg /\ Ignores(s, e)
      BY <2>4, <2>5, HeardTwo
    <2>7. s.got \cup {} = s.got OBVIOUS
    <2> QED BY <2>2, <2>3, <2>6, <2>7 DEF Follows, u
  <1>2. ASSUME s.step = "WaitAvrStatus"
        PROVE  \/ /\ Fed(s, e).step = "WaitArmAck" /\ Fed(s, e).got = s.got
                  /\ Replies(s, e) = <<Cmd("Arm", "Avr")>>
               \/ e.msg # "AvrStatus" /\ Ignores(s, e)
    <2> DEFINE u == <<Cmd("Arm", "Avr")>>
               r == Counting(Row({"Avr"}, "AvrStatus", {}, "WaitArmAck", u), s.idx)
    <2>1. "WaitAvrStatus" \in DOMAIN ArmScript(s) /\ ArmScript(s)["WaitAvrStatus"] = {r}
      BY DEF ArmScript, Ask
    <2> HIDE DEF u
    <2>2. /\ r.srcs = {"Avr"} /\ r.msg = "AvrStatus" /\ r.keep = {}
          /\ r.to = "WaitArmAck" /\ r.send = u
      BY RowIs
    <2> HIDE DEF r
    <2>3. Rows(s) = {r} BY <1>0, <1>2, <2>1
    <2>4. e.msg = r.msg => e.src \in r.srcs BY <2>2 DEF Sourced
    <2>5. Follows(s, e, r) \/ (e.msg # r.msg /\ Ignores(s, e)) BY <2>3, <2>4, HeardOne
    <2>6. s.got \cup {} = s.got OBVIOUS
    <2> QED BY <2>2, <2>5, <2>6 DEF Follows, u
  <1>3. ASSUME s.step = "WaitArmAck"
        PROVE  \/ /\ e.msg = "ConfigNack" /\ Fed(s, e).step = "WaitDspStatus"
                  /\ Fed(s, e).got = s.got /\ Replies(s, e) = <<Cmd("StatusPoll", "Dsp")>>
               \/ /\ e.msg = "ConfigAck" /\ Fed(s, e).step = "WaitPiAndArmed"
                  /\ Fed(s, e).got = s.got /\ Replies(s, e) = <<Cmd("StatusPoll", "Pi")>>
               \/ e.msg # "ConfigNack" /\ e.msg # "ConfigAck" /\ Ignores(s, e)
    <2> DEFINE u == <<Cmd("StatusPoll", "Dsp")>>
               v == <<Cmd("StatusPoll", "Pi")>>
               r == Counting(Row({"Avr"}, "ConfigNack", {}, "WaitDspStatus", u), ArmRetries(s.idx))
               q == Counting(Row({"Avr"}, "ConfigAck", {}, "WaitPiAndArmed", v), s.idx)
    <2>1. "WaitArmAck" \in DOMAIN ArmScript(s) /\ ArmScript(s)["WaitArmAck"] = {r, q}
      BY DEF ArmScript, Ask
    <2> HIDE DEF u, v
    <2>2. /\ r.srcs = {"Avr"} /\ r.msg = "ConfigNack" /\ r.keep = {}
          /\ r.to = "WaitDspStatus" /\ r.send = u
      BY RowIs
    <2>3. /\ q.srcs = {"Avr"} /\ q.msg = "ConfigAck" /\ q.keep = {}
          /\ q.to = "WaitPiAndArmed" /\ q.send = v
      BY RowIs
    <2> HIDE DEF r, q
    <2>4. Rows(s) = {r, q} BY <1>0, <1>3, <2>1
    <2>5. /\ e.msg = r.msg => e.src \in r.srcs
          /\ e.msg = q.msg => e.src \in q.srcs
      BY <2>2, <2>3 DEF Sourced
    <2>6. \/ e.msg = r.msg /\ Follows(s, e, r)
          \/ e.msg = q.msg /\ Follows(s, e, q)
          \/ e.msg # r.msg /\ e.msg # q.msg /\ Ignores(s, e)
      BY <2>4, <2>5, HeardTwo
    <2>7. s.got \cup {} = s.got OBVIOUS
    <2> QED BY <2>2, <2>3, <2>6, <2>7 DEF Follows, u, v
  <1>4. ASSUME s.step = "WaitPiAndArmed"
        PROVE  /\ \/ /\ e.msg = "PiStatus" /\ Fed(s, e).got = s.got \cup {"got_pi"}
                     /\ Replies(s, e) = <<>>
                  \/ /\ e.msg = "ARMED" /\ Fed(s, e).got = s.got \cup {"got_armed"}
                     /\ Replies(s, e) = <<>>
                  \/ e.msg # "PiStatus" /\ e.msg # "ARMED" /\ Ignores(s, e)
               /\ \/ Fed(s, e).step = "Done" \/ Fed(s, e) = s
                  \/ Fed(s, e).got # {"got_pi", "got_armed"}
    <2> DEFINE r == Counting(Collect(s, "PiStatus", "got_pi"), s.idx)
               q == Counting(Collect(s, "ARMED", "got_armed"), s.idx)
    <2>1. "WaitPiAndArmed" \in DOMAIN ArmScript(s) /\ ArmScript(s)["WaitPiAndArmed"] = {r, q}
      BY DEF ArmScript
    <2>2. /\ r.srcs = Buses /\ r.msg = "PiStatus" /\ r.keep = {"got_pi"} /\ r.send = <<>>
          /\ s.got \cup {"got_pi"} = {"got_pi", "got_armed"} => r.to = "Done"
      BY DEF Collect, Row, Counting
    <2>3. /\ q.srcs = Buses /\ q.msg = "ARMED" /\ q.keep = {"got_armed"} /\ q.send = <<>>
          /\ s.got \cup {"got_armed"} = {"got_pi", "got_armed"} => q.to = "Done"
      BY DEF Collect, Row, Counting
    <2> HIDE DEF r, q
    <2>4. Rows(s) = {r, q} BY <1>0, <1>4, <2>1
    <2>5. e.src \in r.srcs /\ e.src \in q.srcs BY <2>2, <2>3 DEF Sourced
    <2>6. \/ e.msg = r.msg /\ Follows(s, e, r)
          \/ e.msg = q.msg /\ Follows(s, e, q)
          \/ e.msg # r.msg /\ e.msg # q.msg /\ Ignores(s, e)
      BY <2>4, <2>5, HeardTwo
    <2>7. CASE e.msg = r.msg /\ Follows(s, e, r) BY <2>2, <2>7 DEF Follows
    <2>8. CASE e.msg = q.msg /\ Follows(s, e, q) BY <2>3, <2>8 DEF Follows
    <2>9. CASE e.msg # r.msg /\ e.msg # q.msg /\ Ignores(s, e)
      BY <2>2, <2>3, <2>9 DEF Ignores
    <2> QED BY <2>6, <2>7, <2>8, <2>9
  <1> QED BY <1>1, <1>2, <1>3, <1>4

\* Every answer but the last is followed by a request.
Requests(t, u) ==
  \/ t.step \in ConfigAckSteps /\ (AsksFor(u, "Commit") \/ AsksFor(u, "ParamValue"))
  \/ t.step = "WaitModeEcho" /\ AsksFor(u, "ModeSet")
  \/ t.step = "WaitRadarCalEcho" /\ AsksFor(u, "RadarCal")

LEMMA AvrConfigAnswers ==
  ASSUME NEW s \in Sequencer, s.kind = "AvrConfig", NEW e, Sourced(e)
  PROVE  LET t == Fed(s, e)
             u == Replies(s, e)
         IN
         /\ s.step \in ConfigAckSteps =>
              t.step = "Done" \/ Requests(t, u) \/ (e.msg # "ConfigAck" /\ Ignores(s, e))
         /\ s.step = "WaitModeEcho" => Requests(t, u) \/ (e.msg # "ModeSet" /\ Ignores(s, e))
         /\ s.step = "WaitRadarCalEcho" => Requests(t, u) \/ (e.msg # "RadarCal" /\ Ignores(s, e))
  <1>0. \A x \in DOMAIN AvrConfigScript(s) : s.step = x => Rows(s) = AvrConfigScript(s)[x]
    <2>1. Script(s) = AvrConfigScript(s) BY DEF Script
    <2> QED BY <2>1 DEF Rows
  <1>1. /\ AsksFor(<<Cmd("ParamValue", "Avr")>>, "ParamValue")
        /\ AsksFor(<<Cmd("Commit", "Avr")>>, "Commit")
        /\ AsksFor(<<Cmd("ModeSet", "Avr")>>, "ModeSet")
        /\ AsksFor(<<Cmd("RadarCal", "Avr")>>, "RadarCal")
    BY OneCommand
  <1>2. ASSUME NEW m \in {"ConfigAck", "ModeSet", "RadarCal"}, NEW r, Rows(s) = {r},
               r.srcs = {"Avr"}, r.msg = m, r.to = "Done" \/ Requests([step |-> r.to], r.send)
        PROVE  \/ Fed(s, e).step = "Done" /\ r.to = "Done"
               \/ Requests(Fed(s, e), Replies(s, e))
               \/ e.msg # m /\ Ignores(s, e)
    <2>1. e.msg = r.msg => e.src \in r.srcs BY <1>2 DEF Sourced
    <2>2. Follows(s, e, r) \/ (e.msg # r.msg /\ Ignores(s, e)) BY <1>2, <2>1, HeardOne
    <2>3. ASSUME Follows(s, e, r), Requests([step |-> r.to], r.send)
          PROVE  Requests(Fed(s, e), Replies(s, e))
      BY <2>3 DEF Follows, Requests
    <2> QED BY <1>2, <2>2, <2>3 DEF Follows
  <1>3. ASSUME NEW n, Rows(s) = {ParamOrMode(s, n)}
        PROVE  \/ Requests(Fed(s, e), Replies(s, e))
               \/ e.msg # "ConfigAck" /\ Ignores(s, e)
    <2> DEFINE r == ParamOrMode(s, n)
    <2>1. /\ r.srcs = {"Avr"} /\ r.msg = "ConfigAck" /\ r.to # "Done"
          /\ \/ r.to = "WaitParamAck" /\ r.send = <<Cmd("ParamValue", "Avr")>>
             \/ r.to = "WaitModeEcho" /\ r.send = <<Cmd("ModeSet", "Avr")>>
      BY DEF ParamOrMode, Ask, Row, Counting
    <2> HIDE DEF r
    <2>2. Requests([step |-> r.to], r.send) BY <1>1, <2>1 DEF Requests, ConfigAckSteps
    <2>3. Rows(s) = {r} BY <1>3 DEF r
    <2> QED BY <1>2, <2>1, <2>2, <2>3
  <1>4. CASE s.step = "WaitInitGateAck"
    <2>1. "WaitInitGateAck" \in DOMAIN AvrConfigScript(s)
            /\ AvrConfigScript(s)["WaitInitGateAck"] = {ParamOrMode(s, 0)}
      BY DEF AvrConfigScript
    <2> QED BY <1>0, <1>3, <1>4, <2>1
  <1>5. CASE s.step = "WaitParamCommitAck"
    <2>1. "WaitParamCommitAck" \in DOMAIN AvrConfigScript(s)
            /\ AvrConfigScript(s)["WaitParamCommitAck"] = {ParamOrMode(s, s.idx + 1)}
      BY DEF AvrConfigScript
    <2> QED BY <1>0, <1>3, <1>5, <2>1
  <1>6. CASE s.step = "WaitParamAck"
    <2> DEFINE r == Counting(Ask("Avr", "ConfigAck", {}, "WaitParamCommitAck", "Commit"), s.idx)
    <2>1. "WaitParamAck" \in DOMAIN AvrConfigScript(s) /\ AvrConfigScript(s)["WaitParamAck"] = {r}
      BY DEF AvrConfigScript
    <2>2. /\ r.srcs = {"Avr"} /\ r.msg = "ConfigAck" /\ r.to = "WaitParamCommitAck"
          /\ r.send = <<Cmd("Commit", "Avr")>>
      BY DEF Ask, Row, Counting
    <2> HIDE DEF r
    <2>3. Requests([step |-> r.to], r.send) BY <1>1, <2>2 DEF Requests, ConfigAckSteps
    <2> QED BY <1>0, <1>2, <1>6, <2>1, <2>2, <2>3
  <1>7. CASE s.step = "WaitModeCommitAck"
    <2> DEFINE q == Ask("Avr", "ConfigAck", {}, "WaitRadarCalEcho", "RadarCal")
               p == Row({"Avr"}, "ConfigAck", {}, "Done", <<>>)
               r == IF s.cfg.cal THEN q ELSE p
    <2>1. "WaitModeCommitAck" \in DOMAIN AvrConfigScript(s)
            /\ AvrConfigScript(s)["WaitModeCommitAck"] = {r}
      BY DEF AvrConfigScript
    <2>2. /\ q.srcs = {"Avr"} /\ q.msg = "ConfigAck" /\ q.to = "WaitRadarCalEcho"
          /\ q.send = <<Cmd("RadarCal", "Avr")>>
          /\ p.srcs = {"Avr"} /\ p.msg = "ConfigAck" /\ p.to = "Done"
      BY DEF Ask, Row
    <2>3. r = q \/ r = p OBVIOUS
    <2> HIDE DEF r, q, p
    <2>4. Requests([step |-> q.to], q.send) BY <1>1, <2>2 DEF Requests
    <2>5. r.to = "Done" \/ Requests([step |-> r.to], r.send) BY <2>2, <2>3, <2>4
    <2>6. r.srcs = {"Avr"} /\ r.msg = "ConfigAck" BY <2>2, <2>3
    <2> QED BY <1>0, <1>2, <1>7, <2>1, <2>5, <2>6
  <1>8. CASE s.step = "WaitRadarCalCommitAck"
    <2> DEFINE r == Row({"Avr"}, "ConfigAck", {}, "Done", <<>>)
    <2>1. "WaitRadarCalCommitAck" \in DOMAIN AvrConfigScript(s)
            /\ AvrConfigScript(s)["WaitRadarCalCommitAck"] = {r}
      BY DEF AvrConfigScript
    <2>2. r.srcs = {"Avr"} /\ r.msg = "ConfigAck" /\ r.to = "Done" BY DEF Row
    <2> HIDE DEF r
    <2> QED BY <1>0, <1>2, <1>8, <2>1, <2>2
  <1>9. CASE s.step = "WaitModeEcho"
    <2> DEFINE r == Ask("Avr", "ModeSet", {}, "WaitModeCommitAck", "Commit")
    <2>1. "WaitModeEcho" \in DOMAIN AvrConfigScript(s) /\ AvrConfigScript(s)["WaitModeEcho"] = {r}
      BY DEF AvrConfigScript
    <2>2. /\ r.srcs = {"Avr"} /\ r.msg = "ModeSet" /\ r.to = "WaitModeCommitAck"
          /\ r.send = <<Cmd("Commit", "Avr")>>
      BY DEF Ask, Row
    <2> HIDE DEF r
    <2>3. Requests([step |-> r.to], r.send) BY <1>1, <2>2 DEF Requests, ConfigAckSteps
    <2>4. Requests(Fed(s, e), Replies(s, e)) \/ (e.msg # "ModeSet" /\ Ignores(s, e))
      BY <1>0, <1>2, <1>9, <2>1, <2>2, <2>3
    <2> QED BY <1>9, <2>4 DEF ConfigAckSteps
  <1>10. CASE s.step = "WaitRadarCalEcho"
    <2> DEFINE r == Ask("Avr", "RadarCal", {}, "WaitRadarCalCommitAck", "Commit")
    <2>1. "WaitRadarCalEcho" \in DOMAIN AvrConfigScript(s)
            /\ AvrConfigScript(s)["WaitRadarCalEcho"] = {r}
      BY DEF AvrConfigScript
    <2>2. /\ r.srcs = {"Avr"} /\ r.msg = "RadarCal" /\ r.to = "WaitRadarCalCommitAck"
          /\ r.send = <<Cmd("Commit", "Avr")>>
      BY DEF Ask, Row
    <2> HIDE DEF r
    <2>3. Requests([step |-> r.to], r.send) BY <1>1, <2>2 DEF Requests, ConfigAckSteps
    <2>4. Requests(Fed(s, e), Replies(s, e)) \/ (e.msg # "RadarCal" /\ Ignores(s, e))
      BY <1>0, <1>2, <1>10, <2>1, <2>2, <2>3
    <2> QED BY <1>10, <2>4 DEF ConfigAckSteps
  <1> QED BY <1>4, <1>5, <1>6, <1>7, <1>8, <1>9, <1>10 DEF ConfigAckSteps

LEMMA ShotAnswers ==
  ASSUME NEW s \in Sequencer, s.kind = "Shot", NEW e, Sourced(e)
  PROVE  LET t == Fed(s, e)
             u == Replies(s, e)
         IN
         /\ s.step = "Draining" =>
              \/ t.step = "WaitingForClubResult" /\ AsksFor(u, "ShotResultReq")
              \/ e.msg # "IDLE" /\ t.step = "Draining" /\ u = <<>>
         /\ s.step = "Draining" =>
              /\ t.timer = s.timer \/ (t.timer = DrainTimeout /\ e.msg = "FlightResult")
              /\ "flight" \in t.got => "flight" \in s.got \/ t.timer # Unset
         /\ s.step = "WaitingForClubResult" =>
              \/ t.step = "WaitingForArmAck" /\ AsksFor(u, "Arm")
              \/ e.msg # "ClubResult" /\ Ignores(s, e)
         /\ s.step = "WaitingForArmAck" =>
              \/ t.step = "WaitingForArmed" /\ u = <<>>
              \/ e.msg # "ConfigAck" /\ Ignores(s, e)
         /\ s.step = "WaitingForArmed" =>
              t.step = "Done" \/ (e.msg # "ARMED" /\ Ignores(s, e))
  <1>0. \A x \in DOMAIN ShotScript : s.step = x => Rows(s) = ShotScript[x]
    <2>1. Script(s) = ShotScript BY DEF Script
    <2> QED BY <2>1 DEF Rows
  <1>1. /\ AsksFor(<<Cmd("ShotResultReq", "Avr")>>, "ShotResultReq")
        /\ AsksFor(<<Cmd("Arm", "Avr")>>, "Arm")
    BY OneCommand
  <1>2. ASSUME s.step = "WaitingForClubResult"
        PROVE  \/ Fed(s, e).step = "WaitingForArmAck" /\ AsksFor(Replies(s, e), "Arm")
               \/ e.msg # "ClubResult" /\ Ignores(s, e)
    <2> DEFINE r == Row(Buses, "ClubResult", {}, "WaitingForArmAck", <<Cmd("Arm", "Avr")>>)
    <2>1. "WaitingForClubResult" \in DOMAIN ShotScript /\ ShotScript["WaitingForClubResult"] = {r}
      BY DEF ShotScript
    <2>2. /\ r.srcs = Buses /\ r.msg = "ClubResult" /\ r.to = "WaitingForArmAck"
          /\ r.send = <<Cmd("Arm", "Avr")>>
      BY DEF Row
    <2> HIDE DEF r
    <2>3. Rows(s) = {r} BY <1>0, <1>2, <2>1
    <2>4. Follows(s, e, r) \/ (e.msg # r.msg /\ Ignores(s, e)) BY <2>2, <2>3, HeardOne DEF Sourced
    <2> QED BY <1>1, <2>2, <2>4 DEF Follows
  <1>3. ASSUME s.step = "WaitingForArmAck"
        PROVE  \/ Fed(s, e).step = "WaitingForArmed" /\ Replies(s, e) = <<>>
               \/ e.msg # "ConfigAck" /\ Ignores(s, e)
    <2> DEFINE r == Row({"Avr"}, "ConfigAck", {}, "WaitingForArmed", <<>>)
    <2>1. "WaitingForArmAck" \in DOMAIN ShotScript /\ ShotScript["WaitingForArmAck"] = {r}
      BY DEF ShotScript
    <2>2. /\ r.srcs = {"Avr"} /\ r.msg = "ConfigAck" /\ r.to = "WaitingForArmed"
          /\ r.send = <<>>
      BY DEF Row
    <2> HIDE DEF r
    <2>3. Rows(s) = {r} BY <1>0, <1>3, <2>1
    <2>4. Follows(s, e, r) \/ (e.msg # r.msg /\ Ignores(s, e)) BY <2>2, <2>3, HeardOne DEF Sourced
    <2> QED BY <2>2, <2>4 DEF Follows
  <1>4. ASSUME s.step = "WaitingForArmed"
        PROVE  Fed(s, e).step = "Done" \/ (e.msg # "ARMED" /\ Ignores(s, e))
    <2> DEFINE r == Row(Buses, "ARMED", {}, "Done", <<>>)
    <2>1. "WaitingForArmed" \in DOMAIN ShotScript /\ ShotScript["WaitingForArmed"] = {r}
      BY DEF ShotScript
    <2>2. r.srcs = Buses /\ r.msg = "ARMED" /\ r.to = "Done" BY DEF Row
    <2> HIDE DEF r
    <2>3. Rows(s) = {r} BY <1>0, <1>4, <2>1
    <2>4. Follows(s, e, r) \/ (e.msg # r.msg /\ Ignores(s, e)) BY <2>2, <2>3, HeardOne DEF Sourced
    <2> QED BY <2>2, <2>4 DEF Follows
  <1>5. ASSUME s.step = "Draining"
        PROVE  /\ \/ /\ Fed(s, e).step = "WaitingForClubResult"
                     /\ AsksFor(Replies(s, e), "ShotResultReq")
                  \/ e.msg # "IDLE" /\ Fed(s, e).step = "Draining" /\ Replies(s, e) = <<>>
               /\ \/ Fed(s, e).timer = s.timer
                  \/ Fed(s, e).timer = DrainTimeout /\ e.msg = "FlightResult"
               /\ "flight" \in Fed(s, e).got => "flight" \in s.got \/ Fed(s, e).timer # Unset
    <2> DEFINE i == Row(Buses, "IDLE", {}, "WaitingForClubResult", <<Cmd("ShotResultReq", "Avr")>>)
    <2>1. "Draining" \in DOMAIN ShotScript BY DEF ShotScript
    <2>2. /\ i.srcs = Buses /\ i.msg = "IDLE" /\ i.to = "WaitingForClubResult" /\ i.keep = {}
          /\ i.send = <<Cmd("ShotResultReq", "Avr")>>
      BY DEF Row
    <2>3. \A m, x : /\ Drain(m, x).srcs = Buses /\ Drain(m, x).msg = m /\ Drain(m, x).keep = {x}
                    /\ Drain(m, x).to = "Draining" /\ Drain(m, x).send = <<>>
      BY DEF Drain, Row
    <2>4. /\ i \in ShotScript["Draining"]
          /\ \A r \in ShotScript["Draining"] :
               \/ r = i
               \/ /\ r.srcs = Buses /\ r.to = "Draining" /\ r.send = <<>> /\ r.msg # "IDLE"
                  /\ "flight" \in r.keep => r.msg = "FlightResult"
      <3> DEFINE D == ShotScript["Draining"]
      <3>1. D = {i, Drain("FlightResult", "flight"), Drain("ClubResult", "club"),
                 Drain("SpinResult", "spin"), Drain("SpeedProfile", "speed_profile"),
                 Drain("PrcData", "prc"), Drain("ClubPrc", "club_prc")}
        BY DEF ShotScript
      <3> HIDE DEF D, i
      <3> QED BY <2>3, <3>1 DEF D
    <2> HIDE DEF i
    <2>5. Rows(s) = ShotScript["Draining"] BY <1>0, <1>5, <2>1
    <2>6. \A r \in Rows(s) : e.src \in r.srcs BY <2>2, <2>4, <2>5 DEF Sourced
    <2>7. \/ (\A r \in Rows(s) : e.msg # r.msg) /\ Ignores(s, e)
          \/ \E r \in Rows(s) : e.msg = r.msg /\ Follows(s, e, r)
      BY <2>6, Heard
    <2>8. CASE (\A r \in Rows(s) : e.msg # r.msg) /\ Ignores(s, e)
      BY <1>5, <2>2, <2>4, <2>5, <2>8 DEF Ignores
    <2>9. ASSUME NEW r \in Rows(s), e.msg = r.msg, Follows(s, e, r)
          PROVE  /\ \/ /\ Fed(s, e).step = "WaitingForClubResult"
                       /\ AsksFor(Replies(s, e), "ShotResultReq")
                    \/ e.msg # "IDLE" /\ Fed(s, e).step = "Draining" /\ Replies(s, e) = <<>>
                 /\ \/ Fed(s, e).timer = s.timer
                    \/ Fed(s, e).timer = DrainTimeout /\ e.msg = "FlightResult"
                 /\ "flight" \in Fed(s, e).got => "flight" \in s.got \/ Fed(s, e).timer # Unset
      <3>1. /\ Fed(s, e).timer = TimerAfter(s, r) /\ Fed(s, e).got = s.got \cup r.keep
            /\ Fed(s, e).step = r.to /\ Replies(s, e) = r.send
        BY <2>9 DEF Follows
      <3>2. \/ r.msg = "FlightResult" /\ s.timer = Unset /\ TimerAfter(s, r) = DrainTimeout
            \/ ~(r.msg = "FlightResult" /\ s.timer = Unset) /\ TimerAfter(s, r) = s.timer
        BY DEF TimerAfter
      <3>3. DrainTimeout # Unset BY TimeoutAssumption DEF Unset
      <3>4. "flight" \in r.keep => r.msg = "FlightResult" BY <2>2, <2>4, <2>5
      <3>5. \/ Fed(s, e).timer = s.timer
            \/ Fed(s, e).timer = DrainTimeout /\ e.msg = "FlightResult"
        BY <2>9, <3>1, <3>2
      <3>6. "flight" \in Fed(s, e).got => "flight" \in s.got \/ Fed(s, e).timer # Unset
        BY <3>1, <3>2, <3>3, <3>4
      <3>7. \/ r = i
            \/ r.to = "Draining" /\ r.send = <<>> /\ r.msg # "IDLE"
        BY <2>4, <2>5
      <3>8. \/ /\ Fed(s, e).step = "WaitingForClubResult"
               /\ AsksFor(Replies(s, e), "ShotResultReq")
            \/ e.msg # "IDLE" /\ Fed(s, e).step = "Draining" /\ Replies(s, e) = <<>>
        BY <1>1, <2>2, <2>9, <3>1, <3>7
      <3> QED BY <3>5, <3>6, <3>8
    <2> QED BY <2>7, <2>8, <2>9
  <1> QED BY <1>2, <1>3, <1>4, <1>5

=============================================================================
