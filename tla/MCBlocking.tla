----------------------------- MODULE MCBlocking -----------------------------
(***************************************************************************)
(* Values of Blocking's constants for TLC.                                 *)
(***************************************************************************)
EXTENDS Blocking

MCSettings == {NoSettings, [params |-> 1, cal |-> TRUE]}
MCNoSettings == {NoSettings}

From(bus, msgs) == [src: {bus}, msg: msgs]

\* Every answer some call awaits, from its own bus, noise that is skipped,
\* and an answer nobody has asked for.
MCAnswers ==
  From("Dsp", {"DspStatus", "DspQueryResp", "DevInfoResp", "ProdInfoResp", "ConfigResp",
               "DspDebug"})
    \cup From("Avr", {"AvrStatus", "DevInfoResp", "ParamValue", "ConfigResp", "CalDataResp",
                      "CalParamResp", "AvrConfigResp", "TimeSync", "ConfigAck", "ModeSet",
                      "RadarCal", "ARMED", "IDLE", "FlightResult", "ClubResult"})
    \cup From("Pi", {"PiStatus", "DevInfoResp", "ParamValue", "CamConfig", "NetConfigResp",
                     "ConfigAck"})

\* A shot and nothing else.
MCShot == From("Avr", {"ConfigAck", "ARMED", "IDLE", "FlightResult", "ClubResult"})

=============================================================================
