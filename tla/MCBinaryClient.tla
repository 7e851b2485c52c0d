--------------------------- MODULE MCBinaryClient ---------------------------
(***************************************************************************)
(* Values of BinaryClient's constants for TLC.                             *)
(***************************************************************************)
EXTENDS BinaryClient

\* One parameter and a calibration, or a mode change with neither.
MCSettings == {[params |-> 0, cal |-> FALSE], [params |-> 2, cal |-> TRUE]}
MCCallSettings == {[params |-> 2, cal |-> TRUE]}
MCOneSetting == {[params |-> 1, cal |-> FALSE]}

From(bus, msgs) == [src: {bus}, msg: msgs]

\* Arming, shots, re-arming and keepalives.
MCShotEnvelopes ==
  From("Dsp", {"DspStatus"}) \cup From("Pi", {"PiStatus"})
    \cup From("Avr", {"AvrStatus", "ConfigAck", "ConfigNack", "ARMED", "BALL TRIGGER",
                      "PROCESSED", "IDLE", "FlightResult", "ClubResult", "FlightResultV1"})

\* The same with what a disarm and a configuration react to.
MCReconfigureEnvelopes ==
  From("Dsp", {"DspStatus", "System State"}) \cup From("Pi", {"PiStatus"})
    \cup From("Avr", {"AvrStatus", "ConfigAck", "ModeSet", "RadarCal", "ARMED",
                      "ModeAck", "ARMED CANCELLED", "PROCESSED", "BALL TRIGGER"})

\* What the liveness properties turn on: every operation but the handshake
\* and its way out, a shot, and keepalives that are answered or not.
MCLiveEnvelopes ==
  From("Dsp", {"DspStatus"}) \cup From("Pi", {"PiStatus"})
    \cup From("Avr", {"AvrStatus", "ConfigAck", "ARMED", "BALL TRIGGER", "PROCESSED",
                      "IDLE", "ClubResult"})

\* Every answer of the handshake and of the two configurations, from its own
\* bus, answers of the same type from another one, and whole shots, of whose
\* data the flight result is the one that matters.
MCCallEnvelopes ==
  (MCShotEnvelopes \ From("Avr", {"FlightResultV1", "ClubResult"}))
    \cup From("Dsp", {"DspStatus6", "DspQueryResp", "DevInfoResp", "ProdInfoResp", "ConfigResp"})
    \cup From("Avr", {"DevInfoResp", "ParamValue", "ConfigResp", "CalDataResp", "CalParamResp",
                      "AvrConfigResp", "TimeSync", "ModeAck", "ModeSet"})
    \cup From("Pi", {"DevInfoResp", "ParamValue", "CamConfig", "NetConfigResp", "ConfigAck",
                     "CamState"})

=============================================================================
