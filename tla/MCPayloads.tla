------------------------------ MODULE MCPayloads ------------------------------
(***************************************************************************)
(* Values of Payloads' constants for TLC.                                  *)
(***************************************************************************)
EXTENDS Payloads

\* Zeros behind a first byte and, in the fourth, a count.
Payload(n, first, count) ==
  [i \in 1..n |-> CASE i = 1 -> first [] i = 4 -> count [] OTHER -> 0]

MaxLength == 190

\* First bytes and counts that some decode() looks at.
Formats ==
  [STATUS |-> {0, 128}, PARAM_VALUE |-> {0, 6, 8}, CAM_IMAGE_AVAIL |-> {0, 66},
   PRC_DATA |-> {0, 3, 63, 123, 183}, CLUB_PRC |-> {0, 75, 76, 152, 255}]
Counts == [PRC_DATA |-> {0, 1, 2, 3, 255}]

Types ==
  {"STATUS", "CONFIG_ACK", "CONFIG_NACK", "MODE_ACK", "TEXT", "MODE_SET", "PARAM_VALUE", "RADAR_CAL",
   "CONFIG_RESP", "AVR_CONFIG_RESP", "DSP_QUERY_RESP", "DEV_INFO_RESP", "PROD_INFO", "NET_CONFIG",
   "CAL_PARAM_RESP", "CAL_DATA_RESP", "TIME_SYNC", "CAM_STATE", "CAM_CONFIG", "CAM_IMAGE_AVAIL",
   "SENSOR_ACT_RESP", "WIFI_SCAN", "FLIGHT_RESULT", "FLIGHT_RESULT_V1", "CLUB_RESULT", "SPIN_RESULT",
   "SPEED_PROFILE", "TRACKING_STATUS", "PRC_DATA", "CLUB_PRC", "SHOT_TEXT", "DSP_DEBUG", "OTHER"}

\* One frame of each type, format, count and length; texts with control
\* characters anywhere.
MCFrames ==
  UNION {[type: {t}, src: IF t = "STATUS" THEN {"App", "Pi", "Avr", "Dsp"} ELSE {"Avr"},
          payload: {Payload(n, first, count) :
                      n \in 0..MaxLength,
                      first \in IF t \in DOMAIN Formats THEN Formats[t] ELSE {0},
                      count \in IF t \in DOMAIN Counts THEN Counts[t] ELSE {0}}] : t \in Types}
    \cup [type: {"TEXT", "SHOT_TEXT"}, src: {"Avr"},
          payload: UNION {[1..n -> {0, 31, 32}] : n \in 0..4}]

Bytes == {0, 1, 128, 255}
Int16s == {-32768, -1, 0, 1, 32767}
Int24s == {-8388608, -8388607, -1, 0, 1, 8388607}
Halves == {0, 1, 32768, 65535}

MCFloats ==
  {Zero} \cup [neg: BOOLEAN, exp: {1, 1022, 1023, 2046}, mant: {0, 1, 4194303}, low: BOOLEAN]

\* A CamConfig whose numbers are all n and whose floats are all x.
CamConfigOf(b, n, x) ==
  [i \in DOMAIN CamConfigKinds |->
     CASE CamConfigKinds[i] = "bool" -> b
       [] CamConfigKinds[i] = "u8" -> i
       [] CamConfigKinds[i] = "int16" -> n + i
       [] CamConfigKinds[i] = "float40" -> x]

Cmds(cmd, vals) == [cmd: {cmd}, val: vals]

MCCommands ==
  UNION {Cmds(c, {<<b>> : b \in BOOLEAN}) : c \in {"StatusPoll", "AvrConfigCmd", "NetConfigReq"}}
    \cup UNION {Cmds(c, {<<n>> : n \in Bytes}) : c \in {"ModeSet", "ParamReadReq", "ProdInfoReq", "CamState"}}
    \cup Cmds("ParamValue(INT24)", Bytes \X Int24s)
    \cup Cmds("ParamValue(FLOAT40)", Bytes \X MCFloats)
    \cup Cmds("RadarCal", Halves \X Bytes)
    \cup Cmds("CalDataReq", {<<3, FactoryCal>>, <<7, PostShotDump>>})
    \cup Cmds("TimeSync", (Halves \X Halves) \X Bytes \X Bytes \X Bytes)
    \cup Cmds("CamConfig", {CamConfigOf(b, n, x) : b \in BOOLEAN, n \in {-100, 0, 100}, x \in MCFloats})

=============================================================================
