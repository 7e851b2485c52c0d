------------------------------- MODULE Payloads -------------------------------
(***************************************************************************)
(* The payloads of src/protocol/*.rs: what each decode() checks and which  *)
(* bytes it reads as what, what each encode() writes, and the dispatch of  *)
(* Message::decode and Command::encode.  Scale factors are left out: a     *)
(* field is the number on the wire.                                        *)
(*                                                                         *)
(* A decoder is the length it demands and the fields it reads, in order.   *)
(* A read through src/codec.rs fails beyond the end of the payload; an     *)
(* index or a slice panics there.                                          *)
(***************************************************************************)
EXTENDS Codec, SequencesExt

CONSTANTS Frames,    \* the frames a device may send: [type, src, payload]
          Commands   \* the commands a client may send: [cmd, val]

VARIABLES
  frame,   \* the last frame received
  sent,    \* the last command sent
  result   \* what decode() makes of the one or the other

vars == <<frame, sent, result>>

-----------------------------------------------------------------------------
(* Fields.                                                                 *)

Field(kind, at, width, is) == [kind |-> kind, at |-> at, width |-> width, is |-> is]

U8(at) == Field("u8", at, 1, 0)
Flag(at, is) == Field("flag", at, 1, is)     \* payload[at] == is
NonZero(at) == Field("nonzero", at, 1, 0)    \* payload[at] != 0
Slice(at, width) == Field("slice", at, width, 0)
I16(at) == Field("int16", at, 2, 0)
U16(at) == Field("uint16", at, 2, 0)
I24(at) == Field("int24", at, 3, 0)
U24(at) == Field("uint24", at, 3, 0)
U32(at) == Field("uint32", at, 4, 0)
F40(at) == Field("float40", at, 5, 0)

I16s(at, n) == [i \in 1..n |-> I16(at + 2 * (i - 1))]
I24s(at, n) == [i \in 1..n |-> I24(at + 3 * (i - 1))]
Shifted(f, by) == [f EXCEPT !.at = @ + by]

\* n copies of a record, stride bytes apart.
Records(record, at, stride, n) ==
  [i \in 1..(n * Len(record)) |->
     Shifted(record[((i - 1) % Len(record)) + 1], at + stride * ((i - 1) \div Len(record)))]

\* The records before the first that does not fit, of those announced.
\* Faulty variant: a record that ends with the payload is taken for cut.
FittingShort(announced, from, stride, p) ==
  Cardinality({i \in 1..announced : from + stride * i < Len(p)})
Fitting(announced, from, stride, p) ==
  Cardinality({i \in 1..announced : from + stride * i <= Len(p)})

Checked == {"int16", "uint16", "int24", "uint24", "uint32", "float40"}

Value(p, f) ==
  CASE f.kind = "u8" -> ByteAt(p, f.at)
    [] f.kind = "flag" -> ByteAt(p, f.at) = f.is
    [] f.kind = "nonzero" -> ByteAt(p, f.at) # 0
    [] f.kind = "slice" -> SubSeq(p, f.at + 1, f.at + f.width)
    [] f.kind = "int16" -> ReadInt16(p, f.at)
    [] f.kind = "uint16" -> ReadUint16(p, f.at)
    [] f.kind = "int24" -> ReadInt24(p, f.at)
    [] f.kind = "uint24" -> ReadUint24(p, f.at)
    [] f.kind = "uint32" -> ReadUint32(p, f.at)
    [] f.kind = "float40" -> ReadFloat40(p, f.at)

Outcome(msg) == [msg |-> msg, fields |-> <<>>, val |-> <<>>]
Refused == Outcome("Err")
Panic == Outcome("panic")

\* The common shape of decode(): a guard on the length, then the reads.
Decoded(msg, need, fields, p) ==
  LET Beyond(f) == ~Fits(p, f.at, f.width)
      first == SelectInSeq(fields, Beyond)
  IN IF Len(p) < need THEN Refused
     ELSE IF first = 0
     THEN [msg |-> msg, fields |-> fields, val |-> [i \in DOMAIN fields |-> Value(p, fields[i])]]
     ELSE IF fields[first].kind \in Checked THEN Refused ELSE Panic

Raw(msg, p) == Decoded(msg, 0, <<Slice(0, Len(p))>>, p)

-----------------------------------------------------------------------------
(* status.rs                                                               *)

StatusPoll(p) == Decoded("StatusPoll", 2, <<Flag(1, 3)>>, p)

AvrStatus(p) ==
  Decoded("AvrStatus", 25, <<U8(0), U8(1), U8(2), U8(5), I24(8), F40(10), F40(15), F40(20)>>, p)

DspStatus80(p) ==
  Decoded("DspStatus80", 64,
          <<U8(1), I16(4), I16(8), I16(18), I16(40), I16(53), I16(57), I16(61), NonZero(63)>>, p)

\* Faulty variant: the version byte alone chooses the format.
DspStatusUnguarded(p) ==
  IF p # <<>> /\ ByteAt(p, 0) = 128 THEN DspStatus80(p)
  ELSE Decoded("DspStatus46", 0, <<U8(1), U8(0), Slice(0, Len(p))>>, p)
DspStatus(p) ==
  IF Len(p) < 2 THEN Refused
  ELSE IF ByteAt(p, 0) = 128 THEN DspStatus80(p)
  ELSE Decoded("DspStatus46", 0, <<U8(1), U8(0), Slice(0, Len(p))>>, p)

ConfigAck(msg, p) == Decoded(msg, 3, <<U8(1), U8(2)>>, p)
ModeAck(p) == Decoded("ModeAck", 3, <<>>, p)

\* Text and ShotText: control characters are stripped at both ends.
Printable(b) == b >= 32
Stripped(msg, p) ==
  LET end == SelectLastInSeq(p, Printable)
      first == SelectInSeq(SubSeq(p, 1, end), Printable)
      start == IF first = 0 THEN 0 ELSE first - 1
  IN IF start > end THEN Panic ELSE Decoded(msg, 0, <<Slice(start, end - start)>>, p)

-----------------------------------------------------------------------------
(* config.rs                                                               *)

ModeSet(p) == Decoded("ModeSet", 3, <<U8(2)>>, p)
AvrConfigCmd(p) == Decoded("AvrConfigCmd", 2, <<Flag(1, 1)>>, p)
ParamReadReq(p) == Decoded("ParamReadReq", 4, <<U8(3)>>, p)

ParamValue(p) ==
  IF p = <<>> THEN Refused
  ELSE CASE ByteAt(p, 0) = 6 -> Decoded("ParamValue(INT24)", 7, <<U8(3), I24(4)>>, p)
         [] ByteAt(p, 0) = 8 -> Decoded("ParamValue(FLOAT40)", 9, <<U8(3), F40(4)>>, p)
         [] OTHER -> Refused

RadarCal(p) == Decoded("RadarCal", 7, <<U16(1), U8(4)>>, p)
ConfigResp(p) == Decoded("ConfigResp", 69, I16s(1, 34), p)

-----------------------------------------------------------------------------
(* handshake.rs.  A text slot is its bytes up to the first 0.              *)

Null(b) == b = 0
Cstr(slot) ==
  LET end == SelectInSeq(slot, Null) IN IF end = 0 THEN slot ELSE SubSeq(slot, 1, end - 1)

\* Those of n slots that lie in the payload.
SlotsIn(msg, from, n, p) == Decoded(msg, 0, Records(<<Slice(0, 16)>>, from, 16, Fitting(n, from, 16, p)), p)

DspQueryResp(p) == Decoded("DspQueryResp", 3, <<U8(0), U8(1), U8(2)>>, p)

DevInfoResp(p) == SlotsIn("DevInfoResp", IF Len(p) >= 76 THEN 28 ELSE 27, 3, p)

ProdInfoReq(p) == Decoded("ProdInfoReq", 2, <<U8(1)>>, p)
ProdInfoResp(p) == Decoded("ProdInfoResp", 0, <<Slice(0, Len(Cstr(p)))>>, p)
NetConfigReq(p) == Decoded("NetConfigReq", 2, <<Flag(1, 8)>>, p)
NetConfigResp(p) == SlotsIn("NetConfigResp", 21, 2, p)
CalDataReq(p) == Decoded("CalDataReq", 4, <<U8(3), Slice(0, Len(p))>>, p)
TimeSync(p) == Decoded("TimeSync", 9, <<U32(2), U8(6), U8(7), U8(8)>>, p)

-----------------------------------------------------------------------------
(* camera.rs                                                               *)

CamState(p) == Decoded("CamState", 2, <<U8(1)>>, p)

CamConfig(p) ==
  Decoded("CamConfig", 52,
          <<NonZero(1), I16(2), I16(4), I16(6), I16(8), U8(10), U8(11), U8(12), I16(13), I16(15),
            U8(17), NonZero(18), F40(19), I16(24), I16(26), I16(28), I16(30), I16(32), NonZero(34),
            I16(35), I16(37), I16(39), I16(41), F40(43), I16(48), I16(50)>>, p)

CamImageAvail(p) ==
  IF p = <<>> THEN Refused
  ELSE IF ByteAt(p, 0) = 66
  THEN Decoded("CamImageAvail", 67, <<U8(1), U8(2), Slice(3, 32), Slice(35, 32)>>, p)
  ELSE Decoded("CamImageAvail", 0, IF Len(p) > 1 THEN <<U8(1)>> ELSE <<>>, p)

-----------------------------------------------------------------------------
(* shot.rs                                                                 *)

FlightResult(p) == Decoded("FlightResult", 157, <<I24(109)>> \o I24s(112, 15) \o I24s(1, 36), p)
FlightResultV1(p) == Decoded("FlightResultV1", 94, <<I24(46)>> \o I24s(49, 15) \o I24s(1, 15), p)

ClubResult(p) ==
  Decoded("ClubResult", 167,
          <<I24(47)>> \o I24s(50, 36) \o <<U8(1)>> \o I24s(2, 15) \o I24s(158, 3), p)

AntennaElement == <<I16(0), I24(2), I16(5)>>

\* Faulty variant: what follows the flags starts one byte early.
SpinResultShifted(p) ==
  Decoded("SpinResult", 138,
          <<U8(0)>> \o Records(AntennaElement, 1, 7, 15) \o I16s(106, 8)
            \o <<U8(122), I24(123)>> \o I16s(125, 6), p)
SpinResult(p) ==
  Decoded("SpinResult", 138,
          <<U8(0)>> \o Records(AntennaElement, 1, 7, 15) \o I16s(106, 8)
            \o <<U8(122), I24(123)>> \o I16s(126, 6), p)

\* A payload shorter than the header is a stub.
SpeedProfile(p) ==
  IF Len(p) < 12 THEN Decoded("SpeedProfile", 0, IF Len(p) > 1 THEN <<U8(1)>> ELSE <<>>, p)
  ELSE Decoded("SpeedProfile", 12,
               <<U8(1), U8(2), U8(3), I24(4), F40(7)>> \o I16s(12, (Len(p) - 12) \div 2), p)

TrackingStatus(p) ==
  Decoded("TrackingStatus", 82,
          <<U8(1), U8(2), U24(22), U24(25), U24(28), U24(32), U24(35), U16(38), U8(47), U8(48),
            U8(51), U8(54), U16(56), U8(59), U16(62), I24(67), I24(70), I24(73), I24(76), U16(80)>>, p)

PrcPoint ==
  I24s(42, 6) \o <<I16(0), I16(2), I24(4), I16(7), U8(9), I24(10), I24(13), I16(16), I16(18), I24(20),
                   I24(23), I24(26), I24(29)>> \o I16s(32, 5)

\* Records of a version other than 4 are left out.
PrcData(p) ==
  LET header == ByteAt(p, 0)
      points == IF header >= 3 /\ (header - 3) % 60 = 0
                THEN Records(PrcPoint, 4, 60, Fitting(ByteAt(p, 3), 4, 60, p)) ELSE <<>>
  IN IF Len(p) < 4 THEN Refused ELSE Decoded("PrcData", 4, <<U8(0), I16(1), U8(3)>> \o points, p)

ClubPrcPoint ==
  I24s(58, 6) \o <<I16(0), I16(2), I16(4), I24(6), I16(9), I24(11), I24(14), I16(17), I16(19)>>
    \o I24s(21, 5) \o <<U8(38), I24(39), I24(42), I24(45)>> \o I16s(48, 5)

ClubPrc(p) ==
  IF p = <<>> THEN Decoded("ClubPrc", 0, <<>>, p)
  ELSE Decoded("ClubPrc", 1,
               <<U8(0)>> \o Records(ClubPrcPoint, 1, 76, Fitting(ByteAt(p, 0) \div 76, 1, 76, p)), p)

-----------------------------------------------------------------------------
(* Message::decode.  A type is named after its constant TYPE_*.            *)

Status(src, p) ==
  CASE src = "Avr" -> AvrStatus(p)
    [] src = "Dsp" -> DspStatus(p)
    [] src = "Pi" -> Raw("PiStatus", p)
    [] src = "App" -> Raw("Unknown", p)

DecodeMessage(f) ==
  LET p == f.payload IN
  CASE f.type = "STATUS" -> Status(f.src, p)
    [] f.type = "CONFIG_ACK" -> ConfigAck("ConfigAck", p)
    [] f.type = "CONFIG_NACK" -> ConfigAck("ConfigNack", p)
    [] f.type = "MODE_ACK" -> ModeAck(p)
    [] f.type = "TEXT" -> Stripped("Text", p)
    [] f.type = "MODE_SET" -> ModeSet(p)
    [] f.type = "PARAM_VALUE" -> ParamValue(p)
    [] f.type = "RADAR_CAL" -> RadarCal(p)
    [] f.type = "CONFIG_RESP" -> ConfigResp(p)
    [] f.type = "AVR_CONFIG_RESP" -> Raw("AvrConfigResp", p)
    [] f.type = "DSP_QUERY_RESP" -> DspQueryResp(p)
    [] f.type = "DEV_INFO_RESP" -> DevInfoResp(p)
    [] f.type = "PROD_INFO" -> ProdInfoResp(p)
    [] f.type = "NET_CONFIG" -> NetConfigResp(p)
    [] f.type = "CAL_PARAM_RESP" -> Raw("CalParamResp", p)
    [] f.type = "CAL_DATA_RESP" -> Raw("CalDataResp", p)
    [] f.type = "TIME_SYNC" -> TimeSync(p)
    [] f.type = "CAM_STATE" -> CamState(p)
    [] f.type = "CAM_CONFIG" -> CamConfig(p)
    [] f.type = "CAM_IMAGE_AVAIL" -> CamImageAvail(p)
    [] f.type = "SENSOR_ACT_RESP" -> Raw("SensorActResp", p)
    [] f.type = "WIFI_SCAN" -> Raw("WifiScan", p)
    [] f.type = "FLIGHT_RESULT" -> FlightResult(p)
    [] f.type = "FLIGHT_RESULT_V1" -> FlightResultV1(p)
    [] f.type = "CLUB_RESULT" -> ClubResult(p)
    [] f.type = "SPIN_RESULT" -> SpinResult(p)
    [] f.type = "SPEED_PROFILE" -> SpeedProfile(p)
    [] f.type = "TRACKING_STATUS" -> TrackingStatus(p)
    [] f.type = "PRC_DATA" -> PrcData(p)
    [] f.type = "CLUB_PRC" -> ClubPrc(p)
    [] f.type = "SHOT_TEXT" -> Stripped("ShotText", p)
    [] f.type = "DSP_DEBUG" -> Raw("DspDebug", p)
    [] OTHER -> Raw("Unknown", p)

-----------------------------------------------------------------------------
(* encode().  A command's val is what its decode() returns.                *)

Bool(b) == <<IF b THEN 1 ELSE 0>>

\* CamConfig: the fields one behind the other, in the order of the struct.
CamConfigKinds ==
  <<"bool", "int16", "int16", "int16", "int16", "u8", "u8", "u8", "int16", "int16",
    "u8", "bool", "float40", "int16", "int16", "int16", "int16", "int16", "bool",
    "int16", "int16", "int16", "int16", "float40", "int16", "int16">>

Written(kind, x) ==
  CASE kind = "bool" -> Bool(x)
    [] kind = "u8" -> <<x>>
    [] kind = "int16" -> Write16(x)
    [] kind = "float40" -> WriteFloat40(x)

EncodeCamConfig(val) ==
  <<51>> \o FlattenSeq([i \in DOMAIN CamConfigKinds |-> Written(CamConfigKinds[i], val[i])])

Body(c) ==
  CASE c.cmd = "StatusPoll" -> <<1, IF c.val[1] THEN 3 ELSE 1>>
    [] c.cmd = "ModeSet" -> <<2, 0, c.val[1]>>
    [] c.cmd = "AvrConfigCmd" -> <<1>> \o Bool(c.val[1])
    [] c.cmd = "ParamReadReq" -> <<3, 0, 0, c.val[1]>>
    [] c.cmd = "ParamValue(INT24)" -> <<6, 0, 0, c.val[1]>> \o Write24(c.val[2])
    [] c.cmd = "ParamValue(FLOAT40)" -> <<8, 0, 0, c.val[1]>> \o WriteFloat40(c.val[2])
    [] c.cmd = "RadarCal" -> <<6>> \o Write16(c.val[1]) \o <<0, c.val[2], 0, 0>>
    [] c.cmd = "ProdInfoReq" -> <<1, c.val[1]>>
    [] c.cmd = "NetConfigReq" -> <<1, IF c.val[1] THEN 8 ELSE 0>>
    [] c.cmd = "CalDataReq" -> c.val[2]
    [] c.cmd = "TimeSync" -> <<8, 0>> \o Write32(c.val[1]) \o <<c.val[2], c.val[3], c.val[4]>>
    [] c.cmd = "CamState" -> <<1, c.val[1]>>
    [] c.cmd = "CamConfig" -> EncodeCamConfig(c.val)

\* CalDataReq::encode_factory() and encode_post_shot().
FactoryCal == <<9, 0, 0, 3, 0, 0, 0, 0, 0, 165>>
PostShotDump == <<9, 0, 0, 7, 0, 0, 0, 0, 0, 0>>

\* Command::encode: the commands the device sends back, as what.
EchoType ==
  [c \in {"ModeSet", "ParamValue(INT24)", "ParamValue(FLOAT40)", "RadarCal", "TimeSync", "CamState", "CamConfig"} |->
     CASE c = "ModeSet" -> "MODE_SET"
       [] c \in {"ParamValue(INT24)", "ParamValue(FLOAT40)"} -> "PARAM_VALUE"
       [] c = "RadarCal" -> "RADAR_CAL"
       [] c = "TimeSync" -> "TIME_SYNC"
       [] c = "CamState" -> "CAM_STATE"
       [] c = "CamConfig" -> "CAM_CONFIG"]

\* What the types of the structs admit, of floats those that Codec models and
\* of the i32 of a parameter the numbers of 24 bits.
Float(x) == x = Zero \/ Normal(x)

OfKind(kind, x) ==
  \/ kind = "bool" /\ x \in BOOLEAN
  \/ kind = "u8" /\ x \in Byte
  \/ kind = "int16" /\ Fits16(x)
  \/ kind = "float40" /\ Float(x)

OfCommand(c) ==
  \/ c.cmd \in {"StatusPoll", "AvrConfigCmd", "NetConfigReq"} /\ \E b \in BOOLEAN : c.val = <<b>>
  \/ c.cmd \in {"ModeSet", "ParamReadReq", "ProdInfoReq", "CamState"} /\ \E n \in Byte : c.val = <<n>>
  \/ c.cmd = "ParamValue(INT24)" /\ c.val = <<c.val[1], c.val[2]>> /\ c.val[1] \in Byte /\ Fits24(c.val[2])
  \/ c.cmd = "ParamValue(FLOAT40)" /\ c.val = <<c.val[1], c.val[2]>> /\ c.val[1] \in Byte /\ Float(c.val[2])
  \/ c.cmd = "RadarCal" /\ c.val = <<c.val[1], c.val[2]>> /\ FitsU16(c.val[1]) /\ c.val[2] \in Byte
  \/ c.cmd = "CalDataReq" /\ c.val \in {<<3, FactoryCal>>, <<7, PostShotDump>>}
  \/ /\ c.cmd = "TimeSync" /\ c.val = <<<<c.val[1][1], c.val[1][2]>>, c.val[2], c.val[3], c.val[4]>>
     /\ FitsU16(c.val[1][1]) /\ FitsU16(c.val[1][2])
     /\ c.val[2] \in Byte /\ c.val[3] \in Byte /\ c.val[4] \in Byte
  \/ /\ c.cmd = "CamConfig" /\ DOMAIN c.val = DOMAIN CamConfigKinds
     /\ \A i \in DOMAIN CamConfigKinds : OfKind(CamConfigKinds[i], c.val[i])

\* A payload is any sequence of bytes: frame.rs checks no more than its sum.
ASSUME PayloadsAssumption ==
  /\ \A f \in Frames : f.payload \in Seq(Byte) /\ f.src \in {"Avr", "Dsp", "Pi", "App"}
  /\ \A c \in Commands : OfCommand(c)

\* The decode() of the struct the command wraps.
DecodeCommand(c, p) ==
  CASE c.cmd = "StatusPoll" -> StatusPoll(p)
    [] c.cmd = "AvrConfigCmd" -> AvrConfigCmd(p)
    [] c.cmd = "ParamReadReq" -> ParamReadReq(p)
    [] c.cmd = "ProdInfoReq" -> ProdInfoReq(p)
    [] c.cmd = "NetConfigReq" -> NetConfigReq(p)
    [] c.cmd = "CalDataReq" -> CalDataReq(p)
    [] OTHER -> DecodeMessage([type |-> EchoType[c.cmd], src |-> "Avr", payload |-> p])

-----------------------------------------------------------------------------

NoFrame == [type |-> "none", src |-> "App", payload |-> <<>>]
NoCommand == [cmd |-> "none", val |-> <<>>]
Idle == frame = NoFrame /\ sent = NoCommand

Init == Idle /\ result = Outcome("none")

\* The device sends a frame.
Receive ==
  /\ Idle
  /\ frame' \in Frames
  /\ result' = DecodeMessage(frame')
  /\ UNCHANGED sent

\* The client sends a command, which the peer decodes or sends back.
Send ==
  /\ Idle
  /\ sent' \in Commands
  /\ result' = DecodeCommand(sent', Body(sent'))
  /\ UNCHANGED frame

\* Nothing is kept between two payloads.
Forget == ~Idle /\ frame' = NoFrame /\ sent' = NoCommand /\ result' = Outcome("none")

Next == Receive \/ Send \/ Forget

Spec == Init /\ [][Next]_vars

-----------------------------------------------------------------------------
(* Properties.                                                             *)

\* No payload, of whatever length and whatever it claims to hold, makes a
\* decode() index behind its end: the guards cover the unchecked reads.
NeverPanics == result.msg # "panic"

\* No byte is read into two fields: an offset mistyped among three hundred
\* would show here.  Byte 10 of the AVR status is, where WIRE.md has the
\* identifier overlap the temperature; two messages keep the payload as well.
Overlap(f, g) == f.at < g.at + g.width /\ g.at < f.at + f.width
ReadsOnce ==
  result.msg \notin {"DspStatus46", "CalDataReq"} =>
    \A i, j \in DOMAIN result.fields :
      LET f == result.fields[i]
          g == result.fields[j]
      IN i < j /\ Overlap(f, g) => result.msg = "AvrStatus" /\ f = I24(8) /\ g = F40(10)

\* The payloads WIRE.md describes: length and number of fields of each type.
Documented(f) ==
  LET n == Len(f.payload)
      points == ByteAt(f.payload, 3)
      pages == ByteAt(f.payload, 0) \div 76
  IN CASE f.type = "FLIGHT_RESULT" /\ n = 158 -> 52
       [] f.type = "FLIGHT_RESULT_V1" /\ n = 94 -> 31
       [] f.type = "CLUB_RESULT" /\ n \in 167..172 -> 56
       [] f.type = "SPIN_RESULT" /\ n = 138 -> 62
       [] f.type = "SPEED_PROFILE" /\ n = 172 -> 85
       [] f.type = "TRACKING_STATUS" /\ n = 82 -> 20
       [] f.type = "PRC_DATA" /\ n >= 4 /\ n = 4 + 60 * points /\ ByteAt(f.payload, 0) = 3 + 60 * points ->
            3 + 24 * points
       [] f.type = "CLUB_PRC" /\ n >= 1 /\ n = 1 + 76 * pages -> 1 + 29 * pages
       [] f.type = "DEV_INFO_RESP" /\ n \in {75, 76} -> 3
       [] f.type = "NET_CONFIG" /\ n = 54 -> 2
       [] f.type = "STATUS" /\ f.src = "Avr" /\ n = 25 -> 8
       [] f.type = "STATUS" /\ f.src = "Dsp" /\ n = 129 /\ ByteAt(f.payload, 0) = 128 -> 9
       [] f.type = "CONFIG_RESP" /\ n = 69 -> 34
       [] OTHER -> 0

\* A payload as WIRE.md describes it is decoded, and none of its fields, text
\* slots, samples or records is left out.
DocumentedIsDecoded ==
  Documented(frame) > 0 => Len(result.val) = Documented(frame)

\* What a decode() makes of the payload the encode() has written is what was
\* sent, for numbers that fit, and for floats up to the bits cut off.
Kept(x, f) == IF f.kind = "float40" THEN Truncated(x) ELSE x
RoundTrip ==
  sent # NoCommand =>
    /\ result.msg = sent.cmd
    /\ \A i \in DOMAIN sent.val : result.val[i] = Kept(sent.val[i], result.fields[i])

=============================================================================
