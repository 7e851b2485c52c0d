---------------------------- MODULE MCFrpDevice ----------------------------
(***************************************************************************)
(* Values of FrpDevice's constants for TLC, and a start behind the         *)
(* handshake, which the runs of BinaryClient cover.                        *)
(***************************************************************************)
EXTENDS FrpDevice

From(bus, msgs) == [src: {bus}, msg: msgs]

\* One shot with its data, arming and configuring, and the keepalives.
MCFrpEnvelopes ==
  From("Dsp", {"DspStatus", "System State"}) \cup From("Pi", {"PiStatus"})
    \cup From("Avr", {"AvrStatus", "ConfigAck", "ModeSet", "ModeAck", "ARMED",
                      "BALL TRIGGER", "PROCESSED", "IDLE", "FlightResult", "ClubResult"})

\* The state in which poll() has just returned the end of the handshake.
AfterHandshake ==
  /\ queue = <<>>
  /\ active = NoOp /\ sync = {} /\ opLeft = Unset
  /\ kaEnabled = FALSE /\ kaQueued = FALSE /\ sinceKa = KeepaliveInterval
  /\ status = {"Dsp", "Avr", "Pi"} /\ device = TRUE
  /\ armed \in BOOLEAN /\ shotInProgress = FALSE
  /\ pc = "ready" /\ ret = "Handshake" /\ out = <<>>
  /\ handled = FALSE /\ payload = {} /\ mainArmed = FALSE /\ exited = FALSE
  /\ connected = TRUE /\ shotNumber = 0 /\ key = 0 /\ told = {}

MCSpec == AfterHandshake /\ [][FrpNext]_frpVars
MCFairSpec == MCSpec /\ WF_frpVars(Poll) /\ WF_frpVars(Main) /\ WF_frpVars(FrpTick)

=============================================================================
