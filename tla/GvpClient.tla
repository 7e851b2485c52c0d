------------------------------ MODULE GvpClient ------------------------------
(***************************************************************************)
(* GvpClient of src/gvp/client.rs over GvpConnection of src/gvp/conn.rs,   *)
(* whose recv() is the one of Connection: frames are JSON messages here,   *)
(* Corrupt ones those that do not decode.                                  *)
(***************************************************************************)
EXTENDS Connection

CONSTANT Configs  \* the numbers of the CONFIG messages

VARIABLE config  \* the message config holds, 0 when it holds none

gvpVars == <<vars, config>>

GvpInit == Init /\ config = 0

Cached(n) == IF n \in Configs THEN n ELSE config

\* poll() for a message that arrives, and for recv() returning an error.
PollMessage ==
  /\ RecvPending \/ RecvRead
  /\ config' = IF ret' = "Message" THEN Cached(Last(delivered')) ELSE config

PollOther ==
  /\ RecvNothing \/ RecvDisconnected
  /\ UNCHANGED config

Camera == (DeviceSends \/ DeviceCloses) /\ UNCHANGED config

GvpNext == PollMessage \/ PollOther \/ Camera

GvpSpec == GvpInit /\ [][GvpNext]_gvpVars

\* poll() is called again and again, and what was sent arrives in the end.
GvpFairSpec == GvpSpec /\ WF_gvpVars(PollMessage)

-----------------------------------------------------------------------------
(* Properties.                                                             *)

ConfigsReturned == Elements(delivered) \cap Configs

\* The cached configuration is one that arrived, and at most one that arrived
\* is newer: the one that overtook it in its read.  So config() is not always
\* the latest configuration, as its comment says, and never lags further.
ConfigLagsByOne ==
  /\ config = 0 <=> ConfigsReturned = {}
  /\ config # 0 => config \in ConfigsReturned
  /\ Cardinality({n \in ConfigsReturned : n > config}) <= 1

=============================================================================
