------------------------------ MODULE FrameBag ------------------------------
(***************************************************************************)
(* What a connection promises about frames without a promise of order:     *)
(* every frame the device sends is handed out once, as a message or as the *)
(* error of a frame that does not decode, and nothing else is handed out.  *)
(***************************************************************************)
EXTENDS Integers

VARIABLES sent,      \* the frames sent so far are 1..sent
          inFlight,  \* those not handed out yet
          handed     \* those handed out

vars == <<sent, inFlight, handed>>

Init == sent = 0 /\ inFlight = {} /\ handed = {}

Send ==
  /\ sent' = sent + 1
  /\ inFlight' = inFlight \cup {sent + 1}
  /\ UNCHANGED handed

HandOut ==
  \E n \in inFlight :
    /\ inFlight' = inFlight \ {n}
    /\ handed' = handed \cup {n}
    /\ UNCHANGED sent

Next == Send \/ HandOut

Spec == Init /\ [][Next]_vars

=============================================================================
