--------------------------- MODULE OperationQueue ---------------------------
(***************************************************************************)
(* What BinaryClient promises its caller about operations, without         *)
(* messages, sequencers, deadlines or keepalives: they run one at a time,  *)
(* in the order they were asked for, a configuration may be preceded by a  *)
(* disarm of its own, and a shot is handled only between two of them.      *)
(* Where writes can fail, the request that begins may be lost.             *)
(***************************************************************************)
EXTENDS Sequences

CONSTANTS Requests,  \* what a caller can ask for
          MayLose    \* whether a request may be lost as it begins

VARIABLES waiting,  \* the requests not started yet, oldest first
          running   \* what is being carried out

vars == <<waiting, running>>

Init == waiting = <<>> /\ running = "Idle"

Request == \E r \in Requests : waiting' = Append(waiting, r) /\ UNCHANGED running

Begin ==
  /\ running = "Idle" /\ waiting # <<>>
  /\ running' = Head(waiting) /\ waiting' = Tail(waiting)

\* The configuration stays first in line while the device is disarmed.
BeginDisarm ==
  /\ running = "Idle" /\ waiting # <<>> /\ Head(waiting) = "ConfigureAvr"
  /\ running' = "Disarm" /\ UNCHANGED waiting

\* Its first command could not be written.
Lose ==
  /\ MayLose /\ running = "Idle" /\ waiting # <<>>
  /\ waiting' = Tail(waiting) /\ UNCHANGED running

BeginShot == running = "Idle" /\ running' = "Shot" /\ UNCHANGED waiting

Finish == running # "Idle" /\ running' = "Idle" /\ UNCHANGED waiting

Next == Request \/ Begin \/ Lose \/ BeginDisarm \/ BeginShot \/ Finish

Spec == Init /\ [][Next]_vars

=============================================================================
