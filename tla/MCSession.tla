------------------------------ MODULE MCSession ------------------------------
(***************************************************************************)
(* Values of Session's constants for TLC.                                  *)
(***************************************************************************)
EXTENDS Session

MCSettings == {[params |-> 1, cal |-> TRUE]}

=============================================================================
