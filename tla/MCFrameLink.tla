----------------------------- MODULE MCFrameLink -----------------------------
(***************************************************************************)
(* Frames for FrameLink, chosen for what is hard about stuffing: special   *)
(* bytes in the payload, in the checksum (the empty frames of these types  *)
(* have the sums 0xF0, 0xF1, 0xFA and 0xFD), and both bytes of an escape.  *)
(***************************************************************************)
EXTENDS FrameLink

FromDsp(type, payload) == [dest |-> 16, src |-> 64, type |-> type, payload |-> payload]

MCFrames ==
  {FromDsp(t, <<>>) : t \in {160, 161, 170, 173}}
    \cup {FromDsp(1, p) : p \in {<<240, 241>>, <<253, 2>>, <<250, 241, 160>>}}

MCSendable == {<<f>> : f \in MCFrames} \cup {<<f, FromDsp(161, <<241>>)>> : f \in MCFrames}

\* Every stream of at most six bytes that are markers or something else, and
\* what is left of those frames wherever the program joins.
MCStreams ==
  BoundedSeq({START, END, 1}, 6)
    \cup UNION {{Joined(fs, n) : n \in 0..Len(Wire(fs))} : fs \in MCSendable}

=============================================================================
