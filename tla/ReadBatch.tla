------------------------------ MODULE ReadBatch ------------------------------
(***************************************************************************)
(* What recv() of src/conn.rs and of src/gvp/conn.rs do with the frames    *)
(* that one read of the stream completes: pop() takes one, the others wait *)
(* in pending, from whose end the next calls pop.                          *)
(***************************************************************************)
EXTENDS Sequences, SequencesExt

\* Faulty variants: the first frame is taken; the rest is not reversed or is
\* dropped.
FirstArrived(frames) == Head(frames)
StashUnreversed(frames) == Front(frames)
StashNothing(frames) == <<>>

\* What pop() takes from the frames of one read, and what is stashed of them.
First(frames) == Last(frames)
Stash(frames) == Reverse(Front(frames))

=============================================================================
