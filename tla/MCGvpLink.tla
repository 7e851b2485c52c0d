----------------------------- MODULE MCGvpLink -----------------------------
(***************************************************************************)
(* Streams and messages of GvpLink for TLC.                                *)
(***************************************************************************)
EXTENDS GvpLink

Text(type, body) == [json |-> TRUE, type |-> type, body |-> body]

\* Three configurations, with a message that fails and one that is unknown
\* between them.
MCContent ==
  << Text("CONFIG", TRUE), [json |-> FALSE, type |-> "", body |-> FALSE],
     Text("CONFIG", TRUE), Text("TRIGGER", FALSE), Text("CONFIG", TRUE) >>

\* The n-th message with white space around it, or of a two-byte character.
Spaced(n) == <<Blank, 64 + n, Blank, NULL>>
TwoByte(n) == <<Lead, 160 + n, NULL>>

\* Between messages: nothing, an empty segment, and ones that are not UTF-8.
Junk == {<<>>, <<NULL>>, <<Lead, NULL>>, <<161, NULL>>}

\* Five messages with junk in two places.
MCStreams ==
  {first \o junk \o <<66, NULL, 67, NULL>> \o empty \o <<68, NULL, 69, NULL>> :
     first \in {Spaced(1), TwoByte(1)}, junk \in Junk, empty \in {<<>>, <<NULL>>}}

=============================================================================
