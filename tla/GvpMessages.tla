----------------------------- MODULE GvpMessages -----------------------------
(***************************************************************************)
(* GvpMessage::decode of src/gvp/mod.rs and what GvpClient::poll() makes   *)
(* of its result.  A text is abstracted to what decode() asks about it:    *)
(* whether it is JSON, the string in its "type" field, and whether the     *)
(* rest has the fields of that type's struct.                              *)
(***************************************************************************)

\* The message types that get a struct of their own.
Variant ==
  [CONFIG |-> "Config", STATUS |-> "Status", LOG |-> "Log", RESULT |-> "Result",
   MT_VIDEO_AVAILABLE |-> "VideoAvailable"]

\* Those the program sends, which are Unknown when they come back.
CommandTypes ==
  {"CONFIG_REQUEST", "TRIGGER", "MT_GOLF_EXPECTED_CLUB_TRACK", "MT_GOLF_EXPECTED_TRACK"}

\* "" stands for a type field that is missing or not a string.
Json == [json: BOOLEAN, type: DOMAIN Variant \cup CommandTypes \cup {"OTHER", ""}, body: BOOLEAN]

DecodeErrors == {"JsonError", "ProtocolError"}
Events == {Variant[t] : t \in DOMAIN Variant} \cup {"Unknown"}

\* The event of a text, or the error decode() returns.  A struct of another
\* type with a bad body is an error; the body of an unknown type is not read.
Decode(text) ==
  CASE ~text.json -> "JsonError"
    [] text.json /\ text.type = "" -> "ProtocolError"
    [] text.json /\ text.type \in DOMAIN Variant ->
         IF text.body THEN Variant[text.type] ELSE "JsonError"
    [] OTHER -> "Unknown"

=============================================================================
