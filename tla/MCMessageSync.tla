--------------------------- MODULE MCMessageSync ---------------------------
(* Model values and bounds for checking MessageSync with TLC. *)
EXTENDS MessageSync

CONSTANTS a, b

\* /contacts returns one of the two other people; the other one is unknown.
MCInitContacts == <<a>>
=============================================================================
