--------------------------- MODULE MCStandalone ---------------------------
(* A stream, a unary call and, in the run that checks the properties, a second unary call. *)
EXTENDS StandaloneClient
CONSTANTS u, s, v

\* u passes timeout 0 and gets the client's default; s passes its own.
MCTimeout == [c \in Calls |-> IF c = u THEN 0 ELSE 5]
=============================================================================
