------------------------------ MODULE MCCodec ------------------------------
(* Payloads of up to three bytes around every threshold, and a negative threshold;  *)
(* ttls that are none, negative, and up to five milliseconds.                       *)
EXTENDS WireCodec
CONSTANTS a, b

MCThresholds == {-1, 0, 2}
MCTtls == -1 .. 5

\* Operands on both sides of zero; as doubles, from -1.75 to 1.75.
MCDeltas == -7 .. 7

\* A value that is never compressed, and one that a threshold compresses.
MCElements == {[type |-> "BYTES", data |-> <<>>], [type |-> "BYTES", data |-> <<b>>]}
MCMapKeys  == {<<>>, <<a>>, <<b, a>>}
=============================================================================
