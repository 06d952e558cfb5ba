-------------------------- MODULE MCCircularQueue --------------------------
(* A ring of four slots (three elements), batches of two, two byte values. *)
EXTENDS CircularQueue

MCByte == {0, 1}
Masked == {FALSE}
AnyMask == BOOLEAN
=============================================================================
