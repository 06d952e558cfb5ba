----------------------------- MODULE MCNrfRadio -----------------------------
(* With and without acknowledgements. *)
EXTENDS NrfRadio

BothModes == BOOLEAN
=============================================================================
