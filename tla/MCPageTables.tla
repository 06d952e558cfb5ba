---------------------------- MODULE MCPageTables ----------------------------
(* Two sections, one of them cached, two values.                           *)
EXTENDS PageTables
=============================================================================
