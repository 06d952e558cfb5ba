-------------------------- MODULE MCLogicAnalyzer ---------------------------
(* Six edges, and a queue that is full after two edges and a half.         *)
EXTENDS LogicAnalyzer
=============================================================================
