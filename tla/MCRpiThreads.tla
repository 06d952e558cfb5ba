---------------------------- MODULE MCRpiThreads ----------------------------
(* Five ids: the scheduler's and four threads, so that blocks are reused and the *)
(* package is restarted after its queue has run dry.                              *)
EXTENDS RpiThreads
=============================================================================
