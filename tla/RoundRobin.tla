----------------------------- MODULE RoundRobin -----------------------------
(***************************************************************************)
(* What rpi-thread.h promises: cooperative threads with distinct ids, run  *)
(* in round-robin order, and a start routine that gives the processor back *)
(* to its caller only when no thread is left.                              *)
(***************************************************************************)
EXTENDS Naturals, Sequences

CONSTANTS Id,      \* thread ids
          Main     \* the caller of rpi_thread_start, which is not a thread

VARIABLES ready,      \* ids of the threads that wait to run, in order
          running,    \* the id that has the processor, or Main
          used        \* ids handed out so far

vars == <<ready, running, used>>

Init == ready = <<>> /\ running = Main /\ used = {}

Fork == \E t \in Id \ used :
    /\ used' = used \cup {t}
    /\ ready' = Append(ready, t)
    /\ UNCHANGED running

\* The bookkeeping block of the first start takes an id too.
Start ==
    /\ running = Main /\ ready # <<>>
    /\ running' = Head(ready)
    /\ ready' = Tail(ready)
    /\ used' = used \/ \E t \in Id \ used : used' = used \cup {t}

Yield ==
    /\ running # Main /\ ready # <<>>
    /\ running' = Head(ready)
    /\ ready' = Append(Tail(ready), running)
    /\ UNCHANGED used

Exit ==
    /\ running # Main
    /\ IF ready # <<>> THEN running' = Head(ready) /\ ready' = Tail(ready)
                       ELSE running' = Main /\ UNCHANGED ready
    /\ UNCHANGED used

Next == Fork \/ Start \/ Yield \/ Exit

Spec == Init /\ [][Next]_vars
=============================================================================
