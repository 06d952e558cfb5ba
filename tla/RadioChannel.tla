---------------------------- MODULE RadioChannel ----------------------------
(***************************************************************************)
(* What labs/14-nrf-networking promises of one direction between two       *)
(* radios: messages arrive in the order in which they were sent; one may   *)
(* be lost, and an acknowledged one may arrive more than once; a send that *)
(* returns success in acknowledged mode has arrived.                       *)
(***************************************************************************)
EXTENDS Naturals, Sequences

VARIABLES acked,        \* TRUE: hardware acknowledgements and retransmissions
          offered,      \* messages handed to the sender so far; the last is number offered
          sending,      \* is the last one still being sent?
          reached,      \* has it arrived?
          inbox,        \* numbers of the messages that have arrived and are not read
          got,          \* the number of the last message read
          done          \* sends that have returned success

vars == <<acked, offered, sending, reached, inbox, got, done>>

Init ==
    /\ acked \in BOOLEAN
    /\ offered = 0 /\ done = 0 /\ ~sending /\ ~reached
    /\ inbox = <<>> /\ got = 0

Offer ==
    /\ ~sending
    /\ offered' = offered + 1 /\ sending' = TRUE /\ reached' = FALSE
    /\ UNCHANGED <<inbox, got, done>>

\* A repeated arrival is a retransmission whose acknowledgement was lost.
Arrive ==
    /\ sending /\ (reached => acked)
    /\ inbox' = Append(inbox, offered) /\ reached' = TRUE
    /\ UNCHANGED <<offered, sending, got, done>>

Succeed ==
    /\ sending /\ (acked => reached)
    /\ sending' = FALSE /\ done' = done + 1
    /\ UNCHANGED <<offered, reached, inbox, got>>

\* The sender gives up, although the message may have arrived.
Fail ==
    /\ sending /\ acked
    /\ sending' = FALSE
    /\ UNCHANGED <<offered, reached, inbox, got, done>>

Read ==
    /\ inbox # <<>>
    /\ got' = Head(inbox) /\ inbox' = Tail(inbox)
    /\ UNCHANGED <<offered, sending, reached, done>>

Next ==
    /\ Offer \/ Arrive \/ Succeed \/ Fail \/ Read
    /\ UNCHANGED acked

Spec == Init /\ [][Next]_vars
=============================================================================
